------------------------- MODULE LuaTableInvariant -------------------------
(***************************************************************************)
(* The inductive invariant of LuaTable: how nodes are chained, where keys  *)
(* are, and what a traversal has behind it.                                *)
(***************************************************************************)
EXTENDS LuaTable

\* What a field can hold; the placeholder of newkey only while the table is resized.
Vals == Values \cup {Nil, False}
Node == [key : Keys \cup {Nil, Dead}, val : Vals, next : Nat \cup {-1}]

Fields == {"array", "node", "lsizenode", "firstfree", "ok", "nested"}
TypeOK(tb) ==
    /\ DOMAIN tb = Fields
    /\ tb.array \in Seq(Vals) /\ tb.lsizenode \in Nat
    /\ tb.node \in [0..(twoto(tb.lsizenode) - 1) -> Node]
    /\ tb.firstfree \in DOMAIN tb.node
    /\ tb.ok \in BOOLEAN /\ tb.nested \in BOOLEAN

-----------------------------------------------------------------------------
(* Chains.                                                                     *)

\* The nodes of a chain are the least set with its first one that leads nowhere else.
Leads(tb, C) == \A n \in C : tb.node[n].next \in C \cup {-1}
Chain(tb, start) ==
    {n \in DOMAIN tb.node : \A C \in SUBSET (DOMAIN tb.node) : start \in C /\ Leads(tb, C) => n \in C}

\* A node that was never used is in no chain, no two nodes lead to one, and none leads
\* back to itself.
LinksOK(tb) ==
    /\ \A n \in DOMAIN tb.node :
          /\ tb.node[n].next # -1 =>
                tb.node[n].next \in DOMAIN tb.node /\ tb.node[tb.node[n].next].key # Nil
          /\ tb.node[n].key = Nil => tb.node[n].next = -1 /\ tb.node[n].val = Nil
    /\ \A m, n \in DOMAIN tb.node : tb.node[m].next = tb.node[n].next /\ tb.node[n].next # -1 => m = n
    /\ \A C \in SUBSET (DOMAIN tb.node) : C # {} => \E n \in C : tb.node[n].next \notin C

-----------------------------------------------------------------------------
(* Keys.                                                                       *)

Real(tb)    == {n \in DOMAIN tb.node : tb.node[n].key \in Keys}
Home(tb, n) == luaH_mainposition(tb, tb.node[n].key)

\* Each key is in one place, and in the chain from its main position on. That position is
\* not taken by a key of another one, also when the keys were cleared since.
InArray(tb, key) == key[1] = "num" /\ key[2] \in 1..sizearray(tb)
KeysOK(tb) ==
    /\ \A n \in DOMAIN tb.node : tb.node[n].val # Nil => n \in Real(tb)
    /\ \A m, n \in Real(tb) : tb.node[m].key = tb.node[n].key => m = n
    /\ \A n \in Real(tb) : n \in Chain(tb, Home(tb, n)) /\ ~InArray(tb, tb.node[n].key)
    /\ \A m, n \in Real(tb) : Home(tb, m) # m => Home(tb, n) # m
    /\ \A i \in 1..sizearray(tb) : tb.array[i] # Nil => <<"num", i>> \in Keys
    /\ sizearray(tb) <= twoto(MAXBITS)

\* The nodes behind the free position are used, and it is not.
FreeOK(tb) ==
    /\ tb.node[tb.firstfree].key = Nil
    /\ \A n \in DOMAIN tb.node : n > tb.firstfree => tb.node[n].key # Nil

\* Keys die only when the collector may clear entries.
NoDead(tb) == \A n \in DOMAIN tb.node : tb.node[n].key # Dead

Sound(tb) == TypeOK(tb) /\ LinksOK(tb) /\ KeysOK(tb)

-----------------------------------------------------------------------------
(* Traversals.                                                                 *)

\* The keys that a traversal has delivered are those up to where it is, unless it has lost
\* its place, which needs an entry that the collector has cleared.
TraversalOK ==
    /\ going \in BOOLEAN /\ at \in Keys \cup {Nil} /\ seen \subseteq Keys
    /\ ~going => at = Nil /\ seen = {}
    /\ going /\ InvalidKey => \E n \in DOMAIN t.node : t.node[n].key = Dead
    /\ going /\ ~InvalidKey =>
          \A k \in Keys : Present(k) => (k \in seen <=> luaH_index(t, k) <= luaH_index(t, at))

IInv == Sound(t) /\ FreeOK(t) /\ t.ok /\ ~t.nested /\ (Weak \/ NoDead(t)) /\ TraversalOK
=============================================================================
