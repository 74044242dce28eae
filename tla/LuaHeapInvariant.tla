-------------------------- MODULE LuaHeapInvariant --------------------------
(***************************************************************************)
(* The inductive invariant of LuaHeap: what is true of the heap whenever a *)
(* program or a tag method can run.                                        *)
(***************************************************************************)
EXTENDS LuaHeap

Node == {n \in [key : Objects \cup {Nil, Dead}, val : Objects \cup {Nil}] : n.val # Nil => n.key \in Objects}
Heap == [node : [Tables -> Node], mode : [Tables -> SUBSET {"k", "v"}],
         bits : [Tables -> SUBSET {"k", "v"}], meta : [Udatas -> Tables \cup {Nil}],
         unfinalized : SUBSET Udatas, slot : [Threads -> Objects \cup {Nil}],
         upval : [Closures -> Upvals \cup {Nil}],
         uv : [Upvals -> [open : {Main, Nil}, value : Objects \cup {Nil}]],
         top : Objects \cup {Nil}, strt : SUBSET Strings, rootgc : Seq(Things \ (Udatas \cup Strings)),
         rootudata : Seq(Udatas), tmudata : Seq(Udatas), marked : SUBSET Udatas, ok : BOOLEAN]
Frame == [udata : Udatas \cup {Nil}]

TypeOK ==
    /\ h \in Heap /\ frames \in Seq(Frame)
    /\ life \in {"open", "closing", "closed"} /\ (life = "closed" => frames = << >>)
    /\ calls \in [Udatas -> Nat] /\ late \subseteq Udatas /\ count \in Nat /\ steps \in Nat

-----------------------------------------------------------------------------
(* The lists of userdata.                                                      *)

Distinct(s) == \A i, j \in DOMAIN s : s[i] = s[j] => i = j

\* A userdata is in one list, once.  A mark that is still set is that of a userdata whose
\* tag method has not been called.
ListsOK(g) ==
    /\ Distinct(g.rootudata) /\ Distinct(g.tmudata)
    /\ Elements(g.rootudata) \cap Elements(g.tmudata) = {}
    /\ g.marked \subseteq Elements(g.tmudata)
    /\ Fixed \subseteq g.strt

\* Userdata whose tag method is to be called are not finalized, and finalized ones are
\* those whose tag method was called; when the state is being closed all others are set
\* aside, but for those that tag methods have made.
CallsOK(g, called, closing, made) ==
    /\ Elements(g.tmudata) \subseteq g.unfinalized
    /\ \A u \in Udatas : called[u] <= 1
    /\ \A u \in Elements(g.rootudata) \cup Elements(g.tmudata) : u \in g.unfinalized => called[u] = 0
    /\ \A u \in Elements(g.rootudata) \ g.unfinalized : called[u] = 1 \/ g.meta[u] = Nil
    /\ closing => \A u \in Elements(g.rootudata) \cap g.unfinalized : g.meta[u] = Nil \/ u \in made

-----------------------------------------------------------------------------
(* What must not be freed.                                                     *)

\* Besides what is reachable from the roots R, what a tag method can still come to:
\* userdata that are not finalized can be set aside, also when nothing refers to them.
Start(g, R) == (R \cup Elements(g.tmudata) \cup (Elements(g.rootudata) \cap g.unfinalized)) \ {Nil}
Kept(g, R) == Closed(g, Start(g, R))

AliveIn(g, x) == x \in allocated(g) \/ (x \in Upvals /\ g.uv[x].open # Nil)

\* No table that is cleared for its keys has one that was freed.
KeysKept(g, S) ==
    \A t \in S \cap Tables : "k" \in g.mode[t] /\ g.node[t].key \in Objects => g.node[t].key \in allocated(g)

KeptOK(g, R) == (\A x \in Kept(g, R) : AliveIn(g, x)) /\ KeysKept(g, Kept(g, R))

IInv ==
    /\ TypeOK /\ CallsOK(h, calls, life = "closing", late) /\ h.ok
    /\ life # "closed" => ListsOK(h) /\ KeptOK(h, Roots(h))
=============================================================================
