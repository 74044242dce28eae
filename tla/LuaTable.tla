------------------------------ MODULE LuaTable ------------------------------
(***************************************************************************)
(* The tables of the bundled Lua interpreter (src/lua/ltable.c): an array  *)
(* part for the keys 1..n, and a hash part of nodes in which the keys of a *)
(* main position are chained and the last free node is tracked downwards.  *)
(* When there is no free node left both parts are counted and resized.     *)
(*                                                                         *)
(* One table is assigned to and gone through; the collector may take       *)
(* entries of it away when it is weak.  Nodes are numbered from 0, and -1  *)
(* is the end of a chain.  The node of an empty hash part, which all       *)
(* tables share, is node 0 of a part of size 1.  t.ok says that every      *)
(* lua_assert held and no "table overflow" was raised; t.nested that a     *)
(* reinsertion needed a second resize, which WellFormed excludes.          *)
(***************************************************************************)
EXTENDS Integers, Sequences, FiniteSets, TLC

CONSTANTS
    Keys,        \* bound: <<"num", n>> of integers, <<"str", s>>, and <<"ptr", p>> of objects
    Values,      \* bound: values, not nil
    WeakValues,  \* those of them that are collectable objects
    Hash,        \* the hash of each key
    Weak,        \* whether the collector may clear entries
    MAXBITS      \* the array part has at most 2^MAXBITS elements

ASSUME TableConstants ==
    /\ \A k \in Keys : \/ k[1] = "num" /\ k[2] \in Int /\ k = <<"num", k[2]>>
                      \/ k[1] \in {"str", "ptr"}
    /\ Hash \in [Keys -> Nat]
    /\ <<"nil">> \notin Values /\ WeakValues \subseteq Values
    /\ Weak \in BOOLEAN /\ MAXBITS \in Nat

\* No more keys than nodes can be made for: otherwise setnodevector raises "table overflow".
ASSUME FewKeys == IsFiniteSet(Keys) /\ Cardinality(Keys) < 2 ^ MAXBITS

VARIABLES
    t,           \* the Table
    going, seen, \* a traversal is going on, and the keys it has delivered
    at           \* the key it is at

vars == <<t, going, seen, at>>

Nil   == <<"nil">>
Dead  == <<"dead">>
False == <<"bool", FALSE>>
twoto(n) == 2 ^ n
luaO_log2(x) == IF x = 0 THEN -1 ELSE CHOOSE n \in 0..x : twoto(n) <= x /\ x < twoto(n + 1)
Asserted(tb, c) == IF c THEN tb ELSE [tb EXCEPT !.ok = FALSE]

-----------------------------------------------------------------------------
(* Finding a key.                                                           *)

sizearray(tb) == Len(tb.array)
sizenode(tb)  == twoto(tb.lsizenode)

\* Strings are taken modulo a power of two, other keys modulo an odd number.
luaH_mainposition(tb, key) ==
    IF key[1] = "str" THEN Hash[key] % sizenode(tb)
    ELSE Hash[key] % (IF sizenode(tb) <= 2 THEN 1 ELSE sizenode(tb) - 1)

arrayindex(key) == IF key[1] = "num" /\ key[2] >= 1 /\ key[2] <= twoto(MAXBITS) THEN key[2] ELSE -1

\* The first node in S of the chain from node start on, or -1.
FirstIn(tb, start, S) ==
    LET first[n \in DOMAIN tb.node \cup {-1}] ==
            IF n = -1 \/ n \in S THEN n ELSE first[tb.node[n].next]
    IN first[start]

NodesOf(tb, key) == {n \in DOMAIN tb.node : tb.node[n].key = key}

\* Where a key is: <<"array", index>>, <<"node", n>> or nowhere.
luaH_get(tb, key) ==
    LET n == FirstIn(tb, luaH_mainposition(tb, key), NodesOf(tb, key))
    IN IF key[1] = "num" /\ key[2] \in 1..sizearray(tb) THEN <<"array", key[2]>>
       ELSE IF n = -1 THEN <<"none">> ELSE <<"node", n>>

ValueAt(tb, p) == CASE p[1] = "array" -> tb.array[p[2]]
                    [] p[1] = "node"  -> tb.node[p[2]].val
                    [] OTHER          -> Nil
StoreAt(tb, p, v) == IF p[1] = "array" THEN [tb EXCEPT !.array[p[2]] = v]
                     ELSE [tb EXCEPT !.node[p[2]].val = v]

-----------------------------------------------------------------------------
(* Sizes.                                                                   *)

\* How many keys are in the slice (2^(lg-1), 2^lg], in use in either part.
ArrayUse(tb) == {i \in 1..sizearray(tb) : tb.array[i] # Nil}
NodeUse(tb)  == {n \in DOMAIN tb.node : tb.node[n].val # Nil}
numuse(tb) ==
    LET Slot(k) == luaO_log2(k - 1) + 1
        ints == {n \in NodeUse(tb) : arrayindex(tb.node[n].key) >= 0}
    IN [nums   |-> [lg \in 0..MAXBITS |->
                      Cardinality({i \in ArrayUse(tb) : Slot(i) = lg})
                        + Cardinality({n \in ints : Slot(arrayindex(tb.node[n].key)) = lg})],
        narray |-> Cardinality(ArrayUse(tb)) + Cardinality(ints),
        total  |-> Cardinality(ArrayUse(tb)) + Cardinality(NodeUse(tb))]

\* The largest array part of which more than half is used.  loop[i] is after the turn for
\* the slice up to 2^i: the keys seen, those that go to the array, and the size's logarithm.
computesizes(u) ==
    LET loop[i \in 0..MAXBITS] ==
            IF i = 0 THEN [a |-> u.nums[0], na |-> u.nums[0], n |-> IF u.nums[0] = 0 THEN -1 ELSE 0]
            ELSE LET s == loop[i - 1]
                     a == s.a + u.nums[i]
                 IN IF ~(s.a < u.narray /\ u.narray >= twoto(i - 1)) THEN s
                    ELSE IF u.nums[i] > 0 /\ a >= twoto(i - 1) THEN [a |-> a, na |-> a, n |-> i]
                    ELSE [s EXCEPT !.a = a]
        s      == loop[MAXBITS]
        nasize == IF s.n = -1 THEN 0 ELSE twoto(s.n)
    IN [nasize |-> nasize, nhash |-> u.total - s.na,
        ok |-> s.na <= u.narray /\ u.narray <= u.total /\ s.na <= nasize /\ s.na >= nasize \div 2]

-----------------------------------------------------------------------------
(* New keys.                                                                *)

EmptyNode == [key |-> Nil, val |-> Nil, next |-> -1]
setnodevector(tb, lsize) ==
    Asserted([tb EXCEPT !.node = [n \in 0..(twoto(lsize) - 1) |-> EmptyNode], !.lsizenode = lsize,
                        !.firstfree = twoto(lsize) - 1], lsize <= MAXBITS)

\* The node in front of mp in the chain from othern on.
Before(tb, othern, mp) == FirstIn(tb, othern, {n \in DOMAIN tb.node : tb.node[n].next = mp})

\* Mutant: a moved node does not take its place in the chain.
Moved_unlinked(tb, mp, othern) ==
    [tb EXCEPT !.node[tb.firstfree] = tb.node[mp], !.node[mp] = [@ EXCEPT !.next = -1, !.val = Nil]]

\* The colliding node, which is not in its own main position, moves to the free one.
Moved(tb, mp, othern) ==
    [tb EXCEPT !.node[Before(tb, othern, mp)].next = tb.firstfree,
               !.node[tb.firstfree] = tb.node[mp],
               !.node[mp] = [@ EXCEPT !.next = -1, !.val = Nil]]

\* The node for a key that is not there: its main position, which is made free, or a
\* free node that is chained behind it.
Placed(tb, key) ==
    LET mp     == luaH_mainposition(tb, key)
        othern == luaH_mainposition(tb, tb.node[mp].key)
        free   == tb.firstfree
        chained == [tb EXCEPT !.node[free].next = tb.node[mp].next, !.node[mp].next = free]
    IN IF tb.node[mp].val = Nil THEN [tb |-> tb, n |-> mp]
       ELSE IF othern # mp THEN [tb |-> Moved(tb, mp, othern), n |-> mp]
       ELSE [tb |-> chained, n |-> free]

\* The free position goes down to a node that has no key; full says that there is none left.
Corrected(tb, n) ==
    LET free == {m \in 0..tb.firstfree : tb.node[m].key = Nil}
    IN [tb   |-> [tb EXCEPT !.firstfree = IF free = {} THEN 0
                                          ELSE CHOOSE m \in free : \A l \in free : l <= m],
        n    |-> n,
        full |-> free = {}]

\* A key gets its node.
Entered(tb, key) ==
    LET pl == Placed(tb, key)
    IN Corrected(Asserted([pl.tb EXCEPT !.node[pl.n].key = key], pl.tb.node[pl.n].val = Nil), pl.n)

\* luaH_set as resize uses it: a second resize is only noted, as there is none.
Inserted(tb, key, v) ==
    LET p == luaH_get(tb, key)
        e == Entered(tb, key)
    IN IF p[1] # "none" THEN StoreAt(tb, p, v)
       ELSE [StoreAt(e.tb, <<"node", e.n>>, v) EXCEPT !.nested = @ \/ e.full]

\* The elements of a list of keys and values that are not nil, inserted in their order.
Reinsert(tb, es) ==
    LET upto[i \in 0..Len(es)] ==
            IF i = 0 THEN tb
            ELSE IF es[i][2] = Nil THEN upto[i - 1]
            ELSE Inserted(upto[i - 1], es[i][1], es[i][2])
    IN upto[Len(es)]

\* The array part with its new size, what vanishes of it, and the nodes from the last to
\* the first.
Resized(tb, nasize) ==
    [tb EXCEPT !.array = [i \in 1..nasize |-> IF i <= sizearray(tb) THEN tb.array[i] ELSE Nil]]
Gone(tb, nasize) ==
    [i \in 1..(IF nasize < sizearray(tb) THEN sizearray(tb) - nasize ELSE 0) |->
        <<<<"num", nasize + i>>, tb.array[nasize + i]>>]
Nodes(tb) ==
    [i \in 1..sizenode(tb) |-> <<tb.node[sizenode(tb) - i].key, tb.node[sizenode(tb) - i].val>>]

\* Mutant: the elements of a part of the array that vanishes are forgotten.
resize_forgets(tb, nasize, nhsize) ==
    Reinsert(setnodevector(Resized(tb, nasize), nhsize), Nodes(tb))

\* Both parts get their new sizes and the elements are inserted again: those of the
\* array that vanish first, then the old nodes.
resize(tb, nasize, nhsize) ==
    Reinsert(Reinsert(setnodevector(Resized(tb, nasize), nhsize), Gone(tb, nasize)), Nodes(tb))
rehash(tb) ==
    LET sizes == computesizes(numuse(tb))
    IN Asserted(resize(tb, sizes.nasize, luaO_log2(sizes.nhash) + 1), sizes.ok)

\* false stands in the new node while the table is resized, so that it counts as used.
Found(tb, key) ==
    LET p == luaH_get(tb, key)
    IN [tb |-> StoreAt(Asserted(tb, ValueAt(tb, p) = False), p, Nil), p |-> p]
newkey(tb, key) ==
    LET e == Entered(tb, key)
    IN IF e.full THEN Found(rehash([e.tb EXCEPT !.node[e.n].val = False]), key)
       ELSE [tb |-> e.tb, p |-> <<"node", e.n>>]

\* The place for the value of a key.
luaH_set(tb, key) ==
    LET p == luaH_get(tb, key)
    IN IF p[1] # "none" THEN [tb |-> tb, p |-> p] ELSE newkey(tb, key)

-----------------------------------------------------------------------------
(* Traversal.                                                               *)

\* Mutant: nodes are numbered as if there were no array part.
luaH_index_unshifted(tb, key) ==
    LET p == luaH_get(tb, key)
    IN IF key = Nil THEN -1
       ELSE IF arrayindex(key) \in 0..sizearray(tb) THEN arrayindex(key) - 1
       ELSE IF p[1] = "none" THEN -2 ELSE p[2]

\* The number of a key: those of the array part come first; -2 when it is not found.
luaH_index(tb, key) ==
    LET p == luaH_get(tb, key)
        i == arrayindex(key)
    IN IF key = Nil THEN -1
       ELSE IF i \in 0..sizearray(tb) THEN i - 1
       ELSE IF p[1] = "none" THEN -2
       ELSE p[2] + sizearray(tb)

KeyNo(tb, n) == IF n < sizearray(tb) THEN <<"num", n + 1>> ELSE tb.node[n - sizearray(tb)].key
ValueNo(tb, n) == IF n < sizearray(tb) THEN tb.array[n + 1] ELSE tb.node[n - sizearray(tb)].val

\* The first key behind another that has a value, or nil.
luaH_next(tb, key) ==
    LET later == {n \in (luaH_index(tb, key) + 1)..(sizearray(tb) + sizenode(tb) - 1) : ValueNo(tb, n) # Nil}
    IN IF later = {} THEN Nil ELSE KeyNo(tb, CHOOSE n \in later : \A m \in later : n <= m)

-----------------------------------------------------------------------------
(* Behaviour.                                                               *)

luaH_new == setnodevector([array |-> << >>, node |-> << >>, lsizenode |-> 0, firstfree |-> 0,
                           ok |-> TRUE, nested |-> FALSE], 0)

Init == t = luaH_new /\ going = FALSE /\ seen = {} /\ at = Nil

Present(key) == ValueAt(t, luaH_get(t, key)) # Nil

\* t[key] = v; while a traversal goes on only a field that exists may be assigned.
Set(key, v) ==
    /\ going => Present(key)
    /\ LET r == luaH_set(t, key) IN t' = StoreAt(r.tb, r.p, v)
    /\ UNCHANGED <<going, seen, at>>

Begin == ~going /\ going' = TRUE /\ UNCHANGED <<t, seen, at>>

InvalidKey == luaH_index(t, at) = -2
NextKey ==
    /\ going /\ ~InvalidKey
    /\ at' = luaH_next(t, at)
    /\ going' = (at' # Nil)
    /\ seen' = IF at' = Nil THEN {} ELSE seen \cup {at'}
    /\ UNCHANGED t

\* A key that is an object, a string included, is marked as dead and is not found any more.
removekey(n) == [n EXCEPT !.val = Nil, !.key = IF n.key[1] = "num" THEN n.key ELSE Dead]

\* The collector clears entries whose value is dead.
cleartablevalues(tb, dead) ==
    [tb EXCEPT !.node = [n \in DOMAIN tb.node |->
                           IF tb.node[n].val \in dead THEN removekey(tb.node[n]) ELSE tb.node[n]],
               !.array = [i \in DOMAIN tb.array |-> IF tb.array[i] \in dead THEN Nil ELSE tb.array[i]]]
Collect ==
    /\ Weak
    /\ \E dead \in SUBSET WeakValues : t' = cleartablevalues(t, dead)
    /\ UNCHANGED <<going, seen, at>>

Next == \/ \E key \in Keys, v \in Values \cup {Nil} : Set(key, v)
        \/ Begin \/ NextKey \/ Collect

Spec == Init /\ [][Next]_vars /\ WF_vars(NextKey)

-----------------------------------------------------------------------------
(* Properties.                                                              *)

\* What the table holds, for each of the keys that may be asked for.
Contents == [key \in {k \in Keys : Present(k)} |-> ValueAt(t, luaH_get(t, key))]

Map == INSTANCE AbstractMap WITH map <- Contents

\* The table is a map: collisions, moved nodes, cleared fields whose keys stay behind,
\* resizing and the change between the two parts neither lose a field nor bring one
\* back, and next delivers each key once.
IsMap == Map!Spec

\* The structure behind it.  A key is found from its main position whichever chains run
\* through its node, and is in one node only, those that were cleared included; the free
\* position never passes a node that is not used yet; and
\* inserting the elements of a table that is resized never makes another resize, which
\* would pull the nodes away under the loop that inserts them.
WellFormed ==
    LET used == {n \in DOMAIN t.node : t.node[n].key # Nil}
    IN /\ t.ok /\ ~t.nested
       /\ \A n \in used : t.node[n].val # Nil =>
             /\ luaH_get(t, t.node[n].key) = <<"node", n>>
             /\ \A m \in used \ {n} : t.node[m].key # t.node[n].key
       /\ t.lsizenode > 0 => \A n \in DOMAIN t.node : n > t.firstfree => n \in used

\* A traversal finds the key that it is at again: no assignment to a field that exists,
\* clearing included, moves it to another place or takes it out of its chain.
NextFindsKey == going => ~InvalidKey

\* The same, as long as the collector has not cleared an entry.
FoundUnlessCollected == (\A n \in DOMAIN t.node : t.node[n].key # Dead) => NextFindsKey

\* And it ends, or is refused, whatever is assigned and cleared meanwhile.
TraversalEnds == []FoundUnlessCollected /\ (going ~> (~going \/ InvalidKey))
=============================================================================
