------------------------------- MODULE LuaList -------------------------------
(***************************************************************************)
(* The table library of the bundled Lua interpreter (src/lua/ltablib.c,    *)
(* with luaL_getn and luaL_setn of lauxlib.c): lists, and their quicksort. *)
(*                                                                         *)
(* The length of a list is in its field n, or in a table of sizes, or is   *)
(* counted.  sort asks a function of the program for every comparison, so  *)
(* every comparison is a step here: the function may raise an error, and   *)
(* it need not be an order at all.  It does not change the table.          *)
(***************************************************************************)
EXTENDS Integers, Sequences, FiniteSets

CONSTANTS
    Values,      \* bound: numbers
    AnyValues,   \* bound: the numbers in lists that are sorted by a function that is no order
    MaxSize      \* bound: elements of the list

ASSUME ListConstants == Values \subseteq Nat /\ AnyValues \subseteq Values /\ MaxSize \in Nat

VARIABLES
    arr,         \* what the table holds for integers
    nfield,      \* its field n, or None
    sizes,       \* its entry in the table of sizes, or None
    order,       \* "strict" if comparisons are those of numbers, or "any"
    sort         \* what sort is doing, or how it ended

vars == <<arr, nfield, sizes, order, sort>>

None == -1
Nil  == -1
Cells == 0..(MaxSize + 2)

(* sort.pc is the comparison that is asked for: "ends" (a[u] < a[l]), "low"          *)
(* (a[i] < a[l]), "high" (a[u] < a[i]), "up" (a[i] < P) or "down" (P < a[j]); or     *)
(* "done", "error", or "idle" before the first.  sort.calls are the l and u of the   *)
(* auxsort that wait for a recursive one; before is what the table held, and n its   *)
(* length.                                                                           *)
Idle == [pc |-> "idle", l |-> 1, u |-> 0, i |-> 0, j |-> 0, P |-> Nil, calls |-> << >>,
         before |-> [c \in Cells |-> Nil], n |-> 0]

Init == /\ arr = [c \in Cells |-> Nil]
        /\ nfield = None /\ sizes = None
        /\ order = "strict"
        /\ sort = Idle

Asking   == sort.pc \in {"ends", "low", "high", "up", "down"}

-----------------------------------------------------------------------------
(* Lengths.                                                                 *)

\* How many elements there are before the first nil.
Counted == Cardinality({n \in 1..(MaxSize + 1) : \A c \in 1..n : arr[c] # Nil})
luaL_getn == IF nfield # None THEN nfield ELSE IF sizes # None THEN sizes ELSE Counted
luaL_setn(n) == IF nfield # None THEN nfield' = n /\ UNCHANGED sizes
                ELSE sizes' = n /\ UNCHANGED nfield

-----------------------------------------------------------------------------
(* Lists.                                                                   *)

Quiet == ~Asking /\ ~(order = "any" /\ sort.pc # "idle")

\* Mutant: the element at the position is not moved up.
luaB_tinsert_over(pos, v) ==
    /\ Quiet /\ luaL_getn < MaxSize
    /\ luaL_setn(luaL_getn + 1)
    /\ arr' = [c \in Cells |-> IF c = pos THEN v ELSE IF c \in (pos + 2)..(luaL_getn + 1) THEN arr[c - 1] ELSE arr[c]]
    /\ sort' = Idle /\ UNCHANGED order

luaB_tinsert(pos, v) ==
    /\ Quiet /\ luaL_getn < MaxSize
    /\ luaL_setn(luaL_getn + 1)
    /\ arr' = [c \in Cells |-> IF c = pos THEN v ELSE IF c \in (pos + 1)..(luaL_getn + 1) THEN arr[c - 1] ELSE arr[c]]
    /\ sort' = Idle /\ UNCHANGED order

luaB_tremove(pos) ==
    /\ Quiet /\ luaL_getn > 0
    /\ luaL_setn(luaL_getn - 1)
    /\ arr' = [c \in Cells |-> IF c \in pos..(luaL_getn - 1) THEN arr[c + 1] ELSE IF c = luaL_getn THEN Nil ELSE arr[c]]
    /\ sort' = Idle /\ UNCHANGED order

\* setn of a length up to the present one.
luaB_setn(n) == Quiet /\ luaL_setn(n) /\ sort' = Idle /\ UNCHANGED <<arr, order>>

\* The program: t.n = its length; t[i] = v within the list, and behind it where the
\* length is counted.
SetField == Quiet /\ nfield = None /\ sizes = None /\ nfield' = luaL_getn /\ sort' = Idle /\ UNCHANGED <<arr, sizes, order>>
Assign(i, v) ==
    /\ Quiet
    /\ i <= luaL_getn \/ (nfield = None /\ sizes = None)
    /\ arr' = [arr EXCEPT ![i] = v]
    /\ sort' = Idle /\ UNCHANGED <<nfield, sizes, order>>

-----------------------------------------------------------------------------
(* Sorting.  The operators give the table and what sort does next, [a, s].   *)

\* Mutant: one of the two elements is not written.
set2_once(a, i, j) == [a EXCEPT ![i] = a[j]]
set2(a, i, j) == [a EXCEPT ![i] = a[j], ![j] = a[i]]

\* The head of auxsort's loop, and the return to the auxsort that called it: the first
\* that has something to sort goes on.
Begin(s, l, u, calls) == [Idle EXCEPT !.pc = "ends", !.l = l, !.u = u, !.calls = calls, !.before = s.before, !.n = s.n]
Over(s, how) == [Idle EXCEPT !.pc = how, !.before = s.before, !.n = s.n]
Waiting(s) == {k \in 1..Len(s.calls) : s.calls[k].l < s.calls[k].u}
Return(a, s) ==
    LET k == CHOOSE k \in Waiting(s) : \A m \in Waiting(s) : m <= k
    IN [a |-> a, s |-> IF Waiting(s) = {} THEN Over(s, "done")
                       ELSE Begin(s, s.calls[k].l, s.calls[k].u, SubSeq(s.calls, 1, k - 1))]
Loop(a, s) == IF s.l < s.u THEN [a |-> a, s |-> Begin(s, s.l, s.u, s.calls)] ELSE Return(a, s)

\* The median is at i: it goes to u - 1 and is the pivot.
Median(a, s) ==
    IF s.u - s.l = 2 THEN Return(a, s)
    ELSE [a |-> set2(a, s.i, s.u - 1),
          s |-> [s EXCEPT !.P = a[s.i], !.i = s.l + 1, !.j = s.u - 1, !.pc = "up"]]

\* Mutants: the pivot is not put back; the larger part is sorted by the recursive call;
\* the larger part is not cut off.
Partitioned_moved(a, s) ==
    LET i == s.i
        small == IF i - s.l < s.u - i THEN [l |-> s.l, u |-> i - 1] ELSE [l |-> i + 1, u |-> s.u]
        large == IF i - s.l < s.u - i THEN [l |-> i + 1, u |-> s.u] ELSE [l |-> s.l, u |-> i - 1]
    IN Loop(a, [s EXCEPT !.l = small.l, !.u = small.u, !.calls = Append(@, large)])
Partitioned_larger(a, s) ==
    LET i == s.i
        small == IF i - s.l < s.u - i THEN [l |-> s.l, u |-> i - 1] ELSE [l |-> i + 1, u |-> s.u]
        large == IF i - s.l < s.u - i THEN [l |-> i + 1, u |-> s.u] ELSE [l |-> s.l, u |-> i - 1]
    IN Loop(set2(a, s.u - 1, i), [s EXCEPT !.l = large.l, !.u = large.u, !.calls = Append(@, small)])
Partitioned_all(a, s) ==
    LET i == s.i
        small == IF i - s.l < s.u - i THEN [l |-> s.l, u |-> i - 1] ELSE [l |-> i + 1, u |-> s.u]
        large == IF i - s.l < s.u - i THEN [l |-> s.l, u |-> s.u] ELSE [l |-> s.l, u |-> i - 1]
    IN Loop(set2(a, s.u - 1, i), [s EXCEPT !.l = small.l, !.u = small.u, !.calls = Append(@, large)])

\* The smaller part is sorted by a recursive call, the larger one by the loop.
Partitioned(a, s) ==
    LET i == s.i
        small == IF i - s.l < s.u - i THEN [l |-> s.l, u |-> i - 1] ELSE [l |-> i + 1, u |-> s.u]
        large == IF i - s.l < s.u - i THEN [l |-> i + 1, u |-> s.u] ELSE [l |-> s.l, u |-> i - 1]
    IN Loop(set2(a, s.u - 1, i), [s EXCEPT !.l = small.l, !.u = small.u, !.calls = Append(@, large)])

Failed(a, s) == [a |-> a, s |-> Over(s, "error")]

\* What the five comparisons lead to.
Ends(a, s, less) ==
    LET b == IF less THEN set2(a, s.l, s.u) ELSE a
    IN IF s.u - s.l = 1 THEN Return(b, s)
       ELSE [a |-> b, s |-> [s EXCEPT !.i = (s.l + s.u) \div 2, !.pc = "low"]]
Low(a, s, less)  == IF less THEN Median(set2(a, s.i, s.l), s) ELSE [a |-> a, s |-> [s EXCEPT !.pc = "high"]]
High(a, s, less) == Median(IF less THEN set2(a, s.i, s.u) ELSE a, s)

\* Mutant: the check of the bound is one too late.
Up_late(a, s, less) ==
    IF ~less THEN [a |-> a, s |-> [s EXCEPT !.j = @ - 1, !.pc = "down"]]
    ELSE IF s.i > s.u + 1 THEN Failed(a, s)
    ELSE [a |-> a, s |-> [s EXCEPT !.i = @ + 1]]
Up(a, s, less) ==
    IF ~less THEN [a |-> a, s |-> [s EXCEPT !.j = @ - 1, !.pc = "down"]]
    ELSE IF s.i > s.u THEN Failed(a, s)
    ELSE [a |-> a, s |-> [s EXCEPT !.i = @ + 1]]
Down(a, s, less) ==
    IF less THEN (IF s.j < s.l THEN Failed(a, s) ELSE [a |-> a, s |-> [s EXCEPT !.j = @ - 1]])
    ELSE IF s.j < s.i THEN Partitioned(a, s)
    ELSE [a |-> set2(a, s.i, s.j), s |-> [s EXCEPT !.i = @ + 1, !.pc = "up"]]

After(a, s, less) ==
    CASE s.pc = "ends" -> Ends(a, s, less)
      [] s.pc = "low"  -> Low(a, s, less)
      [] s.pc = "high" -> High(a, s, less)
      [] s.pc = "up"   -> Up(a, s, less)
      [] OTHER         -> Down(a, s, less)

\* The two values that are compared, as the code passes them.
Compared == CASE sort.pc = "ends" -> <<arr[sort.u], arr[sort.l]>>
              [] sort.pc = "low"  -> <<arr[sort.i], arr[sort.l]>>
              [] sort.pc = "high" -> <<arr[sort.u], arr[sort.i]>>
              [] sort.pc = "up"   -> <<arr[sort.i], sort.P>>
              [] OTHER            -> <<sort.P, arr[sort.j]>>

luaB_sort ==
    /\ Quiet
    /\ sort' = Loop(arr, [Idle EXCEPT !.l = 1, !.u = luaL_getn, !.n = luaL_getn, !.before = arr]).s
    /\ order' \in {"strict", "any"}
    /\ order' = "any" => \A c \in Cells : arr[c] \in AnyValues \cup {Nil}
    /\ UNCHANGED <<arr, nfield, sizes>>

\* sort_comp returns.  Numbers are only comparable with numbers.
sort_comp(less) ==
    /\ Asking
    /\ order = "strict" => /\ Nil \notin {Compared[1], Compared[2]}
                           /\ less = (Compared[1] < Compared[2])
    /\ LET next == After(arr, sort, less)
       IN arr' = next.a /\ sort' = next.s
    /\ UNCHANGED <<nfield, sizes, order>>

\* The function, or the comparison, raises an error.
CompareFails == /\ Asking
                /\ sort' = Over(sort, "error")
                /\ UNCHANGED <<arr, nfield, sizes, order>>

Sorting == (\E less \in BOOLEAN : sort_comp(less)) \/ CompareFails
Listing == \/ \E v \in Values : \/ \E pos \in 1..(luaL_getn + 1) : luaB_tinsert(pos, v)
                                \/ \E i \in 1..(luaL_getn + 1) : i <= MaxSize /\ Assign(i, v)
           \/ \E pos \in 1..luaL_getn : luaB_tremove(pos)
           \/ \E n \in 0..luaL_getn : luaB_setn(n)
           \/ SetField
Next == Listing \/ luaB_sort \/ Sorting

Spec == Init /\ [][Next]_vars /\ WF_vars(Sorting)

-----------------------------------------------------------------------------
(* Properties.                                                              *)

\* luaB_tinsert, luaB_tremove, luaL_setn, auxsort: under any mixture of the three ways
\* to keep its length a table is the sequence that its operations make of it, and sort
\* rearranges it at most, at every comparison and also when one fails.
List == INSTANCE AbstractList WITH
            list <- IF order = "any" /\ sort.pc # "idle" THEN [c \in 1..sort.n |-> sort.before[c]]
                    ELSE [c \in 1..luaL_getn |-> arr[c]]
IsList == List!Spec

\* auxsort, with an order: when it returns the list is sorted.
SortSorts == order = "strict" /\ sort.pc = "done" => \A c \in 1..(sort.n - 1) : arr[c] <= arr[c + 1]

\* set2: whatever the comparisons answer, and wherever one raises an error, the table
\* holds what it held, each value as often.
NothingLost ==
    sort.pc # "idle" => \A v \in Values \cup {Nil} :
        Cardinality({c \in Cells : arr[c] = v}) = Cardinality({c \in Cells : sort.before[c] = v})

\* auxsort, "if (i>u)" and "if (j<l)": a function that is no order can lead sort one
\* element behind the list, where it may even write, but not further; an order does not.
StaysInside ==
    sort.pc # "idle" =>
        /\ \A c \in Cells : arr[c] # sort.before[c] => c \in 1..(IF order = "strict" THEN sort.n ELSE sort.n + 1)
        /\ Asking => sort.i \in 0..(sort.n + 1) /\ sort.j \in 0..sort.n

\* luaB_sort reserves stack for 40 values, "assume array is smaller than 2^40": the
\* recursion is as deep as the logarithm of the length, whatever the comparisons answer.
DepthIsLogarithm == sort.pc # "idle" /\ sort.n > 0 => 2 ^ Len(sort.calls) <= sort.n

\* With an order sort ends.
SortEnds == (Asking /\ order = "strict") ~> ~Asking
=============================================================================
