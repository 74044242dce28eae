--------------------------- MODULE LuaListProofs ----------------------------
(***************************************************************************)
(* Proofs about the lists of LuaList, for lists of every length and of any *)
(* values: its quicksort sorts when the comparisons are an order           *)
(* (Sorted), and whatever they answer it only exchanges elements           *)
(* (KeepsAll), stays within one element of the list (Inside) and calls     *)
(* itself no deeper than the logarithm of the length (DepthIsLogarithm).   *)
(*                                                                         *)
(* The inductive invariant says what auxsort knows at each of its five     *)
(* comparisons.  The list is sorted but for pairs of elements that lie in  *)
(* one range that is still to be sorted: the range at hand, from l to u,   *)
(* or that of an auxsort that waits.  The ranges have no element in        *)
(* common, so what is done in one of them disturbs nothing in another.     *)
(* For the depth, a range is half of the one it was cut from or waits at   *)
(* the depth of that one.                                                  *)
(***************************************************************************)
EXTENDS LuaList, TLAPS, FiniteSetTheorems, SequenceTheorems, WellFoundedInduction

Cell   == Values \cup {Nil}
Table  == [Cells -> Cell]
Span   == [l : Int, u : Int]
Pcs    == {"ends", "low", "high", "up", "down"}
States == [pc : Pcs \cup {"idle", "done", "error"}, l : Int, u : Int, i : Int, j : Int, P : Cell,
           calls : Seq(Span), before : Table, n : 0..MaxSize]

\* How often a value occurs in a table.
Times(a, v) == Cardinality({c \in Cells : a[c] = v})

\* a holds what it held before, and what has changed is within reach.
Kept(a, s, strict) ==
    /\ a \in Table /\ s \in States
    /\ \A v \in Cell : Times(a, v) = Times(s.before, v)
    /\ \A c \in Cells : a[c] # s.before[c] => c \in 1..(IF strict THEN s.n ELSE s.n + 1)

\* The ranges that wait are in the list, and have no element in common.
Within(r, x) == r.l <= x /\ x <= r.u
WaitInList(s) == \A k \in 1..Len(s.calls) : 1 <= s.calls[k].l /\ s.calls[k].u <= s.n
Apart(s) == \A k, m \in 1..Len(s.calls) : \A x \in 1..s.n :
                Within(s.calls[k], x) /\ Within(s.calls[m], x) => k = m
Together(s, x, y) == \E k \in 1..Len(s.calls) : Within(s.calls[k], x) /\ Within(s.calls[k], y)

\* What Return finds: only the ranges that wait are to be sorted.
SortedBut(a, s) == \A x, y \in 1..s.n : x < y => a[x] <= a[y] \/ Together(s, x, y)
Returning(a, s, strict) ==
    /\ Kept(a, s, strict) /\ WaitInList(s)
    /\ strict => Apart(s) /\ SortedBut(a, s)

\* What the head of the loop finds: and the range at hand.
Clear(s) == \A k \in 1..Len(s.calls) : \A x \in 1..s.n : ~(Within(s.calls[k], x) /\ Within(s, x))
SortedButHere(a, s) ==
    \A x, y \in 1..s.n : x < y => a[x] <= a[y] \/ (Within(s, x) /\ Within(s, y)) \/ Together(s, x, y)
Looping(a, s, strict) ==
    /\ Kept(a, s, strict) /\ WaitInList(s)
    /\ 1 <= s.l /\ s.u <= s.n
    /\ strict => Apart(s) /\ Clear(s) /\ SortedButHere(a, s)

\* What is known at each comparison.
AtMedian(a, s, strict) ==
    /\ s.u - s.l >= 2 /\ s.i \in (s.l + 1)..(s.u - 1)
    /\ strict => a[s.l] <= a[s.u]
    /\ strict /\ s.pc = "high" => a[s.l] <= a[s.i]
Scanning(a, s, strict) ==
    /\ s.u - s.l >= 3
    /\ s.i \in (s.l + 1)..(s.u + 1)
    /\ s.j \in (IF s.pc = "up" THEN s.l ELSE s.l - 1)..(IF s.pc = "up" THEN s.u - 1 ELSE s.u - 2)
    /\ strict => /\ s.i <= s.u - 1 /\ a[s.u - 1] = s.P
                 /\ \A x \in s.l..(s.i - 1) : a[x] <= s.P
                 /\ \A x \in (IF s.pc = "up" THEN s.j ELSE s.j + 1)..s.u : s.P <= a[x]
                 /\ s.pc = "down" => s.P <= a[s.i]
Comparing(a, s, strict) ==
    /\ Looping(a, s, strict) /\ s.l < s.u
    /\ s.pc \in {"ends", "low", "high"} => s.j = 0
    /\ s.pc = "ends" => s.i = 0
    /\ s.pc \in {"low", "high"} => AtMedian(a, s, strict)
    /\ s.pc \in {"up", "down"}  => Scanning(a, s, strict)

Known(a, s, strict) ==
    /\ Kept(a, s, strict)
    /\ s.pc \in Pcs => Comparing(a, s, strict)
    /\ s.pc = "done" /\ strict => \A x, y \in 1..s.n : x < y => a[x] <= a[y]

\* The lengths are in range, and where the length is counted there is an end to it.
Lengths == /\ nfield \in {None} \cup 0..MaxSize
           /\ sizes \in {None} \cup 0..MaxSize
           /\ order = "strict" \/ sort.pc = "idle" => arr[MaxSize + 1] = Nil
           /\ sort.pc # "idle" => sort.before[MaxSize + 1] = Nil
ListInv == /\ arr \in Table /\ sort \in States /\ order \in {"strict", "any"}
           /\ Lengths
           /\ sort.pc # "idle" => Known(arr, sort, order = "strict")

-----------------------------------------------------------------------------
(* Exchanging two elements.                                                 *)

LEMMA CellsFinite == IsFiniteSet(Cells)
BY FS_Interval, ListConstants DEF Cells

LEMMA Set2 ==
    ASSUME NEW a \in Table, NEW i \in Cells, NEW j \in Cells
    PROVE  /\ set2(a, i, j) \in Table
           /\ \A c \in Cells : set2(a, i, j)[c] = IF c = j THEN a[i] ELSE IF c = i THEN a[j] ELSE a[c]
BY DEF set2, Table

LEMMA SwapKeepsTimes ==
    ASSUME NEW a \in Table, NEW i \in Cells, NEW j \in Cells, NEW v \in Cell
    PROVE  Times(set2(a, i, j), v) = Times(a, v)
<1> DEFINE b == set2(a, i, j)
           S == {c \in Cells : a[c] = v}
           T == {c \in Cells : b[c] = v}
           f == [c \in S |-> IF c = i THEN j ELSE IF c = j THEN i ELSE c]
<1>1. \A c \in Cells : b[c] = IF c = j THEN a[i] ELSE IF c = i THEN a[j] ELSE a[c]
      BY Set2
<1> HIDE DEF b
<1>2. f \in [S -> T]
      BY <1>1
<1>3. \A c, d \in S : f[c] = f[d] => c = d
      OBVIOUS
<1>4. \A d \in T : \E c \in S : f[c] = d
  <2> SUFFICES ASSUME NEW d \in T PROVE \E c \in S : f[c] = d
      OBVIOUS
  <2>1. CASE d = j
        BY <2>1, <1>1
  <2>2. CASE d = i /\ d # j
        BY <2>2, <1>1
  <2>3. CASE d # i /\ d # j
        BY <2>3, <1>1
  <2> QED BY <2>1, <2>2, <2>3
<1>5. f \in Bijection(S, T)
      BY <1>2, <1>3, <1>4 DEF Bijection, Injection, Surjection, IsInjective
<1>6. IsFiniteSet(S)
      BY CellsFinite, FS_Subset
<1>7. Cardinality(T) = Cardinality(S)
      BY <1>5, <1>6, FS_Bijection DEF ExistsBijection
<1> QED BY <1>7 DEF Times, b

\* The elements that sort may touch.
Reach(s, strict) == 1..(IF strict THEN s.n ELSE s.n + 1)

LEMMA SwapIsKept ==
    ASSUME NEW a, NEW s, NEW strict \in BOOLEAN, Kept(a, s, strict),
           NEW i \in Reach(s, strict), NEW j \in Reach(s, strict)
    PROVE  Kept(set2(a, i, j), s, strict)
<1>1. a \in Table /\ s \in States /\ s.before \in Table /\ s.n \in 0..MaxSize
      BY DEF Kept, States
<1>2. i \in Cells /\ j \in Cells
      BY <1>1, ListConstants DEF Cells, Reach
<1>3. /\ set2(a, i, j) \in Table
      /\ \A c \in Cells : set2(a, i, j)[c] = IF c = j THEN a[i] ELSE IF c = i THEN a[j] ELSE a[c]
      BY <1>1, <1>2, Set2
<1>4. \A v \in Cell : Times(set2(a, i, j), v) = Times(s.before, v)
      BY <1>1, <1>2, SwapKeepsTimes DEF Kept
<1>5. \A c \in Cells : set2(a, i, j)[c] # s.before[c] => c \in Reach(s, strict)
      BY <1>3 DEF Kept, Reach
<1> QED BY <1>1, <1>3, <1>4, <1>5 DEF Kept, Reach

LEMMA CellIsInt == \A v \in Cell : v \in Int
BY ListConstants DEF Cell, Nil

LEMMA KeptAlso ==
    ASSUME NEW a, NEW s, NEW t \in States, NEW strict \in BOOLEAN, Kept(a, s, strict),
           t.before = s.before, t.n = s.n
    PROVE  Kept(a, t, strict)
BY DEF Kept

-----------------------------------------------------------------------------
(* The return from auxsort, and the head of its loop.                       *)

LEMMA Largest ==
    ASSUME NEW N \in Nat, NEW W \in SUBSET (1..N), W # {}
    PROVE  \E k \in W : \A m \in W : m <= k
<1> DEFINE D == {N - k : k \in W}
<1>0. \A k \in W : k \in Int /\ 1 <= k /\ k <= N
      OBVIOUS
<1>1. D \subseteq Nat /\ D # {}
  <2>1. D \subseteq Nat
        BY <1>0
  <2>2. PICK k \in W : TRUE
        OBVIOUS
  <2>3. N - k \in D
        OBVIOUS
  <2> QED BY <2>1, <2>3
<1>2. PICK d \in D : \A e \in D : <<e, d>> \notin OpToRel(<, Nat)
  <2> HIDE DEF D
  <2> QED BY <1>1, NatLessThanWellFounded, WFMin, Zenon
<1>3. \A e \in D : ~(e < d)
      BY <1>1, <1>2 DEF OpToRel
<1>4. PICK k \in W : d = N - k
      OBVIOUS
<1>5. ASSUME NEW m \in W PROVE m <= k
  <2>1. N - m \in D
        OBVIOUS
  <2>2. ~(N - m < N - k)
        BY <2>1, <1>3, <1>4
  <2> QED BY <2>2, <1>0
<1> QED BY <1>5

LEMMA Fields ==
    ASSUME NEW s \in States
    PROVE  /\ s.l \in Int /\ s.u \in Int /\ s.i \in Int /\ s.j \in Int /\ s.P \in Cell
           /\ s.before \in Table /\ s.n \in 0..MaxSize
           /\ s.calls \in Seq(Span) /\ Len(s.calls) \in Nat
           /\ \A k \in 1..Len(s.calls) : s.calls[k] \in Span /\ s.calls[k].l \in Int /\ s.calls[k].u \in Int
<1>1. /\ s.l \in Int /\ s.u \in Int /\ s.i \in Int /\ s.j \in Int /\ s.P \in Cell
      /\ s.before \in Table /\ s.n \in 0..MaxSize /\ s.calls \in Seq(Span)
      BY DEF States
<1>2. Len(s.calls) \in Nat /\ \A k \in 1..Len(s.calls) : s.calls[k] \in Span
      BY <1>1
<1>3. \A r \in Span : r.l \in Int /\ r.u \in Int
      BY DEF Span
<1> QED BY <1>1, <1>2, <1>3

LEMMA IdleIs == /\ Idle \in States /\ Idle.pc = "idle" /\ Idle.l = 1 /\ Idle.u = 0 /\ Idle.i = 0 /\ Idle.j = 0
                /\ Idle.calls = << >>
<1>1. [c \in Cells |-> Nil] \in Table /\ << >> \in Seq(Span) /\ Nil \in Cell /\ 0 \in 0..MaxSize
      BY ListConstants DEF Table, Cell
<1> QED BY <1>1 DEF Idle, States

LEMMA BeginIs ==
    ASSUME NEW s \in States, NEW l \in Int, NEW u \in Int, NEW calls \in Seq(Span)
    PROVE  /\ Begin(s, l, u, calls) \in States
           /\ Begin(s, l, u, calls).pc = "ends"
           /\ Begin(s, l, u, calls).l = l /\ Begin(s, l, u, calls).u = u
           /\ Begin(s, l, u, calls).i = 0 /\ Begin(s, l, u, calls).j = 0
           /\ Begin(s, l, u, calls).calls = calls
           /\ Begin(s, l, u, calls).before = s.before /\ Begin(s, l, u, calls).n = s.n
<1>1. "ends" \in Pcs
      BY DEF Pcs
<1> QED BY <1>1, IdleIs, Fields DEF Begin, States

LEMMA OverIs ==
    ASSUME NEW s \in States, NEW how \in {"done", "error"}
    PROVE  /\ Over(s, how) \in States /\ Over(s, how).pc = how
           /\ Over(s, how).before = s.before /\ Over(s, how).n = s.n
BY IdleIs, Fields DEF Over, States

\* A range that has something to sort begins with the comparison of its ends.
LEMMA BeginKnown ==
    ASSUME NEW a, NEW s, NEW strict \in BOOLEAN, Kept(a, s, strict),
           NEW l \in Int, NEW u \in Int, NEW calls \in Seq(Span), l < u,
           Looping(a, Begin(s, l, u, calls), strict)
    PROVE  Known(a, Begin(s, l, u, calls), strict)
<1>1. s \in States
      BY DEF Kept
<1> QED BY <1>1, BeginIs DEF Known, Comparing, Looping, Pcs

LEMMA ReturnKnown ==
    ASSUME NEW a, NEW s, NEW strict \in BOOLEAN, Returning(a, s, strict)
    PROVE  Known(Return(a, s).a, Return(a, s).s, strict)
<1>0. Kept(a, s, strict) /\ s \in States
      BY DEF Returning, Kept
<1>1. /\ Kept(a, s, strict) /\ s \in States /\ s.before \in Table /\ s.n \in 0..MaxSize
      /\ s.calls \in Seq(Span) /\ Len(s.calls) \in Nat
      /\ \A k \in 1..Len(s.calls) : s.calls[k].l \in Int /\ s.calls[k].u \in Int
      BY <1>0, Fields
<1>2. \A x, y \in 1..s.n : x < y /\ Together(s, x, y) =>
          \E k \in Waiting(s) : Within(s.calls[k], x) /\ Within(s.calls[k], y)
      BY <1>1 DEF Together, Within, Waiting
<1>3. CASE Waiting(s) = {}
  <2> DEFINE t == Over(s, "done")
  <2>1. Return(a, s).a = a /\ Return(a, s).s = t
        BY <1>3 DEF Return
  <2>2. t \in States /\ t.before = s.before /\ t.n = s.n /\ t.pc = "done"
        BY <1>1, OverIs
  <2>3. strict => \A x, y \in 1..s.n : x < y => a[x] <= a[y]
        BY <1>2, <1>3 DEF Returning, SortedBut
  <2> HIDE DEF t
  <2>4. Kept(a, t, strict)
        BY <1>1, <2>2, KeptAlso
  <2> QED BY <2>1, <2>2, <2>3, <2>4 DEF Known, Pcs
<1>4. CASE Waiting(s) # {}
  <2> DEFINE k == CHOOSE k \in Waiting(s) : \A m \in Waiting(s) : m <= k
             rest == SubSeq(s.calls, 1, k - 1)
             t == Begin(s, s.calls[k].l, s.calls[k].u, rest)
  <2>1. Return(a, s).a = a /\ Return(a, s).s = t
        BY <1>4 DEF Return
  <2>2. k \in Waiting(s) /\ \A m \in Waiting(s) : m <= k
        BY <1>1, <1>4, Largest DEF Waiting
  <2>3. k \in 1..Len(s.calls) /\ s.calls[k].l < s.calls[k].u
        BY <2>2 DEF Waiting
  <2> HIDE DEF k
  <2>4. rest \in Seq(Span) /\ Len(rest) = k - 1 /\ \A m \in 1..(k - 1) : rest[m] = s.calls[m]
        BY <1>1, <2>3
  <2> HIDE DEF rest
  <2>5. /\ t \in States /\ t.before = s.before /\ t.n = s.n /\ t.calls = rest
        /\ t.l = s.calls[k].l /\ t.u = s.calls[k].u
    <3>1. s.calls[k].l \in Int /\ s.calls[k].u \in Int
          BY <1>1, <2>3
    <3> DEFINE l == s.calls[k].l
               u == s.calls[k].u
    <3>2. l \in Int /\ u \in Int /\ t = Begin(s, l, u, rest)
          BY <3>1 DEF t
    <3>3. l = s.calls[k].l /\ u = s.calls[k].u
          OBVIOUS
    <3> HIDE DEF l, u
    <3> QED BY <1>1, <2>4, <3>2, <3>3, BeginIs
  <2> HIDE DEF t
  <2>6. Kept(a, t, strict)
        BY <1>1, <2>5, KeptAlso
  <2>7. WaitInList(t) /\ 1 <= t.l /\ t.u <= t.n
        BY <1>1, <2>3, <2>4, <2>5 DEF Returning, WaitInList
  <2>8. ASSUME strict PROVE Apart(t) /\ Clear(t) /\ SortedButHere(a, t)
    <3> Apart(s)
        BY <2>8 DEF Returning
    <3>0. \A m \in 1..Len(t.calls) : m \in 1..Len(s.calls) /\ m # k /\ t.calls[m] = s.calls[m]
          BY <1>1, <2>3, <2>4, <2>5
    <3>1. Apart(t) /\ Clear(t)
          BY <2>3, <2>5, <3>0 DEF Apart, Clear, Within
    <3>2. ASSUME NEW x \in 1..s.n, NEW y \in 1..s.n, x < y, ~(a[x] <= a[y])
          PROVE  (Within(t, x) /\ Within(t, y)) \/ Together(t, x, y)
      <4>1. PICK m \in Waiting(s) : Within(s.calls[m], x) /\ Within(s.calls[m], y)
            BY <1>2, <2>8, <3>2 DEF Returning, SortedBut
      <4>2. m \in 1..k
            BY <2>2, <2>3, <4>1 DEF Waiting
      <4> QED BY <2>3, <2>4, <2>5, <4>1, <4>2 DEF Within, Together
    <3> QED BY <2>5, <3>1, <3>2 DEF SortedButHere
  <2>9. Looping(a, t, strict)
        BY <2>6, <2>7, <2>8 DEF Looping
  <2> QED BY <1>1, <2>1, <2>3, <2>4, <2>9, BeginKnown DEF t
<1> QED BY <1>3, <1>4

LEMMA LoopKnown ==
    ASSUME NEW a, NEW s, NEW strict \in BOOLEAN, Looping(a, s, strict)
    PROVE  Known(Loop(a, s).a, Loop(a, s).s, strict)
<1>0. Kept(a, s, strict) /\ s \in States
      BY DEF Looping, Kept
<1>1. /\ Kept(a, s, strict) /\ s \in States /\ s.before \in Table /\ s.n \in 0..MaxSize
      /\ s.calls \in Seq(Span) /\ s.l \in Int /\ s.u \in Int
      BY <1>0, Fields
<1>2. CASE s.l < s.u
  <2> DEFINE t == Begin(s, s.l, s.u, s.calls)
  <2>1. Loop(a, s).a = a /\ Loop(a, s).s = t
        BY <1>2 DEF Loop
  <2>2. /\ t \in States /\ t.before = s.before /\ t.n = s.n /\ t.calls = s.calls
        /\ t.l = s.l /\ t.u = s.u
        BY <1>1, BeginIs
  <2> HIDE DEF t
  <2>3. Kept(a, t, strict)
        BY <1>1, <2>2, KeptAlso
  <2>4. Looping(a, t, strict)
        BY <2>2, <2>3 DEF Looping, WaitInList, Apart, Clear, SortedButHere, Together, Within
  <2> QED BY <1>1, <1>2, <2>1, <2>4, BeginKnown DEF t
<1>3. CASE ~(s.l < s.u)
  <2>1. ASSUME strict PROVE SortedBut(a, s)
        BY <1>1, <1>3, <2>1 DEF Looping, SortedButHere, SortedBut, Within
  <2>2. Returning(a, s, strict)
        BY <2>1 DEF Looping, Returning
  <2>3. Loop(a, s) = Return(a, s)
        BY <1>3 DEF Loop
  <2> QED BY <2>2, <2>3, ReturnKnown
<1> QED BY <1>2, <1>3

-----------------------------------------------------------------------------
(* What the comparisons lead to.                                            *)

\* What Looping says does not depend on where the scans are.
LEMMA LoopingAlso ==
    ASSUME NEW a, NEW s, NEW t \in States, NEW strict \in BOOLEAN, Looping(a, s, strict),
           t.before = s.before, t.n = s.n, t.l = s.l, t.u = s.u, t.calls = s.calls
    PROVE  Looping(a, t, strict)
<1>1. Kept(a, t, strict)
      BY KeptAlso DEF Looping
<1> QED BY <1>1 DEF Looping, WaitInList, Apart, Clear, SortedButHere, Together, Within

\* Two elements of the range at hand may change places.
LEMMA SwapHere ==
    ASSUME NEW a, NEW s, NEW strict \in BOOLEAN, Looping(a, s, strict),
           NEW i \in s.l..s.u, NEW j \in s.l..s.u
    PROVE  Looping(set2(a, i, j), s, strict)
<1> DEFINE b == set2(a, i, j)
<1>0. Kept(a, s, strict) /\ s \in States /\ a \in Table /\ 1 <= s.l /\ s.u <= s.n
      BY DEF Looping, Kept
<1>1. s.l \in Int /\ s.u \in Int /\ s.n \in 0..MaxSize
      BY <1>0, Fields
<1>2. i \in 1..s.n /\ j \in 1..s.n /\ i \in Reach(s, strict) /\ j \in Reach(s, strict)
      BY <1>0, <1>1 DEF Reach
<1>3. Kept(b, s, strict)
      BY <1>0, <1>2, SwapIsKept
<1>4. \A c \in 1..s.n : b[c] = IF c = j THEN a[i] ELSE IF c = i THEN a[j] ELSE a[c]
  <2>1. i \in Cells /\ j \in Cells /\ \A c \in 1..s.n : c \in Cells
        BY <1>1, <1>2, ListConstants DEF Cells
  <2>2. \A c \in Cells : b[c] = IF c = j THEN a[i] ELSE IF c = i THEN a[j] ELSE a[c]
        BY <1>0, <2>1, Set2
  <2> QED BY <2>1, <2>2
<1>5. Within(s, i) /\ Within(s, j)
      BY <1>1 DEF Within
<1>6. ASSUME strict PROVE SortedButHere(b, s)
  <2> SUFFICES ASSUME NEW x \in 1..s.n, NEW y \in 1..s.n, x < y, ~(Within(s, x) /\ Within(s, y)), ~Together(s, x, y)
               PROVE  b[x] <= b[y]
      BY DEF SortedButHere
  <2>1. Clear(s) /\ SortedButHere(a, s)
        BY <1>6 DEF Looping
  <2>2. \A w, z \in 1..s.n : w < z /\ ~(Within(s, w) /\ Within(s, z)) /\ ~Together(s, w, z) => a[w] <= a[z]
        BY <2>1 DEF SortedButHere
  <2>3. \A w, z \in 1..s.n : Within(s, w) \/ Within(s, z) => ~Together(s, w, z)
        BY <2>1 DEF Clear, Together
  <2>4. CASE x \in {i, j}
    <3>1. y \notin {i, j} /\ ~Within(s, y) /\ i < y /\ j < y
          BY <1>1, <1>5, <2>4 DEF Within
    <3> QED BY <1>2, <1>4, <1>5, <2>2, <2>3, <2>4, <3>1
  <2>5. CASE y \in {i, j}
    <3>1. x \notin {i, j} /\ ~Within(s, x) /\ x < i /\ x < j
          BY <1>1, <1>5, <2>5 DEF Within
    <3> QED BY <1>2, <1>4, <1>5, <2>2, <2>3, <2>5, <3>1
  <2>6. CASE x \notin {i, j} /\ y \notin {i, j}
        BY <1>4, <2>2, <2>6
  <2> QED BY <2>4, <2>5, <2>6
<1> QED BY <1>3, <1>6 DEF Looping

\* A range whose elements are in order is sorted.
LEMMA RangeDone ==
    ASSUME NEW a, NEW s, NEW strict \in BOOLEAN, Looping(a, s, strict),
           strict => \A x, y \in s.l..s.u : x < y => a[x] <= a[y]
    PROVE  Known(Return(a, s).a, Return(a, s).s, strict)
<1>0. s \in States /\ 1 <= s.l /\ s.u <= s.n
      BY DEF Looping, Kept
<1>1. s.l \in Int /\ s.u \in Int /\ s.n \in 0..MaxSize
      BY <1>0, Fields
<1>2. ASSUME strict PROVE SortedBut(a, s)
      BY <1>0, <1>1, <1>2 DEF Looping, SortedButHere, SortedBut, Within
<1>3. Returning(a, s, strict)
      BY <1>2 DEF Looping, Returning
<1> QED BY <1>3, ReturnKnown

LEMMA MedianKnown ==
    ASSUME NEW a, NEW s, NEW strict \in BOOLEAN, Looping(a, s, strict),
           s.u - s.l >= 2, s.i \in (s.l + 1)..(s.u - 1),
           strict => a[s.l] <= a[s.i] /\ a[s.i] <= a[s.u]
    PROVE  Known(Median(a, s).a, Median(a, s).s, strict)
<1>0. Kept(a, s, strict) /\ s \in States /\ a \in Table /\ 1 <= s.l /\ s.u <= s.n
      BY DEF Looping, Kept
<1>1. s.l \in Int /\ s.u \in Int /\ s.i \in Int /\ s.n \in 0..MaxSize
      BY <1>0, Fields
<1>2. \A c \in s.l..s.u : c \in Cells
      BY <1>0, <1>1, ListConstants DEF Cells
<1>2a. \A c \in s.l..s.u : a[c] \in Int
  <2>1. \A c \in Cells : a[c] \in Cell
        BY <1>0 DEF Table
  <2> QED BY <1>2, <2>1, CellIsInt
<1>3. CASE s.u - s.l = 2
  <2>1. strict => \A x, y \in s.l..s.u : x < y => a[x] <= a[y]
    <3> SUFFICES ASSUME strict, NEW x \in s.l..s.u, NEW y \in s.l..s.u, x < y PROVE a[x] <= a[y]
        OBVIOUS
    <3>1. x \in {s.l, s.i} /\ y \in {s.i, s.u} /\ s.l \in s.l..s.u /\ s.i \in s.l..s.u /\ s.u \in s.l..s.u
          BY <1>1, <1>3
    <3> QED BY <1>2a, <3>1
  <2>2. Median(a, s) = Return(a, s)
        BY <1>3 DEF Median
  <2> QED BY <2>1, <2>2, RangeDone
<1>4. CASE s.u - s.l # 2
  <2> DEFINE b == set2(a, s.i, s.u - 1)
             t == [s EXCEPT !.P = a[s.i], !.i = s.l + 1, !.j = s.u - 1, !.pc = "up"]
  <2>1. Median(a, s).a = b /\ Median(a, s).s = t
        BY <1>4 DEF Median
  <2>2. s.i \in s.l..s.u /\ s.u - 1 \in s.l..s.u /\ s.i \in Cells /\ s.u - 1 \in Cells
        BY <1>1, <1>2
  <2>3. a[s.i] \in Cell /\ "up" \in Pcs
        BY <1>0, <2>2 DEF Table, Pcs
  <2>4. /\ t \in States /\ t.before = s.before /\ t.n = s.n /\ t.calls = s.calls /\ t.l = s.l /\ t.u = s.u
        /\ t.P = a[s.i] /\ t.i = s.l + 1 /\ t.j = s.u - 1 /\ t.pc = "up"
    <3>1. s.l + 1 \in Int /\ s.u - 1 \in Int
          BY <1>1
    <3> QED BY <1>0, <2>3, <3>1 DEF States
  <2>5. \A c \in s.l..s.u : b[c] = IF c = s.u - 1 THEN a[s.i] ELSE IF c = s.i THEN a[s.u - 1] ELSE a[c]
    <3> DEFINE m == s.u - 1
               k == s.i
    <3>0. m \in Cells /\ k \in Cells
          BY <2>2
    <3> HIDE DEF m, k
    <3>1. \A c \in Cells : set2(a, k, m)[c] = IF c = m THEN a[k] ELSE IF c = k THEN a[m] ELSE a[c]
          BY <1>0, <3>0, Set2
    <3> QED BY <1>2, <3>1 DEF m, k
  <2>6. Looping(b, s, strict)
        BY <2>2, SwapHere
  <2> HIDE DEF b, t
  <2>7. Looping(b, t, strict)
        BY <2>4, <2>6, LoopingAlso
  <2>8. Scanning(b, t, strict)
    <3>1. ASSUME strict
          PROVE  /\ b[s.u - 1] = a[s.i]
                 /\ b[s.l] <= a[s.i] /\ a[s.i] <= b[s.u - 1] /\ a[s.i] <= b[s.u]
          BY <1>1, <1>2a, <1>4, <2>2, <2>5, <3>1
    <3>2. ASSUME strict
          PROVE  (\A x \in s.l..(s.l + 1 - 1) : b[x] <= a[s.i]) /\ (\A x \in (s.u - 1)..s.u : a[s.i] <= b[x])
      <4>1. (\A x \in s.l..(s.l + 1 - 1) : x = s.l) /\ (\A x \in (s.u - 1)..s.u : x \in {s.u - 1, s.u})
            BY <1>1
      <4> QED BY <3>1, <3>2, <4>1
    <3> QED BY <1>1, <1>4, <2>4, <3>1, <3>2 DEF Scanning
  <2>9. Known(b, t, strict)
        BY <1>1, <2>4, <2>7, <2>8 DEF Known, Comparing, Looping
  <2> QED BY <2>1, <2>9
<1> QED BY <1>3, <1>4

\* The range at hand is cut at the pivot: one half waits, the other is at hand.
LEMMA CutKnown ==
    ASSUME NEW b, NEW s, NEW strict \in BOOLEAN, Looping(b, s, strict),
           NEW i \in (s.l + 1)..(s.u + 1), strict => i <= s.u,
           strict => /\ \A x \in s.l..(i - 1) : b[x] <= b[i]
                     /\ \A x \in (i + 1)..s.u : b[i] <= b[x],
           NEW small \in Span, NEW large \in Span,
           \/ small = [l |-> s.l, u |-> i - 1] /\ large = [l |-> i + 1, u |-> s.u]
           \/ large = [l |-> s.l, u |-> i - 1] /\ small = [l |-> i + 1, u |-> s.u],
           NEW t, t = [s EXCEPT !.l = small.l, !.u = small.u, !.calls = Append(@, large)]
    PROVE  Looping(b, t, strict)
<1>0. Kept(b, s, strict) /\ s \in States /\ b \in Table /\ 1 <= s.l /\ s.u <= s.n /\ WaitInList(s)
      BY DEF Looping, Kept
<1>1. s.l \in Int /\ s.u \in Int /\ s.n \in 0..MaxSize /\ s.calls \in Seq(Span) /\ Len(s.calls) \in Nat
      BY <1>0, Fields
<1>2. small.l \in Int /\ small.u \in Int /\ large.l \in Int /\ large.u \in Int
      BY DEF Span
<1> DEFINE N == Len(s.calls)
           both == Append(s.calls, large)
<1>3. /\ both \in Seq(Span) /\ Len(both) = N + 1 /\ both[N + 1] = large
      /\ \A k \in 1..N : both[k] = s.calls[k]
      BY <1>1
<1>4. /\ t \in States /\ t.before = s.before /\ t.n = s.n /\ t.calls = both /\ t.l = small.l /\ t.u = small.u
      BY <1>0, <1>2, <1>3 DEF States
<1> HIDE DEF both
<1>5. Kept(b, t, strict)
      BY <1>0, <1>4 DEF Kept
<1>6. 1 <= small.l /\ small.u <= s.n /\ 1 <= large.l /\ large.u <= s.n
      BY <1>0, <1>1
<1>7. WaitInList(t)
      BY <1>0, <1>1, <1>3, <1>4, <1>6 DEF WaitInList
<1>8. ASSUME strict PROVE Apart(t) /\ Clear(t) /\ SortedButHere(b, t)
  <2>1. Apart(s) /\ Clear(s) /\ SortedButHere(b, s)
        BY <1>8 DEF Looping
  <2>2. \A x \in 1..s.n : /\ Within(small, x) => Within(s, x)
                          /\ Within(large, x) => Within(s, x)
                          /\ ~(Within(small, x) /\ Within(large, x))
        BY <1>1, <1>8 DEF Within
  <2>3. \A x \in 1..s.n : Within(t, x) <=> Within(small, x)
        BY <1>4 DEF Within
  <2>4. \A k \in 1..Len(t.calls) : (k \in 1..N /\ t.calls[k] = s.calls[k]) \/ (k = N + 1 /\ t.calls[k] = large)
        BY <1>1, <1>3, <1>4
  <2>5. Clear(t)
        BY <2>1, <2>2, <2>3, <2>4, <1>4 DEF Clear
  <2>6. Apart(t)
    <3> SUFFICES ASSUME NEW k \in 1..Len(t.calls), NEW m \in 1..Len(t.calls), NEW x \in 1..s.n,
                        Within(t.calls[k], x), Within(t.calls[m], x)
                 PROVE  k = m
        BY <1>4 DEF Apart
    <3>1. CASE k \in 1..N /\ m \in 1..N
          BY <2>1, <2>4, <3>1, <1>1 DEF Apart
    <3>2. CASE k = N + 1 \/ m = N + 1
          BY <2>1, <2>2, <2>4, <3>2, <1>1 DEF Clear
    <3> QED BY <2>4, <3>1, <3>2
  <2>7. ASSUME NEW x \in 1..s.n, NEW y \in 1..s.n, x < y, ~(b[x] <= b[y])
        PROVE  (Within(t, x) /\ Within(t, y)) \/ Together(t, x, y)
    <3>1. CASE Together(s, x, y)
      <4>1. PICK k \in 1..N : Within(s.calls[k], x) /\ Within(s.calls[k], y)
            BY <3>1 DEF Together
      <4>2. k \in 1..Len(t.calls) /\ t.calls[k] = s.calls[k]
            BY <1>1, <1>3, <1>4
      <4> QED BY <4>1, <4>2 DEF Together
    <3>2. CASE Within(s, x) /\ Within(s, y)
      <4>0. x \in s.l..s.u /\ y \in s.l..s.u /\ i \in Int
            BY <1>1, <3>2 DEF Within
      <4>0a. b[x] \in Int /\ b[y] \in Int /\ b[i] \in Int
        <5>1. x \in Cells /\ y \in Cells /\ i \in Cells
              BY <1>0, <1>1, <1>8, ListConstants DEF Cells
        <5> QED BY <1>0, <5>1, CellIsInt DEF Table
      <4>1. (x < i /\ y < i) \/ (i < x /\ i < y)
        <5>1. CASE x < i /\ i <= y
          <6>1. b[x] <= b[i]
                BY <1>8, <4>0, <5>1
          <6>2. b[i] <= b[y]
                BY <1>8, <4>0, <4>0a, <5>1
          <6> QED BY <2>7, <4>0a, <6>1, <6>2
        <5>2. CASE x = i
              BY <1>8, <2>7, <4>0, <4>0a, <5>2
        <5> QED BY <2>7, <4>0, <5>1, <5>2
      <4>2. (Within(small, x) /\ Within(small, y)) \/ (Within(large, x) /\ Within(large, y))
            BY <4>0, <4>1, <1>1 DEF Within
      <4>3. N + 1 \in 1..Len(t.calls) /\ t.calls[N + 1] = large
            BY <1>1, <1>3, <1>4
      <4> QED BY <2>3, <4>2, <4>3 DEF Together
    <3> QED BY <2>1, <2>7, <3>1, <3>2 DEF SortedButHere
  <2> QED BY <1>4, <2>5, <2>6, <2>7 DEF SortedButHere
<1> QED BY <1>4, <1>5, <1>6, <1>7, <1>8 DEF Looping

LEMMA PartitionedKnown ==
    ASSUME NEW a, NEW s, NEW strict \in BOOLEAN, Looping(a, s, strict), s.pc = "down", Scanning(a, s, strict), s.j < s.i
    PROVE  Known(Partitioned(a, s).a, Partitioned(a, s).s, strict)
<1> DEFINE i == s.i
           m == s.u - 1
           b == set2(a, m, i)
           left == [l |-> s.l, u |-> i - 1]
           right == [l |-> i + 1, u |-> s.u]
           first == i - s.l < s.u - i
           small == IF first THEN left ELSE right
           large == IF first THEN right ELSE left
           t == [s EXCEPT !.l = small.l, !.u = small.u, !.calls = Append(@, large)]
<1>0. Kept(a, s, strict) /\ s \in States /\ a \in Table /\ 1 <= s.l /\ s.u <= s.n
      BY DEF Looping, Kept
<1>1. s.l \in Int /\ s.u \in Int /\ s.i \in Int /\ s.j \in Int /\ s.n \in 0..MaxSize
      BY <1>0, Fields
<1>2. /\ i \in (s.l + 1)..(s.u + 1) /\ s.u - s.l >= 3 /\ s.j >= s.l - 1 /\ m \in s.l..s.u
      /\ strict => i <= m /\ i \in s.l..s.u
      BY <1>1 DEF Scanning
<1>3. i \in Cells /\ m \in Cells /\ i \in Reach(s, strict) /\ m \in Reach(s, strict)
      BY <1>0, <1>1, <1>2, ListConstants DEF Cells, Reach
<1>4. left \in Span /\ right \in Span
      BY <1>1 DEF Span
<1>5. Partitioned(a, s) = Loop(b, t)
      BY DEF Partitioned
<1>5a. i = s.i /\ m = s.u - 1
      OBVIOUS
<1> HIDE DEF m, i
<1>6. \A c \in Cells : b[c] = IF c = i THEN a[m] ELSE IF c = m THEN a[i] ELSE a[c]
      BY <1>0, <1>3, Set2
<1>7. Looping(b, s, strict)
  <2>1. CASE strict
        BY <1>2, <2>1, SwapHere
  <2>2. CASE ~strict
    <3>1. Kept(b, s, strict)
          BY <1>0, <1>3, SwapIsKept
    <3> QED BY <2>2, <3>1 DEF Looping
  <2> QED BY <2>1, <2>2
<1>8. ASSUME strict
      PROVE  /\ \A x \in s.l..(i - 1) : b[x] <= b[i]
             /\ \A x \in (i + 1)..s.u : b[i] <= b[x]
  <2>1. /\ a[m] = s.P
        /\ \A x \in s.l..(i - 1) : a[x] <= s.P
        /\ \A x \in i..s.u : s.P <= a[x]
        BY <1>1, <1>5a, <1>8 DEF Scanning
  <2>2. b[i] = s.P
        BY <1>3, <1>6, <2>1
  <2>3. \A x \in s.l..s.u : x \in Cells
        BY <1>0, <1>1, ListConstants DEF Cells
  <2>4. ASSUME NEW x \in s.l..(i - 1) PROVE b[x] <= b[i]
    <3>1. x \in Cells /\ x # i /\ x # m
          BY <1>1, <1>2, <1>5a, <1>8, <2>3
    <3> QED BY <1>6, <2>1, <2>2, <3>1
  <2>5. ASSUME NEW x \in (i + 1)..s.u PROVE b[i] <= b[x]
    <3>1. x \in Cells /\ x # i /\ x \in i..s.u /\ i \in i..s.u
          BY <1>1, <1>2, <1>5a, <2>3
    <3> QED BY <1>6, <2>1, <2>2, <3>1
  <2> QED BY <2>4, <2>5
<1>9. strict => i <= s.u
      BY <1>1, <1>2
<1> HIDE DEF b, left, right, first
<1>10. small \in Span /\ large \in Span /\ ((small = left /\ large = right) \/ (large = left /\ small = right))
  <2>1. CASE first
        BY <1>4, <2>1
  <2>2. CASE ~first
        BY <1>4, <2>2
  <2> QED BY <2>1, <2>2
<1> HIDE DEF small, large
<1>11. Looping(b, t, strict)
       BY <1>2, <1>7, <1>8, <1>9, <1>10, CutKnown DEF left, right
<1> QED BY <1>5, <1>11, LoopKnown

LEMMA FailedKnown ==
    ASSUME NEW a, NEW s, NEW strict \in BOOLEAN, Kept(a, s, strict)
    PROVE  Known(a, Over(s, "error"), strict)
<1>1. s \in States
      BY DEF Kept
<1>2. Over(s, "error") \in States /\ Over(s, "error").pc = "error"
      /\ Over(s, "error").before = s.before /\ Over(s, "error").n = s.n
      BY <1>1, OverIs
<1>3. Kept(a, Over(s, "error"), strict)
      BY <1>2, KeptAlso
<1> QED BY <1>2, <1>3 DEF Known, Pcs

LEMMA EndsKnown ==
    ASSUME NEW a, NEW s, NEW strict \in BOOLEAN, NEW less \in BOOLEAN, Comparing(a, s, strict), s.pc = "ends",
           strict => (less <=> a[s.u] < a[s.l])
    PROVE  Known(Ends(a, s, less).a, Ends(a, s, less).s, strict)
<1> DEFINE b == IF less THEN set2(a, s.l, s.u) ELSE a
<1>0. /\ Looping(a, s, strict) /\ Kept(a, s, strict) /\ s \in States /\ a \in Table
      /\ 1 <= s.l /\ s.u <= s.n /\ s.l < s.u /\ s.j = 0
      BY DEF Comparing, Looping, Kept
<1>1. s.l \in Int /\ s.u \in Int /\ s.n \in 0..MaxSize
      BY <1>0, Fields
<1>2. s.l \in s.l..s.u /\ s.u \in s.l..s.u /\ s.l \in Cells /\ s.u \in Cells
      BY <1>0, <1>1, ListConstants DEF Cells
<1>3. Looping(b, s, strict)
      BY <1>0, <1>2, SwapHere
<1>4. strict => b[s.l] <= b[s.u]
  <2> SUFFICES ASSUME strict PROVE b[s.l] <= b[s.u]
      OBVIOUS
  <2>1. a[s.l] \in Int /\ a[s.u] \in Int
        BY <1>0, <1>2, CellIsInt DEF Table
  <2>2. less => b[s.l] = a[s.u] /\ b[s.u] = a[s.l]
    <3> DEFINE l == s.l
               u == s.u
    <3>1. l \in Cells /\ u \in Cells /\ l # u
          BY <1>0, <1>1, <1>2
    <3> HIDE DEF l, u
    <3>2. \A c \in Cells : set2(a, l, u)[c] = IF c = u THEN a[l] ELSE IF c = l THEN a[u] ELSE a[c]
          BY <1>0, <3>1, Set2
    <3>3. set2(a, l, u)[l] = a[u] /\ set2(a, l, u)[u] = a[l]
          BY <3>1, <3>2
    <3> QED BY <3>3 DEF l, u
  <2>3. CASE less
        BY <2>1, <2>2, <2>3
  <2>4. CASE ~less
        BY <2>1, <2>4
  <2> QED BY <2>3, <2>4
<1> HIDE DEF b
<1>5. CASE s.u - s.l = 1
  <2>1. strict => \A x, y \in s.l..s.u : x < y => b[x] <= b[y]
    <3> SUFFICES ASSUME strict, NEW x \in s.l..s.u, NEW y \in s.l..s.u, x < y PROVE b[x] <= b[y]
        OBVIOUS
    <3>1. x = s.l /\ y = s.u
          BY <1>1, <1>5
    <3> QED BY <1>4, <3>1
  <2>2. Ends(a, s, less) = Return(b, s)
        BY <1>5 DEF Ends, b
  <2> QED BY <1>3, <2>1, <2>2, RangeDone
<1>6. CASE s.u - s.l # 1
  <2> DEFINE t == [s EXCEPT !.i = (s.l + s.u) \div 2, !.pc = "low"]
  <2>1. Ends(a, s, less).a = b /\ Ends(a, s, less).s = t
        BY <1>6 DEF Ends, b
  <2>2. (s.l + s.u) \div 2 \in (s.l + 1)..(s.u - 1) /\ s.u - s.l >= 2
        BY <1>0, <1>1, <1>6
  <2>3. /\ t \in States /\ t.before = s.before /\ t.n = s.n /\ t.calls = s.calls /\ t.l = s.l /\ t.u = s.u
        /\ t.j = 0 /\ t.i = (s.l + s.u) \div 2 /\ t.pc = "low"
    <3>1. (s.l + s.u) \div 2 \in Int /\ "low" \in Pcs
          BY <2>2 DEF Pcs
    <3> QED BY <1>0, <3>1 DEF States
  <2> HIDE DEF t
  <2>4. Looping(b, t, strict)
        BY <1>3, <2>3, LoopingAlso
  <2>5. AtMedian(b, t, strict)
        BY <1>4, <2>2, <2>3 DEF AtMedian
  <2> QED BY <1>0, <2>1, <2>3, <2>4, <2>5 DEF Known, Comparing, Looping
<1> QED BY <1>5, <1>6

\* What two elements of the range are when they have changed places.
LEMMA Exchanged ==
    ASSUME NEW a \in Table, NEW i \in Cells, NEW j \in Cells, i # j
    PROVE  /\ set2(a, i, j)[i] = a[j] /\ set2(a, i, j)[j] = a[i]
           /\ \A c \in Cells : c \notin {i, j} => set2(a, i, j)[c] = a[c]
<1>1. \A c \in Cells : set2(a, i, j)[c] = IF c = j THEN a[i] ELSE IF c = i THEN a[j] ELSE a[c]
      BY Set2
<1> QED BY <1>1

\* The range at hand, and the elements that are looked at.
LEMMA Here ==
    ASSUME NEW a, NEW s, NEW strict \in BOOLEAN, Comparing(a, s, strict)
    PROVE  /\ Looping(a, s, strict) /\ Kept(a, s, strict) /\ s \in States /\ a \in Table
           /\ 1 <= s.l /\ s.u <= s.n /\ s.l < s.u
           /\ s.l \in Int /\ s.u \in Int /\ s.i \in Int /\ s.j \in Int /\ s.n \in 0..MaxSize
           /\ \A c \in s.l..s.u : c \in Cells /\ a[c] \in Int
<1>0. /\ Looping(a, s, strict) /\ Kept(a, s, strict) /\ s \in States /\ a \in Table
      /\ 1 <= s.l /\ s.u <= s.n /\ s.l < s.u
      BY DEF Comparing, Looping, Kept
<1>1. s.l \in Int /\ s.u \in Int /\ s.i \in Int /\ s.j \in Int /\ s.n \in 0..MaxSize
      BY <1>0, Fields
<1>2. \A c \in s.l..s.u : c \in Cells
      BY <1>0, <1>1, ListConstants DEF Cells
<1>3. \A c \in Cells : a[c] \in Int
      BY <1>0, CellIsInt DEF Table
<1> QED BY <1>0, <1>1, <1>2, <1>3

LEMMA LowKnown ==
    ASSUME NEW a, NEW s, NEW strict \in BOOLEAN, NEW less \in BOOLEAN, Comparing(a, s, strict), s.pc = "low",
           strict => (less <=> a[s.i] < a[s.l])
    PROVE  Known(Low(a, s, less).a, Low(a, s, less).s, strict)
<1> DEFINE l == s.l
           u == s.u
           i == s.i
<1>1. /\ Looping(a, s, strict) /\ Kept(a, s, strict) /\ s \in States /\ a \in Table
      /\ l \in Int /\ u \in Int /\ i \in Int
      /\ \A c \in l..u : c \in Cells /\ a[c] \in Int
      BY Here
<1>2. AtMedian(a, s, strict) /\ s.j = 0
      BY DEF Comparing
<1>3. u - l >= 2 /\ i \in (l + 1)..(u - 1) /\ (strict => a[l] <= a[u])
      BY <1>2 DEF AtMedian
<1>4. l \in l..u /\ u \in l..u /\ i \in l..u /\ i # l /\ u \notin {i, l}
      BY <1>1, <1>3
<1>5. CASE less
  <2> DEFINE b == set2(a, i, l)
  <2>1. Low(a, s, less) = Median(b, s)
        BY <1>5 DEF Low
  <2>2. Looping(b, s, strict)
        BY <1>1, <1>4, SwapHere
  <2>3. strict => a[i] < a[l]
        BY <1>5
  <2> HIDE DEF i, l, u
  <2>4. b[i] = a[l] /\ b[l] = a[i] /\ b[u] = a[u]
        BY <1>1, <1>4, Exchanged
  <2>5. strict => b[l] <= b[i] /\ b[i] <= b[u]
        BY <1>1, <1>3, <1>4, <2>3, <2>4
  <2> HIDE DEF b
  <2> QED BY <1>3, <2>1, <2>2, <2>5, MedianKnown DEF i, l, u
<1>6. CASE ~less
  <2> DEFINE t == [s EXCEPT !.pc = "high"]
  <2>1. Low(a, s, less).a = a /\ Low(a, s, less).s = t
        BY <1>6 DEF Low
  <2>2. /\ t \in States /\ t.before = s.before /\ t.n = s.n /\ t.calls = s.calls /\ t.l = l /\ t.u = u /\ t.i = i /\ t.j = 0
        /\ t.pc = "high"
    <3>1. "high" \in Pcs
          BY DEF Pcs
    <3> QED BY <1>1, <1>2, <3>1 DEF States
  <2> HIDE DEF t
  <2>3. Looping(a, t, strict)
        BY <1>1, <2>2, LoopingAlso
  <2>4. AtMedian(a, t, strict)
        BY <1>1, <1>3, <1>4, <1>6, <2>2 DEF AtMedian
  <2> QED BY <1>1, <1>3, <2>1, <2>2, <2>3, <2>4 DEF Known, Comparing, Looping
<1> QED BY <1>5, <1>6

LEMMA HighKnown ==
    ASSUME NEW a, NEW s, NEW strict \in BOOLEAN, NEW less \in BOOLEAN, Comparing(a, s, strict), s.pc = "high",
           strict => (less <=> a[s.u] < a[s.i])
    PROVE  Known(High(a, s, less).a, High(a, s, less).s, strict)
<1> DEFINE l == s.l
           u == s.u
           i == s.i
<1>1. /\ Looping(a, s, strict) /\ Kept(a, s, strict) /\ s \in States /\ a \in Table
      /\ l \in Int /\ u \in Int /\ i \in Int
      /\ \A c \in l..u : c \in Cells /\ a[c] \in Int
      BY Here
<1>2. AtMedian(a, s, strict)
      BY DEF Comparing
<1>3. u - l >= 2 /\ i \in (l + 1)..(u - 1) /\ (strict => a[l] <= a[u] /\ a[l] <= a[i])
      BY <1>2 DEF AtMedian
<1>4. l \in l..u /\ u \in l..u /\ i \in l..u /\ i # u /\ l \notin {i, u}
      BY <1>1, <1>3
<1>5. CASE less
  <2> DEFINE b == set2(a, i, u)
  <2>1. High(a, s, less) = Median(b, s)
        BY <1>5 DEF High
  <2>2. Looping(b, s, strict)
        BY <1>1, <1>4, SwapHere
  <2>3. strict => a[u] < a[i]
        BY <1>5
  <2> HIDE DEF i, l, u
  <2>4. b[i] = a[u] /\ b[u] = a[i] /\ b[l] = a[l]
        BY <1>1, <1>4, Exchanged
  <2>5. strict => b[l] <= b[i] /\ b[i] <= b[u]
        BY <1>1, <1>3, <1>4, <2>3, <2>4
  <2> HIDE DEF b
  <2> QED BY <1>3, <2>1, <2>2, <2>5, MedianKnown DEF i, l, u
<1>6. CASE ~less
  <2>1. High(a, s, less) = Median(a, s)
        BY <1>6 DEF High
  <2>2. strict => a[l] <= a[i] /\ a[i] <= a[u]
        BY <1>1, <1>3, <1>4, <1>6
  <2> QED BY <1>1, <1>3, <2>1, <2>2, MedianKnown
<1> QED BY <1>5, <1>6

LEMMA UpKnown ==
    ASSUME NEW a, NEW s, NEW strict \in BOOLEAN, NEW less \in BOOLEAN, Comparing(a, s, strict), s.pc = "up",
           strict => (less <=> a[s.i] < s.P)
    PROVE  Known(Up(a, s, less).a, Up(a, s, less).s, strict)
<1>1. /\ Looping(a, s, strict) /\ Kept(a, s, strict) /\ s \in States /\ a \in Table
      /\ s.l \in Int /\ s.u \in Int /\ s.i \in Int /\ s.j \in Int
      /\ \A c \in s.l..s.u : c \in Cells /\ a[c] \in Int
      BY Here
<1>2. s.P \in Int /\ "down" \in Pcs /\ "up" \in Pcs /\ s.pc \notin {"low", "high"}
      BY <1>1, Fields, CellIsInt DEF Pcs
<1>3. /\ s.u - s.l >= 3 /\ s.i \in (s.l + 1)..(s.u + 1) /\ s.j \in s.l..(s.u - 1)
      /\ strict => /\ s.i <= s.u - 1 /\ a[s.u - 1] = s.P
                   /\ \A x \in s.l..(s.i - 1) : a[x] <= s.P
                   /\ \A x \in s.j..s.u : s.P <= a[x]
      BY DEF Comparing, Scanning
<1>4. CASE ~less
  <2> DEFINE t == [s EXCEPT !.j = s.j - 1, !.pc = "down"]
  <2>1. Up(a, s, less).a = a /\ Up(a, s, less).s = t
        BY <1>4 DEF Up
  <2>2. /\ t \in States /\ t.before = s.before /\ t.n = s.n /\ t.calls = s.calls /\ t.l = s.l /\ t.u = s.u
        /\ t.i = s.i /\ t.j = s.j - 1 /\ t.P = s.P /\ t.pc = "down"
    <3>1. s.j - 1 \in Int
          BY <1>1
    <3> QED BY <1>1, <1>2, <3>1 DEF States
  <2> HIDE DEF t
  <2>3. Looping(a, t, strict)
        BY <1>1, <2>2, LoopingAlso
  <2>4. ASSUME strict PROVE s.P <= a[s.i]
    <3>1. a[s.i] \in Int /\ ~(a[s.i] < s.P)
          BY <1>1, <1>3, <1>4, <2>4
    <3> QED BY <1>2, <3>1
  <2>5. Scanning(a, t, strict)
        BY <1>1, <1>3, <2>2, <2>4 DEF Scanning
  <2> QED BY <1>1, <1>3, <2>1, <2>2, <2>3, <2>5 DEF Known, Comparing, Looping
<1>5. CASE less /\ s.i > s.u
  <2>1. Up(a, s, less).a = a /\ Up(a, s, less).s = Over(s, "error")
        BY <1>5 DEF Up, Failed
  <2> QED BY <1>1, <2>1, FailedKnown
<1>6. CASE less /\ ~(s.i > s.u)
  <2> DEFINE t == [s EXCEPT !.i = s.i + 1]
  <2>1. Up(a, s, less).a = a /\ Up(a, s, less).s = t
        BY <1>6 DEF Up
  <2>2. /\ t \in States /\ t.before = s.before /\ t.n = s.n /\ t.calls = s.calls /\ t.l = s.l /\ t.u = s.u
        /\ t.i = s.i + 1 /\ t.j = s.j /\ t.P = s.P /\ t.pc = "up"
    <3>1. s.i + 1 \in Int
          BY <1>1
    <3> QED BY <1>1, <1>2, <3>1 DEF States
  <2> HIDE DEF t
  <2>3. Looping(a, t, strict)
        BY <1>1, <2>2, LoopingAlso
  <2>4. ASSUME strict PROVE s.i + 1 <= s.u - 1 /\ \A x \in s.l..s.i : a[x] <= s.P
    <3>1. a[s.i] \in Int /\ a[s.i] < s.P
          BY <1>1, <1>3, <1>6, <2>4
    <3>2. s.i # s.u - 1
          BY <1>2, <1>3, <2>4, <3>1
    <3>3. \A x \in s.l..s.i : x \in s.l..(s.i - 1) \/ x = s.i
          BY <1>1
    <3> QED BY <1>1, <1>2, <1>3, <2>4, <3>1, <3>2, <3>3
  <2>5. Scanning(a, t, strict)
    <3>1. s.i + 1 - 1 = s.i
          BY <1>1
    <3> QED BY <1>1, <1>3, <1>6, <2>2, <2>4, <3>1 DEF Scanning
  <2> QED BY <1>1, <1>3, <2>1, <2>2, <2>3, <2>5 DEF Known, Comparing, Looping
<1> QED BY <1>4, <1>5, <1>6

LEMMA DownKnown ==
    ASSUME NEW a, NEW s, NEW strict \in BOOLEAN, NEW less \in BOOLEAN, Comparing(a, s, strict), s.pc = "down",
           strict => (less <=> s.P < a[s.j])
    PROVE  Known(Down(a, s, less).a, Down(a, s, less).s, strict)
<1>1. /\ Looping(a, s, strict) /\ Kept(a, s, strict) /\ s \in States /\ a \in Table
      /\ s.l \in Int /\ s.u \in Int /\ s.i \in Int /\ s.j \in Int
      /\ \A c \in s.l..s.u : c \in Cells /\ a[c] \in Int
      BY Here
<1>2. s.P \in Int /\ "down" \in Pcs /\ "up" \in Pcs /\ s.pc \notin {"low", "high"}
      BY <1>1, Fields, CellIsInt DEF Pcs
<1>3. /\ s.u - s.l >= 3 /\ s.i \in (s.l + 1)..(s.u + 1) /\ s.j \in (s.l - 1)..(s.u - 2)
      /\ strict => /\ s.i <= s.u - 1 /\ a[s.u - 1] = s.P
                   /\ \A x \in s.l..(s.i - 1) : a[x] <= s.P
                   /\ \A x \in (s.j + 1)..s.u : s.P <= a[x]
                   /\ s.P <= a[s.i]
      BY DEF Comparing, Scanning
<1>4. CASE less /\ s.j < s.l
  <2>1. Down(a, s, less).a = a /\ Down(a, s, less).s = Over(s, "error")
        BY <1>4 DEF Down, Failed
  <2> QED BY <1>1, <2>1, FailedKnown
<1>5. CASE less /\ ~(s.j < s.l)
  <2> DEFINE t == [s EXCEPT !.j = s.j - 1]
  <2>1. Down(a, s, less).a = a /\ Down(a, s, less).s = t
        BY <1>5 DEF Down
  <2>2. /\ t \in States /\ t.before = s.before /\ t.n = s.n /\ t.calls = s.calls /\ t.l = s.l /\ t.u = s.u
        /\ t.i = s.i /\ t.j = s.j - 1 /\ t.P = s.P /\ t.pc = "down"
    <3>1. s.j - 1 \in Int
          BY <1>1
    <3> QED BY <1>1, <1>2, <3>1 DEF States
  <2> HIDE DEF t
  <2>3. Looping(a, t, strict)
        BY <1>1, <2>2, LoopingAlso
  <2>4. ASSUME strict PROVE \A x \in s.j..s.u : s.P <= a[x]
    <3>1. a[s.j] \in Int /\ s.P < a[s.j]
          BY <1>1, <1>3, <1>5, <2>4
    <3>2. \A x \in s.j..s.u : x = s.j \/ x \in (s.j + 1)..s.u
          BY <1>1
    <3> QED BY <1>2, <1>3, <2>4, <3>1, <3>2
  <2>5. Scanning(a, t, strict)
    <3>1. s.j - 1 + 1 = s.j
          BY <1>1
    <3> QED BY <1>1, <1>3, <1>5, <2>2, <2>4, <3>1 DEF Scanning
  <2> QED BY <1>1, <1>3, <2>1, <2>2, <2>3, <2>5 DEF Known, Comparing, Looping
<1>6. CASE ~less /\ s.j < s.i
  <2>1. Down(a, s, less) = Partitioned(a, s)
        BY <1>6 DEF Down
  <2> QED BY <1>1, <1>6, <2>1, PartitionedKnown DEF Comparing
<1>7. CASE ~less /\ ~(s.j < s.i)
  <2> DEFINE i == s.i
             j == s.j
             b == set2(a, i, j)
             t == [s EXCEPT !.i = s.i + 1, !.pc = "up"]
  <2>1. Down(a, s, less).a = b /\ Down(a, s, less).s = t
        BY <1>7 DEF Down
  <2>2. /\ t \in States /\ t.before = s.before /\ t.n = s.n /\ t.calls = s.calls /\ t.l = s.l /\ t.u = s.u
        /\ t.i = s.i + 1 /\ t.j = s.j /\ t.P = s.P /\ t.pc = "up"
    <3>1. s.i + 1 \in Int
          BY <1>1
    <3> QED BY <1>1, <1>2, <3>1 DEF States
  <2> HIDE DEF t
  <2>3. i \in s.l..s.u /\ j \in s.l..s.u /\ i \in Cells /\ j \in Cells /\ i <= j /\ j <= s.u - 2 /\ s.l <= i
        BY <1>1, <1>3, <1>7
  <2>4. Looping(b, s, strict)
        BY <1>1, <2>3, SwapHere
  <2>5. i = s.i /\ j = s.j
        OBVIOUS
  <2> HIDE DEF i, j
  <2>6. \A c \in Cells : b[c] = IF c = j THEN a[i] ELSE IF c = i THEN a[j] ELSE a[c]
        BY <1>1, <2>3, Set2
  <2> HIDE DEF b
  <2>7. Looping(b, t, strict)
        BY <1>1, <2>2, <2>4, LoopingAlso
  <2>8. ASSUME strict
        PROVE  /\ b[s.u - 1] = s.P
               /\ \A x \in s.l..i : b[x] <= s.P
               /\ \A x \in j..s.u : s.P <= b[x]
    <3>1. a[i] \in Int /\ a[j] \in Int /\ s.P <= a[i] /\ a[j] <= s.P
          BY <1>1, <1>2, <1>3, <1>7, <2>3, <2>5, <2>8
    <3>2. /\ a[s.u - 1] = s.P
          /\ \A x \in s.l..(i - 1) : a[x] <= s.P
          /\ \A x \in (j + 1)..s.u : s.P <= a[x]
          BY <1>3, <2>5, <2>8
    <3>3. i \in Int /\ j \in Int
          BY <1>1, <2>5
    <3>4. s.u - 1 \in Cells /\ s.u - 1 \notin {i, j}
          BY <1>1, <2>3, <3>3
    <3>5. \A x \in s.l..i : x \in Cells /\ (x = i \/ (x \in s.l..(i - 1) /\ x \notin {i, j}))
          BY <1>1, <2>3, <3>3
    <3>6. \A x \in j..s.u : x \in Cells /\ (x = j \/ (x \in (j + 1)..s.u /\ x \notin {i, j}))
          BY <1>1, <2>3, <3>3
    <3>7. b[i] <= s.P /\ s.P <= b[j]
          BY <1>2, <2>3, <2>6, <3>1
    <3> QED BY <2>6, <3>2, <3>4, <3>5, <3>6, <3>7
  <2>9. Scanning(b, t, strict)
    <3>1. s.i + 1 - 1 = i /\ s.i + 1 \in (s.l + 1)..(s.u - 1) /\ s.j \in s.l..(s.u - 1) /\ s.i + 1 \in (s.l + 1)..(s.u + 1)
          BY <1>1, <1>3, <2>3, <2>5
    <3> QED BY <1>1, <1>3, <2>2, <2>5, <2>8, <3>1 DEF Scanning
  <2> QED BY <1>1, <1>3, <2>1, <2>2, <2>7, <2>9 DEF Known, Comparing, Looping
<1> QED BY <1>4, <1>5, <1>6, <1>7

\* Whatever the comparison is that auxsort has asked for.
LEMMA AfterKnown ==
    ASSUME NEW a, NEW s, NEW strict \in BOOLEAN, NEW less \in BOOLEAN, Known(a, s, strict), s.pc \in Pcs,
           strict => (less <=> CASE s.pc = "ends" -> a[s.u] < a[s.l]
                                 [] s.pc = "low"  -> a[s.i] < a[s.l]
                                 [] s.pc = "high" -> a[s.u] < a[s.i]
                                 [] s.pc = "up"   -> a[s.i] < s.P
                                 [] OTHER         -> s.P < a[s.j])
    PROVE  Known(After(a, s, less).a, After(a, s, less).s, strict)
<1>1. Comparing(a, s, strict)
      BY DEF Known
<1>2. CASE s.pc = "ends"
  <2>1. After(a, s, less) = Ends(a, s, less) /\ (strict => (less <=> a[s.u] < a[s.l]))
        BY <1>2 DEF After
  <2> QED BY <1>1, <1>2, <2>1, EndsKnown
<1>3. CASE s.pc = "low"
  <2>1. After(a, s, less) = Low(a, s, less) /\ (strict => (less <=> a[s.i] < a[s.l]))
        BY <1>3 DEF After
  <2> QED BY <1>1, <1>3, <2>1, LowKnown
<1>4. CASE s.pc = "high"
  <2>1. After(a, s, less) = High(a, s, less) /\ (strict => (less <=> a[s.u] < a[s.i]))
        BY <1>4 DEF After
  <2> QED BY <1>1, <1>4, <2>1, HighKnown
<1>5. CASE s.pc = "up"
  <2>1. After(a, s, less) = Up(a, s, less) /\ (strict => (less <=> a[s.i] < s.P))
        BY <1>5 DEF After
  <2> QED BY <1>1, <1>5, <2>1, UpKnown
<1>6. CASE s.pc = "down"
  <2>1. After(a, s, less) = Down(a, s, less) /\ (strict => (less <=> s.P < a[s.j]))
        BY <1>6 DEF After
  <2> QED BY <1>1, <1>6, <2>1, DownKnown
<1> QED BY <1>2, <1>3, <1>4, <1>5, <1>6 DEF Pcs

-----------------------------------------------------------------------------
(* The steps.                                                               *)

\* luaL_getn: what a length is when it is counted, and that it is in range.
LEMMA Length ==
    ASSUME ListInv, Quiet
    PROVE  /\ luaL_getn \in 0..MaxSize
           /\ arr[MaxSize + 1] = Nil /\ arr \in Table /\ sort \in States
<1>1. arr[MaxSize + 1] = Nil /\ arr \in Table /\ sort \in States
      BY DEF ListInv, Lengths, Quiet
<1> DEFINE S == {n \in 1..(MaxSize + 1) : \A c \in 1..n : arr[c] # Nil}
<1>2. S \subseteq 1..MaxSize
  <2>1. MaxSize + 1 \in 1..(MaxSize + 1) /\ 1..(MaxSize + 1) \subseteq Int
        BY ListConstants
  <2> QED BY <1>1, <2>1, ListConstants
<1>3. IsFiniteSet(1..MaxSize) /\ Cardinality(1..MaxSize) = MaxSize
      BY FS_Interval, ListConstants
<1> HIDE DEF S
<1>4. IsFiniteSet(S) /\ Cardinality(S) <= MaxSize
      BY <1>2, <1>3, FS_Subset
<1>5. Cardinality(S) \in Nat
      BY <1>4, FS_CardinalityType
<1>6. Counted \in 0..MaxSize
      BY <1>4, <1>5, ListConstants DEF Counted, S
<1> QED BY <1>1, <1>6 DEF luaL_getn, ListInv, Lengths

LEMMA InitKnown == Init => ListInv
<1> SUFFICES ASSUME Init PROVE ListInv
    OBVIOUS
<1>1. arr \in Table /\ arr[MaxSize + 1] = Nil
      BY ListConstants DEF Init, Table, Cell, Cells
<1> QED BY <1>1, IdleIs DEF Init, ListInv, Lengths

\* A step that only edits the list.
LEMMA Edited ==
    ASSUME arr' \in Table, arr'[MaxSize + 1] = Nil, sort' = Idle, order' \in {"strict", "any"},
           nfield' \in {None} \cup 0..MaxSize, sizes' \in {None} \cup 0..MaxSize
    PROVE  ListInv'
BY IdleIs DEF ListInv, Lengths

LEMMA SetnInRange ==
    ASSUME ListInv, NEW n \in 0..MaxSize, luaL_setn(n)
    PROVE  nfield' \in {None} \cup 0..MaxSize /\ sizes' \in {None} \cup 0..MaxSize
BY DEF luaL_setn, ListInv, Lengths

LEMMA InsertKnown ==
    ASSUME ListInv, NEW v \in Values, NEW pos \in 1..(luaL_getn + 1), luaB_tinsert(pos, v)
    PROVE  ListInv'
<1>1. luaL_getn \in 0..MaxSize /\ arr[MaxSize + 1] = Nil /\ arr \in Table /\ luaL_getn < MaxSize
      BY Length DEF luaB_tinsert
<1>2. luaL_getn + 1 \in 0..MaxSize /\ luaL_setn(luaL_getn + 1)
      BY <1>1, ListConstants DEF luaB_tinsert
<1>3. nfield' \in {None} \cup 0..MaxSize /\ sizes' \in {None} \cup 0..MaxSize
      BY <1>2, SetnInRange
<1>4. arr' = [c \in Cells |-> IF c = pos THEN v
                              ELSE IF c \in (pos + 1)..(luaL_getn + 1) THEN arr[c - 1] ELSE arr[c]]
      BY DEF luaB_tinsert
<1> DEFINE n == luaL_getn
<1>5. n \in 0..MaxSize /\ n < MaxSize /\ pos \in 1..(n + 1)
      BY <1>1
<1>6. \A c \in Cells : /\ c = pos => arr'[c] = v
                       /\ c # pos /\ c \in (pos + 1)..(n + 1) => arr'[c] = arr[c - 1]
                       /\ c # pos /\ c \notin (pos + 1)..(n + 1) => arr'[c] = arr[c]
      BY <1>4
<1>7. DOMAIN arr' = Cells /\ arr' = [c \in Cells |-> arr'[c]]
      BY <1>4
<1> HIDE DEF n
<1>8. \A c \in Cells : arr'[c] \in Cell
  <2> SUFFICES ASSUME NEW c \in Cells PROVE arr'[c] \in Cell
      OBVIOUS
  <2>1. c \in (pos + 1)..(n + 1) => c - 1 \in Cells
        BY <1>5, ListConstants DEF Cells
  <2> QED BY <1>1, <1>6, <2>1 DEF Table, Cell
<1>9. arr' \in Table
      BY <1>7, <1>8 DEF Table
<1>10. arr'[MaxSize + 1] = Nil
      BY <1>1, <1>5, <1>6, ListConstants DEF Cells
<1> QED BY <1>3, <1>9, <1>10, Edited DEF luaB_tinsert, ListInv

LEMMA RemoveKnown ==
    ASSUME ListInv, NEW pos \in 1..luaL_getn, luaB_tremove(pos)
    PROVE  ListInv'
<1>1. luaL_getn \in 0..MaxSize /\ arr[MaxSize + 1] = Nil /\ arr \in Table /\ luaL_getn > 0
      BY Length DEF luaB_tremove
<1>2. luaL_getn - 1 \in 0..MaxSize /\ luaL_setn(luaL_getn - 1)
      BY <1>1, ListConstants DEF luaB_tremove
<1>3. nfield' \in {None} \cup 0..MaxSize /\ sizes' \in {None} \cup 0..MaxSize
      BY <1>2, SetnInRange
<1>4. arr' = [c \in Cells |-> IF c \in pos..(luaL_getn - 1) THEN arr[c + 1]
                              ELSE IF c = luaL_getn THEN Nil ELSE arr[c]]
      BY DEF luaB_tremove
<1> DEFINE n == luaL_getn
<1>5. n \in 1..MaxSize /\ pos \in 1..n
      BY <1>1
<1>6. \A c \in Cells : /\ c \in pos..(n - 1) => arr'[c] = arr[c + 1]
                       /\ c \notin pos..(n - 1) => arr'[c] = IF c = n THEN Nil ELSE arr[c]
      BY <1>4
<1>7. DOMAIN arr' = Cells /\ arr' = [c \in Cells |-> arr'[c]]
      BY <1>4
<1> HIDE DEF n
<1>8. \A c \in Cells : arr'[c] \in Cell
  <2> SUFFICES ASSUME NEW c \in Cells PROVE arr'[c] \in Cell
      OBVIOUS
  <2>1. c \in pos..(n - 1) => c + 1 \in Cells
        BY <1>5, ListConstants DEF Cells
  <2> QED BY <1>1, <1>6, <2>1 DEF Table, Cell
<1>9. arr' \in Table
      BY <1>7, <1>8 DEF Table
<1>10. arr'[MaxSize + 1] = Nil
      BY <1>1, <1>5, <1>6, ListConstants DEF Cells
<1> QED BY <1>3, <1>9, <1>10, Edited DEF luaB_tremove, ListInv

LEMMA OtherEditsKnown ==
    ASSUME ListInv,
           \/ \E v \in Values, i \in 1..(luaL_getn + 1) : i <= MaxSize /\ Assign(i, v)
           \/ \E n \in 0..luaL_getn : luaB_setn(n)
           \/ SetField
    PROVE  ListInv'
<1>1. CASE \E v \in Values, i \in 1..(luaL_getn + 1) : i <= MaxSize /\ Assign(i, v)
  <2>1. PICK v \in Values, i \in 1..(luaL_getn + 1) : i <= MaxSize /\ Assign(i, v)
        BY <1>1
  <2>2. luaL_getn \in 0..MaxSize /\ arr[MaxSize + 1] = Nil /\ arr \in Table
        BY <2>1, Length DEF Assign
  <2>3. i \in Int /\ i # MaxSize + 1
        BY <2>1, <2>2, ListConstants
  <2>4. arr' = [arr EXCEPT ![i] = v] /\ v \in Cell
        BY <2>1 DEF Assign, Cell
  <2>5. arr' \in Table
        BY <2>2, <2>4 DEF Table
  <2>6. arr'[MaxSize + 1] = Nil
        BY <2>2, <2>3, <2>4, ListConstants DEF Table, Cells
  <2> QED BY <2>1, <2>5, <2>6, Edited DEF Assign, ListInv, Lengths
<1>2. CASE \E n \in 0..luaL_getn : luaB_setn(n)
  <2>1. PICK n \in 0..luaL_getn : luaB_setn(n)
        BY <1>2
  <2>2. luaL_getn \in 0..MaxSize /\ arr[MaxSize + 1] = Nil /\ arr \in Table
        BY <2>1, Length DEF luaB_setn
  <2>3. n \in 0..MaxSize /\ luaL_setn(n)
        BY <2>1, <2>2, ListConstants DEF luaB_setn
  <2>4. nfield' \in {None} \cup 0..MaxSize /\ sizes' \in {None} \cup 0..MaxSize
        BY <2>3, SetnInRange
  <2> QED BY <2>1, <2>2, <2>4, Edited DEF luaB_setn, ListInv
<1>3. CASE SetField
  <2>1. luaL_getn \in 0..MaxSize /\ arr[MaxSize + 1] = Nil /\ arr \in Table
        BY <1>3, Length DEF SetField
  <2> QED BY <1>3, <2>1, Edited DEF SetField, ListInv, Lengths
<1> QED BY <1>1, <1>2, <1>3

\* A step of sort leaves the lengths as they are.
LEMMA SortStep ==
    ASSUME ListInv, sort.pc # "idle", UNCHANGED <<nfield, sizes, order>>,
           Known(arr', sort', order = "strict"), sort'.pc # "idle", sort'.before = sort.before
    PROVE  ListInv'
<1>1. /\ arr' \in Table /\ sort' \in States /\ order' = order /\ order \in {"strict", "any"}
      /\ nfield' = nfield /\ sizes' = sizes
      BY DEF Known, Kept, ListInv
<1>2. sort'.before[MaxSize + 1] = Nil
      BY DEF ListInv, Lengths
<1>3. ASSUME order = "strict" PROVE arr'[MaxSize + 1] = Nil
  <2>1. \A c \in Cells : arr'[c] # sort'.before[c] => c \in 1..sort'.n
        BY <1>3 DEF Known, Kept
  <2>2. sort'.n \in 0..MaxSize
        BY <1>1, Fields
  <2>3. MaxSize + 1 \in Cells /\ MaxSize + 1 \notin 1..sort'.n
        BY <2>2, ListConstants DEF Cells
  <2> QED BY <1>2, <2>1, <2>3
<1> QED BY <1>1, <1>2, <1>3 DEF ListInv, Lengths

\* What the table held when sort began is remembered until sort ends.
Remembers(s, t) == t.before = s.before /\ t.n = s.n /\ t.pc # "idle"

LEMMA LoopRemembers ==
    ASSUME NEW a, NEW s \in States
    PROVE  /\ Return(a, s).a = a /\ Remembers(s, Return(a, s).s)
           /\ Loop(a, s).a = a /\ Remembers(s, Loop(a, s).s)
<1>1. \A l, u, calls : Remembers(s, Begin(s, l, u, calls))
      BY DEF Remembers, Begin, Idle
<1>2. Remembers(s, Over(s, "done"))
      BY DEF Remembers, Over, Idle
<1>3. Return(a, s).a = a /\ Remembers(s, Return(a, s).s)
      BY <1>1, <1>2 DEF Return
<1> QED BY <1>1, <1>3 DEF Loop

LEMMA AfterRemembers ==
    ASSUME NEW a, NEW s \in States, NEW less \in BOOLEAN, s.pc \in Pcs
    PROVE  Remembers(s, After(a, s, less).s)
<1>1. \A b : Remembers(s, Median(b, s).s)
  <2> SUFFICES ASSUME NEW b PROVE Remembers(s, Median(b, s).s)
      OBVIOUS
  <2>1. CASE s.u - s.l = 2
        BY <2>1, LoopRemembers DEF Median
  <2>2. CASE s.u - s.l # 2
        BY <2>2 DEF Median, Remembers, States
  <2> QED BY <2>1, <2>2
<1>2. Remembers(s, Ends(a, s, less).s)
  <2>1. CASE s.u - s.l = 1
        BY <2>1, LoopRemembers DEF Ends
  <2>2. CASE s.u - s.l # 1
        BY <2>2 DEF Ends, Remembers, States
  <2> QED BY <2>1, <2>2
<1>3. Remembers(s, Low(a, s, less).s)
  <2>1. Remembers(s, [s EXCEPT !.pc = "high"])
        BY DEF Remembers, States
  <2> QED BY <1>1, <2>1 DEF Low
<1>4. Remembers(s, High(a, s, less).s)
      BY <1>1 DEF High
<1>5. Remembers(s, Over(s, "error"))
      BY DEF Remembers, Over, Idle
<1>6. Remembers(s, Up(a, s, less).s)
  <2>1. /\ Remembers(s, [s EXCEPT !.j = @ - 1, !.pc = "down"])
        /\ Remembers(s, [s EXCEPT !.i = @ + 1])
        BY DEF Remembers, States, Pcs
  <2> QED BY <1>5, <2>1 DEF Up, Failed
<1>7. Remembers(s, Partitioned(a, s).s)
  <2>1. ASSUME NEW b, NEW l \in Int, NEW u \in Int, NEW r \in Span
        PROVE  Remembers(s, Loop(b, [s EXCEPT !.l = l, !.u = u, !.calls = Append(@, r)]).s)
    <3> DEFINE t == [s EXCEPT !.l = l, !.u = u, !.calls = Append(@, r)]
    <3>1. t \in States /\ t.before = s.before /\ t.n = s.n
      <4>1. Append(s.calls, r) \in Seq(Span) /\ s \in States
            BY Fields
      <4> HIDE DEF Remembers
      <4> QED BY <4>1 DEF States
    <3> HIDE DEF t
    <3>2. Remembers(t, Loop(b, t).s)
          BY <3>1, LoopRemembers
    <3> QED BY <3>1, <3>2 DEF Remembers, t
  <2> DEFINE i == s.i
             small == IF i - s.l < s.u - i THEN [l |-> s.l, u |-> i - 1] ELSE [l |-> i + 1, u |-> s.u]
             large == IF i - s.l < s.u - i THEN [l |-> i + 1, u |-> s.u] ELSE [l |-> s.l, u |-> i - 1]
             b == set2(a, s.u - 1, i)
  <2>2. s.l \in Int /\ s.u \in Int /\ s.i \in Int
        BY Fields
  <2>3. small.l \in Int /\ small.u \in Int /\ large \in Span
        BY <2>2 DEF Span
  <2>4. Partitioned(a, s) = Loop(b, [s EXCEPT !.l = small.l, !.u = small.u, !.calls = Append(@, large)])
        BY DEF Partitioned
  <2> HIDE DEF b, small, large, i
  <2> QED BY <2>1, <2>3, <2>4
<1>8. Remembers(s, Down(a, s, less).s)
  <2>1. /\ Remembers(s, [s EXCEPT !.j = @ - 1])
        /\ Remembers(s, [s EXCEPT !.i = @ + 1, !.pc = "up"])
        BY DEF Remembers, States, Pcs
  <2> QED BY <1>5, <1>7, <2>1 DEF Down, Failed
<1> QED BY <1>2, <1>3, <1>4, <1>6, <1>8 DEF After

LEMMA SortKnown ==
    ASSUME ListInv, luaB_sort
    PROVE  ListInv'
<1> DEFINE n == luaL_getn
           s == [Idle EXCEPT !.l = 1, !.u = n, !.n = n, !.before = arr]
           strict == order' = "strict"
<1>1. n \in 0..MaxSize /\ arr[MaxSize + 1] = Nil /\ arr \in Table
      BY Length DEF luaB_sort
<1>2. /\ sort' = Loop(arr, s).s /\ order' \in {"strict", "any"}
      /\ arr' = arr /\ nfield' = nfield /\ sizes' = sizes
      BY DEF luaB_sort
<1>3. strict \in BOOLEAN
      OBVIOUS
<1> HIDE DEF n, strict
<1>4. s \in States /\ s.l = 1 /\ s.u = n /\ s.n = n /\ s.before = arr /\ s.calls = << >>
  <2>1. n \in Int
        BY <1>1, ListConstants
  <2> QED BY <1>1, <2>1, IdleIs DEF States
<1> HIDE DEF s
<1>5. Len(s.calls) = 0
      BY <1>4
<1>6. Kept(arr, s, strict)
      BY <1>1, <1>4 DEF Kept
<1>7. WaitInList(s) /\ Apart(s) /\ Clear(s)
      BY <1>5 DEF WaitInList, Apart, Clear
<1>8. SortedButHere(arr, s)
      BY <1>1, <1>4 DEF SortedButHere, Within
<1>9. Looping(arr, s, strict)
      BY <1>1, <1>4, <1>6, <1>7, <1>8, ListConstants DEF Looping
<1>10. Known(arr', sort', strict)
      BY <1>2, <1>3, <1>4, <1>9, LoopKnown, LoopRemembers
<1>11. sort'.before = arr /\ sort'.pc # "idle"
      BY <1>2, <1>4, LoopRemembers DEF Remembers
<1>12. sort' \in States
      BY <1>10 DEF Known, Kept
<1> QED BY <1>1, <1>2, <1>10, <1>11, <1>12 DEF ListInv, Lengths, strict

LEMMA CompKnown ==
    ASSUME ListInv, NEW less \in BOOLEAN, sort_comp(less)
    PROVE  ListInv'
<1> DEFINE strict == order = "strict"
<1>1. sort.pc \in Pcs /\ sort.pc # "idle" /\ sort \in States
      BY DEF sort_comp, Asking, Pcs, ListInv
<1>2. Known(arr, sort, strict) /\ strict \in BOOLEAN
      BY <1>1 DEF ListInv
<1>3. /\ arr' = After(arr, sort, less).a /\ sort' = After(arr, sort, less).s
      /\ UNCHANGED <<nfield, sizes, order>>
      BY DEF sort_comp
<1>4. strict => (less <=> Compared[1] < Compared[2])
      BY DEF sort_comp
<1>5. (Compared[1] < Compared[2]) <=> CASE sort.pc = "ends" -> arr[sort.u] < arr[sort.l]
                                        [] sort.pc = "low"  -> arr[sort.i] < arr[sort.l]
                                        [] sort.pc = "high" -> arr[sort.u] < arr[sort.i]
                                        [] sort.pc = "up"   -> arr[sort.i] < sort.P
                                        [] OTHER            -> sort.P < arr[sort.j]
      BY <1>1 DEF Compared, Pcs
<1> HIDE DEF strict
<1>6. Known(arr', sort', strict)
      BY <1>1, <1>2, <1>3, <1>4, <1>5, AfterKnown
<1>7. Remembers(sort, sort')
      BY <1>1, <1>3, AfterRemembers
<1> QED BY <1>1, <1>3, <1>6, <1>7, SortStep DEF strict, Remembers

LEMMA FailsKnown ==
    ASSUME ListInv, CompareFails
    PROVE  ListInv'
<1> DEFINE strict == order = "strict"
<1>1. sort.pc # "idle" /\ sort \in States
      BY DEF CompareFails, Asking, ListInv
<1>2. Kept(arr, sort, strict) /\ strict \in BOOLEAN
      BY <1>1 DEF ListInv, Known
<1>3. arr' = arr /\ sort' = Over(sort, "error") /\ UNCHANGED <<nfield, sizes, order>>
      BY DEF CompareFails
<1> HIDE DEF strict
<1>4. Known(arr', sort', strict)
      BY <1>2, <1>3, FailedKnown
<1>5. sort'.pc # "idle" /\ sort'.before = sort.before
      BY <1>1, <1>3, OverIs
<1> QED BY <1>1, <1>3, <1>4, <1>5, SortStep DEF strict

LEMMA NextKnown == ListInv /\ [Next]_vars => ListInv'
<1> SUFFICES ASSUME ListInv, [Next]_vars PROVE ListInv'
    OBVIOUS
<1>1. CASE \E v \in Values, pos \in 1..(luaL_getn + 1) : luaB_tinsert(pos, v)
      BY <1>1, InsertKnown
<1>2. CASE \E pos \in 1..luaL_getn : luaB_tremove(pos)
      BY <1>2, RemoveKnown
<1>3. CASE \/ \E v \in Values, i \in 1..(luaL_getn + 1) : i <= MaxSize /\ Assign(i, v)
           \/ \E n \in 0..luaL_getn : luaB_setn(n)
           \/ SetField
      BY <1>3, OtherEditsKnown
<1>4. CASE luaB_sort
      BY <1>4, SortKnown
<1>5. CASE \E less \in BOOLEAN : sort_comp(less)
      BY <1>5, CompKnown
<1>6. CASE CompareFails
      BY <1>6, FailsKnown
<1>7. CASE UNCHANGED vars
      BY <1>7 DEF vars, ListInv, Lengths
<1> QED BY <1>1, <1>2, <1>3, <1>4, <1>5, <1>6, <1>7 DEF Next, Listing, Sorting

-----------------------------------------------------------------------------
(* The theorems.                                                            *)

\* auxsort: what is said of each of its comparisons holds, for tables with any values
\* and lists of any length, whatever the comparisons answer and wherever they fail.
THEOREM Invariant == Spec => []ListInv
<1>1. Init => ListInv
      BY InitKnown
<1>2. ListInv /\ [Next]_vars => ListInv'
      BY NextKnown
<1> QED BY <1>1, <1>2, PTL DEF Spec

\* auxsort: when the comparisons are those of numbers and sort has returned, the list is
\* in order.
THEOREM Sorted == Spec => []SortSorts
<1>1. ListInv => SortSorts
  <2> SUFFICES ASSUME ListInv, order = "strict", sort.pc = "done", NEW c \in 1..(sort.n - 1)
               PROVE  arr[c] <= arr[c + 1]
      BY DEF SortSorts
  <2>1. \A x, y \in 1..sort.n : x < y => arr[x] <= arr[y]
        BY DEF ListInv, Known
  <2>2. sort.n \in 0..MaxSize
        BY Fields DEF ListInv
  <2>3. c \in 1..sort.n /\ c + 1 \in 1..sort.n /\ c < c + 1
        BY <2>2, ListConstants
  <2> QED BY <2>1, <2>3
<1> QED BY <1>1, Invariant, PTL

\* set2: sort only exchanges elements, so that at every comparison, and when one of them
\* raises an error, the table holds each value as often as it did.
THEOREM KeepsAll == Spec => []NothingLost
<1>1. ListInv => NothingLost
      BY DEF ListInv, Known, Kept, Times, Cell, NothingLost
<1> QED BY <1>1, Invariant, PTL

\* auxsort, "if (i>u)" and "if (j<l)": the scans reach at most one element behind the
\* list, nothing further is changed, and nothing behind it when the comparisons are an order.
THEOREM Inside == Spec => []StaysInside
<1>1. ListInv => StaysInside
  <2> SUFFICES ASSUME ListInv, sort.pc # "idle" PROVE StaysInside
      BY DEF StaysInside
  <2> DEFINE strict == order = "strict"
  <2>1. Known(arr, sort, strict) /\ sort \in States /\ strict \in BOOLEAN
        BY DEF ListInv
  <2>2. \A c \in Cells : arr[c] # sort.before[c] => c \in 1..(IF order = "strict" THEN sort.n ELSE sort.n + 1)
        BY <2>1 DEF Known, Kept
  <2>3. ASSUME Asking PROVE sort.i \in 0..(sort.n + 1) /\ sort.j \in 0..sort.n
    <3>1. sort.pc \in Pcs /\ Comparing(arr, sort, strict)
          BY <2>1, <2>3 DEF Asking, Pcs, Known
    <3> HIDE DEF strict
    <3>2. /\ 1 <= sort.l /\ sort.u <= sort.n /\ sort.l < sort.u
          /\ sort.l \in Int /\ sort.u \in Int /\ sort.i \in Int /\ sort.j \in Int /\ sort.n \in 0..MaxSize
          BY <2>1, <3>1, Here
    <3>3. CASE sort.pc = "ends"
          BY <3>1, <3>2, <3>3, ListConstants DEF Comparing
    <3>4. CASE sort.pc \in {"low", "high"}
          BY <3>1, <3>2, <3>4, ListConstants DEF Comparing, AtMedian
    <3>5. CASE sort.pc \in {"up", "down"}
          BY <3>1, <3>2, <3>5, ListConstants DEF Comparing, Scanning
    <3> QED BY <3>1, <3>3, <3>4, <3>5 DEF Pcs
  <2> QED BY <2>2, <2>3 DEF StaysInside
<1> QED BY <1>1, Invariant, PTL

-----------------------------------------------------------------------------
(* How deep the recursion is.                                               *)

\* A set with one element more has twice as many subsets.
LEMMA Doubled ==
    ASSUME NEW k \in Nat
    PROVE  2 ^ k \in Nat \ {0} /\ 2 ^ (k + 1) = 2 * 2 ^ k
<1> DEFINE S == 1..k
           x == k + 1
           T == 1..(k + 1)
           With(A) == A \cup {x}
           new == {With(A) : A \in SUBSET S}
<1>1. /\ IsFiniteSet(S) /\ Cardinality(S) = k
      /\ IsFiniteSet(T) /\ Cardinality(T) = k + 1
  <2>1. k \in Int /\ k + 1 \in Int /\ 1 \in Int
        OBVIOUS
  <2> QED BY <2>1, FS_Interval
<1>2. T = S \cup {x} /\ x \notin S
      OBVIOUS
<1> HIDE DEF S, T, x
<1>3. /\ IsFiniteSet(SUBSET S) /\ Cardinality(SUBSET S) = 2 ^ k
      /\ IsFiniteSet(SUBSET T) /\ Cardinality(SUBSET T) = 2 ^ (k + 1)
  <2>1. IsFiniteSet(SUBSET S) /\ Cardinality(SUBSET S) = 2 ^ Cardinality(S)
        BY <1>1, FS_SUBSET
  <2>2. IsFiniteSet(SUBSET T) /\ Cardinality(SUBSET T) = 2 ^ Cardinality(T)
        BY <1>1, FS_SUBSET
  <2> QED BY <1>1, <2>1, <2>2
<1>4. SUBSET T = (SUBSET S) \cup new
  <2>1. ASSUME NEW B \in SUBSET T, x \in B PROVE B \in new
    <3>1. B \ {x} \in SUBSET S /\ B = With(B \ {x})
          BY <1>2, <2>1
    <3> QED BY <3>1
  <2>2. ASSUME NEW B \in SUBSET T, x \notin B PROVE B \in SUBSET S
        BY <1>2, <2>2
  <2>3. SUBSET S \subseteq SUBSET T /\ new \subseteq SUBSET T
        BY <1>2
  <2> DEFINE P == SUBSET S
             Q == SUBSET T
  <2>4. ASSUME NEW B \in Q PROVE B \in P \cup new
        BY <2>1, <2>2
  <2>5. P \subseteq Q /\ new \subseteq Q
        BY <2>3
  <2> HIDE DEF new, P, Q
  <2>6. Q = P \cup new
        BY <2>4, <2>5
  <2> QED BY <2>6 DEF P, Q
<1>5. (SUBSET S) \cap new = {}
  <2>1. \A C \in new : x \in C
        OBVIOUS
  <2>2. \A C \in SUBSET S : x \notin C
        BY <1>2
  <2> DEFINE P == SUBSET S
  <2>3. \A C \in P : x \notin C
        BY <2>2
  <2> HIDE DEF new, P
  <2>4. P \cap new = {}
        BY <2>1, <2>3
  <2> QED BY <2>4 DEF P
<1>6. IsFiniteSet(new) /\ Cardinality(new) = Cardinality(SUBSET S)
  <2> DEFINE f == [A \in SUBSET S |-> With(A)]
  <2>1. f \in Bijection(SUBSET S, new)
    <3>1. f \in [SUBSET S -> new]
          OBVIOUS
    <3>2. \A A, B \in SUBSET S : f[A] = f[B] => A = B
      <4> SUFFICES ASSUME NEW A \in SUBSET S, NEW B \in SUBSET S, f[A] = f[B] PROVE A = B
          OBVIOUS
      <4>1. A \cup {x} = B \cup {x}
            OBVIOUS
      <4>2. x \notin A /\ x \notin B
            BY <1>2
      <4> QED BY <4>1, <4>2
    <3>3. \A C \in new : \E A \in SUBSET S : f[A] = C
          OBVIOUS
    <3> QED BY <3>1, <3>2, <3>3 DEF Bijection, Injection, Surjection, IsInjective
  <2> DEFINE P == SUBSET S
  <2>2. IsFiniteSet(P) /\ f \in Bijection(P, new)
        BY <1>3, <2>1
  <2> HIDE DEF f, new, P
  <2>3. ExistsBijection(P, new)
        BY <2>2 DEF ExistsBijection
  <2>4. IsFiniteSet(new) /\ Cardinality(new) = Cardinality(P)
        BY ONLY <2>2, <2>3, FS_Bijection
  <2> QED BY <2>4 DEF P
<1> HIDE DEF new
<1>7. Cardinality(SUBSET T) = Cardinality(SUBSET S) + Cardinality(new) - Cardinality({})
      BY <1>3, <1>4, <1>5, <1>6, FS_Union
<1>8. Cardinality({}) = 0
      BY FS_EmptySet
<1>9. 2 ^ k \in Nat /\ 2 ^ k # 0
  <2>1. 2 ^ k \in Nat
        BY <1>3, FS_CardinalityType
  <2>2. {} \in SUBSET S
        OBVIOUS
  <2>3. Cardinality(SUBSET S) # 0
        BY <1>3, <2>2, FS_EmptySet
  <2> QED BY <1>3, <2>1, <2>3
<1> QED BY <1>3, <1>6, <1>7, <1>8, <1>9

\* A product grows with its second factor.
LEMMA Larger ==
    ASSUME NEW p \in Nat, NEW x \in Int, NEW y \in Int, x <= y
    PROVE  p * x <= p * y
<1> DEFINE d == y - x
<1>1. d \in Nat /\ y = x + d
      OBVIOUS
<1> HIDE DEF d
<1>2. p * d \in Nat /\ p * x \in Int
      BY <1>1
<1>3. p * y = p * x + p * d
      BY <1>1
<1> QED BY <1>2, <1>3

\* Every range at depth k is at most 1 / 2 ^ k of the list, the one at hand and those
\* that wait, whose depth is that of the auxsort that waits for the recursive one.
WaitingFit(s) == \A k \in 1..Len(s.calls) : 2 ^ (k - 1) * (s.calls[k].u - s.calls[k].l + 1) <= s.n
Fits(s) == WaitingFit(s) /\ 2 ^ Len(s.calls) * (s.u - s.l + 1) <= s.n
Shallow(s) == IF s.pc \in Pcs THEN Fits(s) ELSE s.calls = << >>

\* A sort that is over has no calls left.
LEMMA OverShallow ==
    ASSUME NEW s, NEW how \in {"done", "error"}
    PROVE  Shallow(Over(s, how))
<1>1. Over(s, how).pc = how /\ Over(s, how).calls = << >>
      BY DEF Over, Idle
<1> QED BY <1>1 DEF Shallow, Pcs

\* The sort goes on with a range that is small enough for its depth,
LEMMA BeginShallow ==
    ASSUME NEW s \in States, NEW l \in Int, NEW u \in Int, NEW calls \in Seq(Span),
           \A k \in 1..Len(calls) : 2 ^ (k - 1) * (calls[k].u - calls[k].l + 1) <= s.n,
           2 ^ Len(calls) * (u - l + 1) <= s.n
    PROVE  Shallow(Begin(s, l, u, calls))
<1> DEFINE t == Begin(s, l, u, calls)
<1>1. t.pc = "ends" /\ t.l = l /\ t.u = u /\ t.calls = calls /\ t.n = s.n
      BY BeginIs
<1> HIDE DEF t
<1>2. Shallow(t)
      BY <1>1 DEF Shallow, Pcs, Fits, WaitingFit
<1> QED BY <1>2 DEF t

\* with one of those that wait when a call returns,
LEMMA ReturnShallow ==
    ASSUME NEW a, NEW s \in States, WaitingFit(s)
    PROVE  Shallow(Return(a, s).s)
<1>1. CASE Waiting(s) = {}
  <2>1. Return(a, s).s = Over(s, "done")
        BY <1>1 DEF Return
  <2> QED BY <2>1, OverShallow
<1>2. CASE Waiting(s) # {}
  <2> DEFINE k == CHOOSE k \in Waiting(s) : \A m \in Waiting(s) : m <= k
             rest == SubSeq(s.calls, 1, k - 1)
  <2>1. Return(a, s).s = Begin(s, s.calls[k].l, s.calls[k].u, rest)
        BY <1>2 DEF Return
  <2>2. k \in Waiting(s)
        BY <1>2, Fields, Largest DEF Waiting
  <2> HIDE DEF k
  <2>3. /\ k \in 1..Len(s.calls) /\ s.calls \in Seq(Span) /\ Len(s.calls) \in Nat
        /\ s.calls[k].l \in Int /\ s.calls[k].u \in Int
        BY <2>2, Fields DEF Waiting
  <2>4. rest \in Seq(Span) /\ Len(rest) = k - 1 /\ \A m \in 1..(k - 1) : rest[m] = s.calls[m]
        BY <2>3
  <2> HIDE DEF rest
  <2>5. \A m \in 1..Len(rest) : 2 ^ (m - 1) * (rest[m].u - rest[m].l + 1) <= s.n
    <3>1. \A m \in 1..Len(rest) : m \in 1..Len(s.calls) /\ rest[m] = s.calls[m]
          BY <2>3, <2>4
    <3> QED BY <3>1 DEF WaitingFit
  <2>6. 2 ^ Len(rest) * (s.calls[k].u - s.calls[k].l + 1) <= s.n
        BY <2>3, <2>4 DEF WaitingFit
  <2>7. Shallow(Begin(s, s.calls[k].l, s.calls[k].u, rest))
        BY <2>3, <2>4, <2>5, <2>6, BeginShallow
  <2> QED BY <2>1, <2>7
<1> QED BY <1>1, <1>2

\* or with the range at hand, when the loop of auxsort goes round.
LEMMA LoopShallow ==
    ASSUME NEW a, NEW s \in States, Fits(s)
    PROVE  Shallow(Loop(a, s).s)
<1>1. CASE s.l < s.u
  <2>1. Loop(a, s).s = Begin(s, s.l, s.u, s.calls)
        BY <1>1 DEF Loop
  <2>2. s.l \in Int /\ s.u \in Int /\ s.calls \in Seq(Span)
        BY Fields
  <2>3. Shallow(Begin(s, s.l, s.u, s.calls))
        BY <2>2, BeginShallow DEF Fits, WaitingFit
  <2> QED BY <2>1, <2>3
<1>2. CASE ~(s.l < s.u)
      BY <1>2, ReturnShallow DEF Loop, Fits
<1> QED BY <1>1, <1>2

\* The scans and the pivot do not matter to it.
LEMMA FitsAlso ==
    ASSUME NEW s, NEW t, Fits(s),
           t.calls = s.calls /\ t.l = s.l /\ t.u = s.u /\ t.n = s.n
    PROVE  Fits(t)
BY DEF Fits, WaitingFit

\* The part that is sorted by the recursive call has half of the elements at most.
LEMMA PartitionedShallow ==
    ASSUME NEW a, NEW s \in States, Fits(s), s.l < s.u, s.i \in (s.l + 1)..(s.u + 1)
    PROVE  Shallow(Partitioned(a, s).s)
<1> DEFINE i == s.i
           b == set2(a, s.u - 1, i)
           small == IF i - s.l < s.u - i THEN [l |-> s.l, u |-> i - 1] ELSE [l |-> i + 1, u |-> s.u]
           large == IF i - s.l < s.u - i THEN [l |-> i + 1, u |-> s.u] ELSE [l |-> s.l, u |-> i - 1]
           t == [s EXCEPT !.l = small.l, !.u = small.u, !.calls = Append(@, large)]
           m == s.u - s.l + 1
           d == Len(s.calls)
           p == 2 ^ d
<1>1. /\ s.l \in Int /\ s.u \in Int /\ i \in Int /\ s.n \in Int /\ m \in Int
      /\ s.calls \in Seq(Span) /\ d \in Nat /\ s.l < s.u /\ i \in (s.l + 1)..(s.u + 1)
      BY Fields, ListConstants
<1>2. Partitioned(a, s).s = Loop(b, t).s
      BY DEF Partitioned
<1>3. /\ small.l \in Int /\ small.u \in Int /\ large \in Span /\ large.l \in Int /\ large.u \in Int
      /\ 2 * (small.u - small.l + 1) <= m /\ large.u - large.l + 1 <= m
  <2>1. CASE i - s.l < s.u - i
    <3>1. small = [l |-> s.l, u |-> i - 1] /\ large = [l |-> i + 1, u |-> s.u]
          BY <2>1
    <3>2. [l |-> i + 1, u |-> s.u] \in Span
          BY <1>1 DEF Span
    <3> HIDE DEF small, large, m
    <3>3. /\ small.l = [l |-> s.l, u |-> i - 1].l /\ small.u = [l |-> s.l, u |-> i - 1].u
          /\ large.l = [l |-> i + 1, u |-> s.u].l /\ large.u = [l |-> i + 1, u |-> s.u].u /\ large \in Span
          BY <3>1, <3>2
    <3>4. small.l = s.l /\ small.u = i - 1 /\ large.l = i + 1 /\ large.u = s.u
          BY <3>3
    <3> HIDE DEF i
    <3>5. 2 * ((i - 1) - s.l + 1) <= s.u - s.l + 1 /\ s.u - (i + 1) + 1 <= s.u - s.l + 1
          BY <1>1, <2>1
    <3>6. i - 1 \in Int /\ i + 1 \in Int
          BY <1>1
    <3> QED BY <1>1, <3>3, <3>4, <3>5, <3>6 DEF m
  <2>2. CASE ~(i - s.l < s.u - i)
    <3>1. small = [l |-> i + 1, u |-> s.u] /\ large = [l |-> s.l, u |-> i - 1]
          BY <2>2
    <3>2. [l |-> s.l, u |-> i - 1] \in Span
          BY <1>1 DEF Span
    <3> HIDE DEF small, large, m
    <3>3. /\ small.l = [l |-> i + 1, u |-> s.u].l /\ small.u = [l |-> i + 1, u |-> s.u].u
          /\ large.l = [l |-> s.l, u |-> i - 1].l /\ large.u = [l |-> s.l, u |-> i - 1].u /\ large \in Span
          BY <3>1, <3>2
    <3>4. small.l = i + 1 /\ small.u = s.u /\ large.l = s.l /\ large.u = i - 1
          BY <3>3
    <3> HIDE DEF i
    <3>5. 2 * (s.u - (i + 1) + 1) <= s.u - s.l + 1 /\ (i - 1) - s.l + 1 <= s.u - s.l + 1
          BY <1>1, <2>2
    <3>6. i - 1 \in Int /\ i + 1 \in Int
          BY <1>1
    <3> QED BY <1>1, <3>3, <3>4, <3>5, <3>6 DEF m
  <2> QED BY <2>1, <2>2
<1> HIDE DEF small, large, b, i
<1>4. /\ t \in States /\ t.l = small.l /\ t.u = small.u /\ t.n = s.n /\ t.calls = Append(s.calls, large)
  <2>1. Append(s.calls, large) \in Seq(Span)
        BY <1>1, <1>3
  <2> QED BY <1>3, <2>1 DEF States
<1> HIDE DEF t
<1>5. /\ Len(t.calls) = d + 1 /\ t.calls[d + 1] = large
      /\ \A k \in 1..d : t.calls[k] = s.calls[k]
  <2>1. large \in Span /\ s.calls \in Seq(Span)
        BY <1>1, <1>3
  <2> QED BY <1>1, <1>4, <2>1
<1>6. p \in Nat /\ 2 ^ (d + 1) = 2 * p /\ p * m <= s.n
  <2>1. 2 ^ d \in Nat \ {0} /\ 2 ^ (d + 1) = 2 * 2 ^ d
        BY <1>1, Doubled
  <2> QED BY <2>1 DEF Fits
<1> DEFINE x == small.u - small.l + 1
           y == large.u - large.l + 1
<1>7. x \in Int /\ y \in Int /\ 2 * x <= m /\ y <= m
      BY <1>3
<1> HIDE DEF p, m, x, y
<1>8. p * y <= s.n
  <2>1. p * y <= p * m
        BY <1>1, <1>6, <1>7, Larger
  <2>2. p * y \in Int /\ p * m \in Int
        BY <1>1, <1>6, <1>7
  <2> QED BY <1>1, <1>6, <2>1, <2>2
<1>9. (2 * p) * x <= s.n
  <2>1. 2 * x \in Int /\ p * (2 * x) <= p * m
        BY <1>1, <1>6, <1>7, Larger
  <2>2. p * (2 * x) \in Int /\ p * m \in Int /\ (2 * p) * x = p * (2 * x)
        BY <1>1, <1>6, <1>7
  <2> QED BY <1>1, <1>6, <2>1, <2>2
<1>10. 2 ^ Len(t.calls) * (t.u - t.l + 1) <= t.n
      BY <1>4, <1>5, <1>6, <1>9 DEF x
<1>11. WaitingFit(t)
  <2>1. ASSUME NEW k \in 1..(d + 1) PROVE 2 ^ (k - 1) * (t.calls[k].u - t.calls[k].l + 1) <= t.n
    <3>1. CASE k = d + 1
      <4>1. k - 1 = d /\ t.calls[k] = large
            BY <1>1, <1>5, <3>1
      <4> QED BY <1>4, <1>8, <4>1 DEF p, y
    <3>2. CASE k \in 1..d
      <4>1. t.calls[k] = s.calls[k]
            BY <1>5, <3>2
      <4> QED BY <1>4, <3>2, <4>1 DEF Fits, WaitingFit
    <3> QED BY <1>1, <3>1, <3>2
  <2> QED BY <1>5, <2>1 DEF WaitingFit
<1>12. Shallow(Loop(b, t).s)
      BY <1>4, <1>10, <1>11, LoopShallow DEF Fits
<1> QED BY <1>2, <1>12

\* No answer of a comparison leads to a range that is too large for its depth.
LEMMA AfterShallow ==
    ASSUME NEW a, NEW s \in States, NEW less \in BOOLEAN, NEW strict \in BOOLEAN,
           s.pc \in Pcs, Shallow(s), Comparing(a, s, strict)
    PROVE  Shallow(After(a, s, less).s)
<1>1. Fits(s) /\ WaitingFit(s) /\ s.l < s.u /\ s.l \in Int /\ s.u \in Int
      BY Fields DEF Shallow, Fits, Comparing
<1>2. ASSUME NEW t, t.calls = s.calls /\ t.l = s.l /\ t.u = s.u /\ t.n = s.n, t.pc \in Pcs
      PROVE  Shallow(t)
      BY <1>1, <1>2, FitsAlso DEF Shallow
<1>3. \A b : Shallow(Median(b, s).s)
  <2> SUFFICES ASSUME NEW b PROVE Shallow(Median(b, s).s)
      OBVIOUS
  <2>1. CASE s.u - s.l = 2
        BY <1>1, <2>1, ReturnShallow DEF Median
  <2>2. CASE s.u - s.l # 2
    <3> DEFINE t == [s EXCEPT !.P = b[s.i], !.i = s.l + 1, !.j = s.u - 1, !.pc = "up"]
    <3>1. Median(b, s).s = t
          BY <2>2 DEF Median
    <3>2. t.calls = s.calls /\ t.l = s.l /\ t.u = s.u /\ t.n = s.n /\ t.pc \in Pcs
          BY DEF States, Pcs
    <3> HIDE DEF t
    <3>3. Shallow(t)
          BY <1>2, <3>2
    <3> QED BY <3>1, <3>3
  <2> QED BY <2>1, <2>2
<1>4. Shallow(Ends(a, s, less).s)
  <2>1. CASE s.u - s.l = 1
        BY <1>1, <2>1, ReturnShallow DEF Ends
  <2>2. CASE s.u - s.l # 1
    <3> DEFINE t == [s EXCEPT !.i = (s.l + s.u) \div 2, !.pc = "low"]
    <3>1. Ends(a, s, less).s = t
          BY <2>2 DEF Ends
    <3>2. t.calls = s.calls /\ t.l = s.l /\ t.u = s.u /\ t.n = s.n /\ t.pc \in Pcs
          BY DEF States, Pcs
    <3> HIDE DEF t
    <3>3. Shallow(t)
          BY <1>2, <3>2
    <3> QED BY <3>1, <3>3
  <2> QED BY <2>1, <2>2
<1>5. Shallow([s EXCEPT !.pc = "high"])
  <2> DEFINE t == [s EXCEPT !.pc = "high"]
  <2>1. t.calls = s.calls /\ t.l = s.l /\ t.u = s.u /\ t.n = s.n /\ t.pc \in Pcs
        BY DEF States, Pcs
  <2> HIDE DEF t
  <2>2. Shallow(t)
        BY <1>2, <2>1
  <2> QED BY <2>2 DEF t
<1>6. Shallow(Low(a, s, less).s)
      BY <1>3, <1>5 DEF Low
<1>7. Shallow(High(a, s, less).s)
      BY <1>3 DEF High
<1>8. Shallow([s EXCEPT !.j = @ - 1, !.pc = "down"])
  <2> DEFINE t == [s EXCEPT !.j = @ - 1, !.pc = "down"]
  <2>1. t.calls = s.calls /\ t.l = s.l /\ t.u = s.u /\ t.n = s.n /\ t.pc \in Pcs
        BY DEF States, Pcs
  <2> HIDE DEF t
  <2>2. Shallow(t)
        BY <1>2, <2>1
  <2> QED BY <2>2 DEF t
<1>9. Shallow([s EXCEPT !.i = @ + 1])
  <2> DEFINE t == [s EXCEPT !.i = @ + 1]
  <2>1. t.calls = s.calls /\ t.l = s.l /\ t.u = s.u /\ t.n = s.n /\ t.pc \in Pcs
        BY DEF States
  <2> HIDE DEF t
  <2>2. Shallow(t)
        BY <1>2, <2>1
  <2> QED BY <2>2 DEF t
<1>10. Shallow([s EXCEPT !.i = @ + 1, !.pc = "up"])
  <2> DEFINE t == [s EXCEPT !.i = @ + 1, !.pc = "up"]
  <2>1. t.calls = s.calls /\ t.l = s.l /\ t.u = s.u /\ t.n = s.n /\ t.pc \in Pcs
        BY DEF States, Pcs
  <2> HIDE DEF t
  <2>2. Shallow(t)
        BY <1>2, <2>1
  <2> QED BY <2>2 DEF t
<1>11. Shallow([s EXCEPT !.j = @ - 1])
  <2> DEFINE t == [s EXCEPT !.j = @ - 1]
  <2>1. t.calls = s.calls /\ t.l = s.l /\ t.u = s.u /\ t.n = s.n /\ t.pc \in Pcs
        BY DEF States
  <2> HIDE DEF t
  <2>2. Shallow(t)
        BY <1>2, <2>1
  <2> QED BY <2>2 DEF t
<1>12. Shallow(Over(s, "error"))
      BY OverShallow
<1>13. Shallow(Up(a, s, less).s)
      BY <1>8, <1>9, <1>12 DEF Up, Failed
<1>14. ASSUME s.pc = "down" PROVE Shallow(Down(a, s, less).s)
  <2>1. s.i \in (s.l + 1)..(s.u + 1)
        BY <1>14 DEF Comparing, Scanning
  <2>2. Shallow(Partitioned(a, s).s)
        BY <1>1, <2>1, PartitionedShallow
  <2> QED BY <1>10, <1>11, <1>12, <2>2 DEF Down, Failed
<1> QED BY <1>4, <1>6, <1>7, <1>13, <1>14 DEF After, Pcs

\* The recursion never gets deeper than it may.
LEMMA ShallowNext ==
    ASSUME ListInv, Shallow(sort), [Next]_vars
    PROVE  Shallow(sort)'
<1>1. ASSUME sort' = Idle PROVE Shallow(sort)'
  <2>1. Shallow(Idle)
        BY IdleIs DEF Shallow, Pcs
  <2> QED BY <1>1, <2>1
<1>2. CASE Listing
      BY <1>1, <1>2 DEF Listing, luaB_tinsert, luaB_tremove, Assign, luaB_setn, SetField
<1>3. CASE luaB_sort
  <2> DEFINE n == luaL_getn
             s == [Idle EXCEPT !.l = 1, !.u = n, !.n = n, !.before = arr]
  <2>1. n \in 0..MaxSize /\ arr \in Table
        BY <1>3, Length DEF luaB_sort
  <2>2. sort' = Loop(arr, s).s
        BY <1>3 DEF luaB_sort
  <2> HIDE DEF n
  <2>3. s \in States /\ s.l = 1 /\ s.u = n /\ s.n = n /\ s.calls = << >>
    <3>1. n \in Int
          BY <2>1, ListConstants
    <3> QED BY <2>1, <3>1, IdleIs DEF States
  <2> HIDE DEF s
  <2>4. Fits(s)
    <3>1. Len(s.calls) = 0 /\ 2 ^ 0 = 1 /\ 1 * (n - 1 + 1) = n
          BY <2>1, <2>3, ListConstants
    <3>2. 2 ^ Len(s.calls) * (s.u - s.l + 1) <= s.n
          BY <2>1, <2>3, <3>1, ListConstants
    <3> QED BY <3>1, <3>2 DEF Fits, WaitingFit
  <2> QED BY <2>2, <2>3, <2>4, LoopShallow
<1>4. ASSUME NEW less \in BOOLEAN, sort_comp(less) PROVE Shallow(sort)'
  <2> DEFINE strict == order = "strict"
  <2>1. sort.pc \in Pcs /\ sort.pc # "idle" /\ sort \in States
        BY <1>4 DEF sort_comp, Asking, Pcs, ListInv
  <2>2. Comparing(arr, sort, strict) /\ strict \in BOOLEAN
        BY <2>1 DEF ListInv, Known
  <2>3. sort' = After(arr, sort, less).s
        BY <1>4 DEF sort_comp
  <2> HIDE DEF strict
  <2> QED BY <2>1, <2>2, <2>3, AfterShallow
<1>5. CASE CompareFails
      BY <1>5, OverShallow DEF CompareFails
<1>6. CASE UNCHANGED vars
      BY <1>6 DEF vars
<1> QED BY <1>2, <1>3, <1>4, <1>5, <1>6 DEF Next, Sorting

\* auxsort sorts the smaller part by a recursive call and the larger one in its own loop:
\* for lists of every length, and whatever the comparisons answer, the calls that wait
\* are no more than the logarithm of the length.
THEOREM RecursionIsShallow == Spec => []DepthIsLogarithm
<1>1. Init => ListInv /\ Shallow(sort)
      BY InitKnown, IdleIs DEF Init, Shallow, Pcs
<1>2. (ListInv /\ Shallow(sort)) /\ [Next]_vars => (ListInv /\ Shallow(sort))'
      BY NextKnown, ShallowNext
<1>3. ListInv /\ Shallow(sort) => DepthIsLogarithm
  <2> SUFFICES ASSUME ListInv, Shallow(sort), sort.pc # "idle", sort.n > 0
               PROVE  2 ^ Len(sort.calls) <= sort.n
      BY DEF DepthIsLogarithm
  <2>1. sort \in States /\ Len(sort.calls) \in Nat /\ sort.n \in Int /\ sort.l \in Int /\ sort.u \in Int
        BY Fields, ListConstants DEF ListInv
  <2>2. CASE sort.pc \in Pcs
    <3> DEFINE p == 2 ^ Len(sort.calls)
               m == sort.u - sort.l + 1
    <3>1. p \in Nat /\ p * m <= sort.n
          BY <2>1, <2>2, Doubled DEF Shallow, Fits
    <3>2. sort.l < sort.u
          BY <2>2 DEF ListInv, Known, Comparing
    <3>3. m \in Int /\ 1 <= m
          BY <2>1, <3>2
    <3> HIDE DEF p, m
    <3>4. p * 1 <= p * m
          BY <3>1, <3>3, Larger
    <3>5. p * 1 = p /\ p * m \in Int
          BY <3>1, <3>3
    <3>6. p <= sort.n
          BY <2>1, <3>1, <3>4, <3>5
    <3> QED BY <3>6 DEF p
  <2>3. CASE sort.pc \notin Pcs
    <3>1. Len(sort.calls) = 0 /\ 2 ^ 0 = 1
          BY <2>3 DEF Shallow
    <3> QED BY <2>1, <3>1
  <2> QED BY <2>2, <2>3
<1> QED BY <1>1, <1>2, <1>3, PTL DEF Spec

-----------------------------------------------------------------------------
(* The lists of LuaList implement AbstractList, for lists of every length   *)
(* and of any values (Implements).                                          *)
(*                                                                          *)
(* Wherever the length is kept, insert and remove act on the sequence of    *)
(* the first luaL_getn elements.  Where it is counted that needs to know    *)
(* that nothing lies behind the first nil (Filled), which a sort that is    *)
(* under way must not disturb: it puts its elements in another order and    *)
(* touches no other (Shuffled).                                             *)

\* Where the length is counted there are no holes.
Filled == nfield = None /\ sizes = None /\ (order = "strict" \/ sort.pc = "idle") =>
              \E m \in 0..MaxSize : \A c \in Cells : arr[c] # Nil <=> c \in 1..m
\* sort knows the length while its comparisons are an order.
Current == order = "strict" /\ sort.pc # "idle" => sort.n = luaL_getn

RefinementInv == ListInv /\ Filled /\ Current

-----------------------------------------------------------------------------
(* Tables as sequences.                                                     *)

Upto(a, n) == [c \in 1..n |-> a[c]]

LEMMA UptoIsSeq ==
    ASSUME NEW a \in Table, NEW n \in 0..(MaxSize + 1)
    PROVE  /\ Upto(a, n) \in Seq(Cell) /\ Len(Upto(a, n)) = n /\ DOMAIN Upto(a, n) = 1..n
           /\ \A c \in 1..n : Upto(a, n)[c] = a[c]
<1>1. \A c \in 1..n : a[c] \in Cell
      BY ListConstants DEF Table, Cells
<1>2. Upto(a, n) \in [1..n -> Cell] /\ n \in Nat
      BY <1>1, ListConstants DEF Upto
<1>3. Upto(a, n) \in Seq(Cell)
      BY <1>2, SeqDef
<1>4. DOMAIN Upto(a, n) = 1..n /\ \A c \in 1..n : Upto(a, n)[c] = a[c]
      BY DEF Upto
<1>5. Len(Upto(a, n)) = n
      BY <1>2, <1>3, <1>4
<1> QED BY <1>3, <1>4, <1>5

\* A table in which the elements from pos on have moved up.
LEMMA Inserted ==
    ASSUME NEW a \in Table, NEW b \in Table, NEW n \in 0..MaxSize, NEW pos \in 1..(n + 1), NEW v \in Cell,
           \A c \in 1..(n + 1) : b[c] = IF c < pos THEN a[c] ELSE IF c = pos THEN v ELSE a[c - 1]
    PROVE  Upto(b, n + 1) = SubSeq(Upto(a, n), 1, pos - 1) \o <<v>> \o SubSeq(Upto(a, n), pos, Len(Upto(a, n)))
<1> DEFINE L == Upto(a, n)
           A == SubSeq(L, 1, pos - 1)
           C == SubSeq(L, pos, n)
           R == Upto(b, n + 1)
<1>0. n \in Nat /\ pos \in Nat
      BY ListConstants
<1>1. L \in Seq(Cell) /\ Len(L) = n /\ \A c \in 1..n : L[c] = a[c]
      BY UptoIsSeq, ListConstants
<1>2. R \in Seq(Cell) /\ Len(R) = n + 1 /\ \A c \in 1..(n + 1) : R[c] = b[c]
  <2>1. n + 1 \in 0..(MaxSize + 1)
        BY ListConstants
  <2> QED BY <2>1, UptoIsSeq
<1> HIDE DEF L, R
<1>3. \A c \in 1..n : L[c] \in Cell
      BY <1>1, ElementOfSeq
<1>4. A \in Seq(Cell) /\ Len(A) = pos - 1 /\ \A c \in 1..(pos - 1) : A[c] = L[c]
  <2>1. \A c \in 1..(pos - 1) : L[c] \in Cell
        BY <1>0, <1>3
  <2>2. A \in Seq(Cell) /\ Len(A) = (IF 1 <= pos - 1 THEN pos - 1 - 1 + 1 ELSE 0)
        /\ \A c \in 1..(pos - 1 - 1 + 1) : A[c] = L[1 + c - 1]
        BY <1>0, <2>1, SubSeqProperties
  <2> HIDE DEF A
  <2>3. Len(A) = pos - 1
        BY <1>0, <2>2
  <2>4. \A c \in 1..(pos - 1) : c \in 1..(pos - 1 - 1 + 1) /\ 1 + c - 1 = c
        BY <1>0
  <2> QED BY <2>2, <2>3, <2>4
<1>5. C \in Seq(Cell) /\ Len(C) = n - pos + 1 /\ \A c \in 1..(n - pos + 1) : C[c] = L[pos + c - 1]
  <2>1. \A c \in pos..n : L[c] \in Cell
        BY <1>0, <1>3
  <2>2. C \in Seq(Cell) /\ Len(C) = (IF pos <= n THEN n - pos + 1 ELSE 0)
        /\ \A c \in 1..(n - pos + 1) : C[c] = L[pos + c - 1]
        BY <1>0, <2>1, SubSeqProperties
  <2> HIDE DEF C
  <2> QED BY <1>0, <2>2
<1> HIDE DEF A, C
<1>6. /\ A \o <<v>> \in Seq(Cell) /\ Len(A \o <<v>>) = pos
      /\ \A c \in 1..pos : (A \o <<v>>)[c] = IF c <= pos - 1 THEN A[c] ELSE v
  <2>1. <<v>> \in Seq(Cell) /\ Len(<<v>>) = 1 /\ <<v>>[1] = v
        OBVIOUS
  <2>2. /\ A \o <<v>> \in Seq(Cell) /\ Len(A \o <<v>>) = Len(A) + Len(<<v>>)
        /\ \A c \in 1..(Len(A) + Len(<<v>>)) : (A \o <<v>>)[c] = IF c <= Len(A) THEN A[c] ELSE <<v>>[c - Len(A)]
        BY <1>4, <2>1, ConcatProperties
  <2>3. Len(A) + Len(<<v>>) = pos /\ \A c \in 1..pos : c <= pos - 1 \/ c - (pos - 1) = 1
        BY <1>0, <1>4, <2>1
  <2> QED BY <1>4, <2>1, <2>2, <2>3
<1> DEFINE B == A \o <<v>>
<1> HIDE DEF B
<1>7. /\ B \o C \in Seq(Cell) /\ Len(B \o C) = n + 1
      /\ \A c \in 1..(n + 1) : (B \o C)[c] = IF c <= pos THEN B[c] ELSE C[c - pos]
  <2>1. B \in Seq(Cell) /\ Len(B) = pos
        BY <1>6 DEF B
  <2>2. /\ B \o C \in Seq(Cell) /\ Len(B \o C) = Len(B) + Len(C)
        /\ \A c \in 1..(Len(B) + Len(C)) : (B \o C)[c] = IF c <= Len(B) THEN B[c] ELSE C[c - Len(B)]
        BY <1>5, <2>1, ConcatProperties
  <2>3. Len(B) + Len(C) = n + 1
        BY <1>0, <1>5, <2>1
  <2> QED BY <2>1, <2>2, <2>3
<1>8. ASSUME NEW c \in 1..(n + 1) PROVE R[c] = (B \o C)[c]
  <2>0. /\ c \in Nat /\ 1 <= c /\ c <= n + 1
        /\ R[c] = IF c < pos THEN a[c] ELSE IF c = pos THEN v ELSE a[c - 1]
        BY <1>0, <1>2
  <2>1. CASE c < pos
    <3>1. c \in 1..(pos - 1) /\ c \in 1..n /\ c \in 1..pos /\ c <= pos - 1 /\ c <= pos
          BY <1>0, <2>0, <2>1
    <3>2. (B \o C)[c] = B[c]
          BY <1>7, <3>1
    <3>3. B[c] = A[c]
          BY <1>6, <3>1 DEF B
    <3>4. A[c] = a[c]
          BY <1>1, <1>4, <3>1
    <3> QED BY <2>0, <2>1, <3>2, <3>3, <3>4
  <2>2. CASE c = pos
    <3>1. c \in 1..pos /\ ~(c <= pos - 1) /\ c <= pos
          BY <1>0, <2>2
    <3>2. (B \o C)[c] = B[c]
          BY <1>7, <3>1
    <3>3. B[c] = v
          BY <1>6, <3>1 DEF B
    <3> QED BY <1>0, <2>0, <2>2, <3>2, <3>3
  <2>3. CASE c > pos
    <3>1. c - pos \in 1..(n - pos + 1) /\ pos + (c - pos) - 1 = c - 1 /\ c - 1 \in 1..n /\ ~(c <= pos)
          BY <1>0, <2>0, <2>3
    <3>2. (B \o C)[c] = C[c - pos]
          BY <1>7, <3>1
    <3>3. C[c - pos] = a[c - 1]
          BY <1>1, <1>5, <3>1
    <3>4. ~(c < pos) /\ c # pos
          BY <1>0, <2>0, <2>3
    <3> QED BY <2>0, <3>2, <3>3, <3>4
  <2>4. c < pos \/ c = pos \/ c > pos
        BY <1>0, <2>0
  <2> QED BY <2>1, <2>2, <2>3, <2>4
<1>9. R = B \o C
      BY <1>2, <1>7, <1>8, SeqEqual
<1> QED BY <1>1, <1>9 DEF A, B, C, L, R

\* A table in which the elements behind pos have moved down.
LEMMA Removed ==
    ASSUME NEW a \in Table, NEW b \in Table, NEW n \in 1..MaxSize, NEW pos \in 1..n,
           \A c \in 1..(n - 1) : b[c] = IF c < pos THEN a[c] ELSE a[c + 1]
    PROVE  Upto(b, n - 1) = SubSeq(Upto(a, n), 1, pos - 1) \o SubSeq(Upto(a, n), pos + 1, Len(Upto(a, n)))
<1> DEFINE L == Upto(a, n)
           A == SubSeq(L, 1, pos - 1)
           C == SubSeq(L, pos + 1, n)
           R == Upto(b, n - 1)
<1>0. n \in Nat /\ pos \in Nat
      BY ListConstants
<1>1. L \in Seq(Cell) /\ Len(L) = n /\ \A c \in 1..n : L[c] = a[c]
      BY UptoIsSeq, ListConstants
<1>2. R \in Seq(Cell) /\ Len(R) = n - 1 /\ \A c \in 1..(n - 1) : R[c] = b[c]
  <2>1. n - 1 \in 0..(MaxSize + 1)
        BY ListConstants
  <2> QED BY <2>1, UptoIsSeq
<1> HIDE DEF L, R
<1>3. \A c \in 1..n : L[c] \in Cell
      BY <1>1, ElementOfSeq
<1>4. A \in Seq(Cell) /\ Len(A) = pos - 1 /\ \A c \in 1..(pos - 1) : A[c] = L[c]
  <2>1. \A c \in 1..(pos - 1) : L[c] \in Cell
        BY <1>0, <1>3
  <2>2. A \in Seq(Cell) /\ Len(A) = (IF 1 <= pos - 1 THEN pos - 1 - 1 + 1 ELSE 0)
        /\ \A c \in 1..(pos - 1 - 1 + 1) : A[c] = L[1 + c - 1]
        BY <1>0, <2>1, SubSeqProperties
  <2> HIDE DEF A
  <2>3. Len(A) = pos - 1
        BY <1>0, <2>2
  <2>4. \A c \in 1..(pos - 1) : c \in 1..(pos - 1 - 1 + 1) /\ 1 + c - 1 = c
        BY <1>0
  <2> QED BY <2>2, <2>3, <2>4
<1>5. C \in Seq(Cell) /\ Len(C) = n - pos /\ \A c \in 1..(n - pos) : C[c] = L[pos + c]
  <2>1. \A c \in (pos + 1)..n : L[c] \in Cell
        BY <1>0, <1>3
  <2>2. C \in Seq(Cell) /\ Len(C) = (IF pos + 1 <= n THEN n - (pos + 1) + 1 ELSE 0)
        /\ \A c \in 1..(n - (pos + 1) + 1) : C[c] = L[pos + 1 + c - 1]
        BY <1>0, <2>1, SubSeqProperties
  <2> HIDE DEF C
  <2>3. Len(C) = n - pos
        BY <1>0, <2>2
  <2>4. \A c \in 1..(n - pos) : c \in 1..(n - (pos + 1) + 1) /\ pos + 1 + c - 1 = pos + c
        BY <1>0
  <2> QED BY <2>2, <2>3, <2>4
<1> HIDE DEF A, C
<1>6. /\ A \o C \in Seq(Cell) /\ Len(A \o C) = n - 1
      /\ \A c \in 1..(n - 1) : (A \o C)[c] = IF c <= pos - 1 THEN A[c] ELSE C[c - (pos - 1)]
  <2>1. /\ A \o C \in Seq(Cell) /\ Len(A \o C) = Len(A) + Len(C)
        /\ \A c \in 1..(Len(A) + Len(C)) : (A \o C)[c] = IF c <= Len(A) THEN A[c] ELSE C[c - Len(A)]
        BY <1>4, <1>5, ConcatProperties
  <2>2. Len(A) + Len(C) = n - 1
        BY <1>0, <1>4, <1>5
  <2> QED BY <1>4, <2>1, <2>2
<1>7. ASSUME NEW c \in 1..(n - 1) PROVE R[c] = (A \o C)[c]
  <2>0. c \in Nat /\ 1 <= c /\ c <= n - 1 /\ R[c] = IF c < pos THEN a[c] ELSE a[c + 1]
        BY <1>0, <1>2
  <2>1. CASE c < pos
    <3>1. c \in 1..(pos - 1) /\ c \in 1..n /\ c <= pos - 1
          BY <1>0, <2>0, <2>1
    <3>2. (A \o C)[c] = A[c]
          BY <1>6, <3>1
    <3>3. A[c] = a[c]
          BY <1>1, <1>4, <3>1
    <3> QED BY <2>0, <2>1, <3>2, <3>3
  <2>2. CASE ~(c < pos)
    <3>1. c - (pos - 1) \in 1..(n - pos) /\ pos + (c - (pos - 1)) = c + 1 /\ c + 1 \in 1..n /\ ~(c <= pos - 1)
          BY <1>0, <2>0, <2>2
    <3>2. (A \o C)[c] = C[c - (pos - 1)]
          BY <1>6, <3>1
    <3>3. C[c - (pos - 1)] = a[c + 1]
          BY <1>1, <1>5, <3>1
    <3> QED BY <2>0, <2>2, <3>2, <3>3
  <2> QED BY <2>1, <2>2
<1>8. R = A \o C
      BY <1>2, <1>6, <1>7, SeqEqual
<1> QED BY <1>1, <1>8 DEF A, C, L, R

LEMMA Truncated ==
    ASSUME NEW a \in Table, NEW n \in 0..MaxSize, NEW m \in 0..n
    PROVE  Upto(a, m) = SubSeq(Upto(a, n), 1, m)
<1> DEFINE L == Upto(a, n)
           A == SubSeq(L, 1, m)
           R == Upto(a, m)
<1>0. n \in Nat /\ m \in Nat /\ m <= n
      BY ListConstants
<1>1. L \in Seq(Cell) /\ Len(L) = n /\ \A c \in 1..n : L[c] = a[c]
      BY UptoIsSeq, ListConstants
<1>2. R \in Seq(Cell) /\ Len(R) = m /\ \A c \in 1..m : R[c] = a[c]
  <2>1. m \in 0..(MaxSize + 1)
        BY ListConstants
  <2> QED BY <2>1, UptoIsSeq
<1> HIDE DEF L, R
<1>3. A \in Seq(Cell) /\ Len(A) = m /\ \A c \in 1..m : A[c] = L[c]
  <2>1. \A c \in 1..m : L[c] \in Cell
        BY <1>0, <1>1, ElementOfSeq
  <2>2. A \in Seq(Cell) /\ Len(A) = (IF 1 <= m THEN m - 1 + 1 ELSE 0) /\ \A c \in 1..(m - 1 + 1) : A[c] = L[1 + c - 1]
        BY <1>0, <2>1, SubSeqProperties
  <2> HIDE DEF A
  <2>3. Len(A) = m
        BY <1>0, <2>2
  <2>4. \A c \in 1..m : c \in 1..(m - 1 + 1) /\ 1 + c - 1 = c
        BY <1>0
  <2> QED BY <2>2, <2>3, <2>4
<1> HIDE DEF A
<1>4. \A c \in 1..m : c \in 1..n
      BY <1>0
<1>5. R = A
      BY <1>1, <1>2, <1>3, <1>4, SeqEqual
<1> QED BY <1>5 DEF A, L, R

LEMMA Assigned ==
    ASSUME NEW a \in Table, NEW n \in 0..MaxSize, NEW i \in 1..n, NEW v
    PROVE  Upto([a EXCEPT ![i] = v], n) = [Upto(a, n) EXCEPT ![i] = v]
<1>1. \A c \in 1..n : c \in Cells
      BY ListConstants DEF Cells
<1>2. \A c \in 1..n : [a EXCEPT ![i] = v][c] = IF c = i THEN v ELSE a[c]
      BY <1>1 DEF Table
<1> QED BY <1>2 DEF Upto

-----------------------------------------------------------------------------
(* Tables in another order.                                                 *)

\* b is a with its first n elements in another order.
Order(p, n) == p \in [1..n -> 1..n] /\ \A x, y \in 1..n : x # y => p[x] # p[y]
Shuffled(a, b, n) ==
    /\ \A c \in Cells : c \notin 1..n => b[c] = a[c]
    /\ \E p : Order(p, n) /\ \A c \in 1..n : b[c] = a[p[c]]

LEMMA ShuffledSame == ASSUME NEW a, NEW n \in Nat PROVE Shuffled(a, a, n)
<1> DEFINE p == [c \in 1..n |-> c]
<1>1. Order(p, n) /\ \A c \in 1..n : a[c] = a[p[c]]
      BY DEF Order
<1> QED BY <1>1 DEF Shuffled

LEMMA ShuffledTwice ==
    ASSUME NEW a, NEW b, NEW d, NEW n \in Nat, Shuffled(a, b, n), Shuffled(b, d, n)
    PROVE  Shuffled(a, d, n)
<1>1. PICK p : Order(p, n) /\ \A c \in 1..n : b[c] = a[p[c]]
      BY DEF Shuffled
<1>2. PICK q : Order(q, n) /\ \A c \in 1..n : d[c] = b[q[c]]
      BY DEF Shuffled
<1> DEFINE r == [c \in 1..n |-> p[q[c]]]
<1>3. p \in [1..n -> 1..n] /\ q \in [1..n -> 1..n]
      BY <1>1, <1>2 DEF Order
<1>4. \A c \in 1..n : q[c] \in 1..n /\ r[c] = p[q[c]]
      BY <1>3
<1>5. r \in [1..n -> 1..n]
      BY <1>3, <1>4
<1> HIDE DEF r
<1>6. \A x, y \in 1..n : x # y => r[x] # r[y]
      BY <1>1, <1>2, <1>4 DEF Order
<1>7. \A c \in 1..n : d[c] = a[r[c]]
      BY <1>1, <1>2, <1>4
<1>8. \A c \in Cells : c \notin 1..n => d[c] = a[c]
      BY DEF Shuffled
<1> QED BY <1>5, <1>6, <1>7, <1>8 DEF Order, Shuffled

LEMMA ShuffledSet2 ==
    ASSUME NEW a \in Table, NEW n \in 0..MaxSize, NEW i \in 1..n, NEW j \in 1..n
    PROVE  Shuffled(a, set2(a, i, j), n) /\ set2(a, i, j) \in Table
<1> DEFINE b == set2(a, i, j)
           p == [c \in 1..n |-> IF c = j THEN i ELSE IF c = i THEN j ELSE c]
<1>1. \A c \in 1..n : c \in Cells
      BY ListConstants DEF Cells
<1>2. b \in Table /\ \A c \in Cells : b[c] = IF c = j THEN a[i] ELSE IF c = i THEN a[j] ELSE a[c]
      BY <1>1, Set2
<1> HIDE DEF b
<1>3. \A c \in 1..n : p[c] = IF c = j THEN i ELSE IF c = i THEN j ELSE c
      OBVIOUS
<1>4. Order(p, n)
      BY DEF Order
<1> HIDE DEF p
<1>5. \A c \in 1..n : b[c] = a[p[c]]
      BY <1>1, <1>2, <1>3
<1>6. \A c \in Cells : c \notin 1..n => b[c] = a[c]
      BY <1>2
<1> QED BY <1>2, <1>4, <1>5, <1>6 DEF Shuffled, b

-----------------------------------------------------------------------------
(* Lengths, and the list a table stands for.                                *)

CountOf(a) == Cardinality({n \in 1..(MaxSize + 1) : \A c \in 1..n : a[c] # Nil})
LengthOf(a, field, size) == IF field # None THEN field ELSE IF size # None THEN size ELSE CountOf(a)
Abs == IF order = "any" /\ sort.pc # "idle" THEN Upto(sort.before, sort.n) ELSE Upto(arr, luaL_getn)

LEMMA LengthIs == /\ luaL_getn = LengthOf(arr, nfield, sizes)
                  /\ luaL_getn' = LengthOf(arr', nfield', sizes')
BY DEF luaL_getn, Counted, LengthOf, CountOf

\* Without holes the elements before the first nil are all there are.
FullTo(a, m) == \A c \in Cells : a[c] # Nil <=> c \in 1..m
LEMMA FilledCounts ==
    ASSUME NEW a, NEW m \in 0..MaxSize, FullTo(a, m)
    PROVE  CountOf(a) = m
<1> DEFINE S == {n \in 1..(MaxSize + 1) : \A c \in 1..n : a[c] # Nil}
<1>0. m \in Nat /\ MaxSize \in Nat /\ m <= MaxSize
      BY ListConstants
<1>1. ASSUME NEW n \in 1..(MaxSize + 1) PROVE n \in S <=> n \in 1..m
  <2>1. \A c \in 1..n : c \in Cells
        BY <1>0 DEF Cells
  <2>2. n \in 1..n /\ n \in Nat
        OBVIOUS
  <2>3. n \in S => n \in 1..m
        BY <2>1, <2>2 DEF FullTo
  <2>4. n \in 1..m => \A c \in 1..n : c \in 1..m
        BY <1>0
  <2> QED BY <2>1, <2>3, <2>4 DEF FullTo
<1>2. 1..m \subseteq 1..(MaxSize + 1) /\ S \subseteq 1..(MaxSize + 1)
      BY <1>0
<1> HIDE DEF S
<1>3. S = 1..m
      BY <1>1, <1>2
<1>4. Cardinality(1..m) = m
      BY <1>0, FS_Interval
<1> QED BY <1>3, <1>4 DEF CountOf, S

\* A length that luaL_setn sets is the one luaL_getn gives.
LEMMA SetnGetn ==
    ASSUME ListInv, NEW m \in 0..MaxSize, luaL_setn(m), sort' = Idle
    PROVE  luaL_getn' = m /\ Filled' /\ Current'
<1>1. m # None /\ m \in Nat
      BY ListConstants DEF None
<1>2. luaL_getn' = m /\ ~(nfield' = None /\ sizes' = None)
      BY <1>1, LengthIs DEF luaL_setn, LengthOf
<1> QED BY <1>2, IdleIs DEF Filled, Current

\* The list is that of the table while an edit is possible, and after it.
LEMMA QuietList == ASSUME Quiet PROVE Abs = Upto(arr, luaL_getn)
BY DEF Quiet, Abs
LEMMA IdleList == ASSUME sort' = Idle PROVE Abs' = Upto(arr', luaL_getn')
BY IdleIs DEF Abs, Upto

-----------------------------------------------------------------------------
(* The edits.                                                               *)

LEMMA InsertStep ==
    ASSUME RefinementInv, ListInv', NEW v \in Values, NEW pos \in 1..(luaL_getn + 1), luaB_tinsert(pos, v)
    PROVE  Filled' /\ Current' /\ List!Insert(pos, v) /\ pos \in 1..(Len(Abs) + 1)
<1> DEFINE n == luaL_getn
<1>1. /\ n \in 0..MaxSize /\ n < MaxSize /\ arr \in Table /\ arr' \in Table /\ v \in Cell
      BY Length DEF luaB_tinsert, RefinementInv, ListInv, Cell
<1>2. n + 1 \in 0..MaxSize /\ luaL_setn(n + 1) /\ sort' = Idle
      BY <1>1, ListConstants DEF luaB_tinsert
<1>3. luaL_getn' = n + 1 /\ Filled' /\ Current'
      BY <1>2, SetnGetn DEF RefinementInv
<1>4. arr' = [c \in Cells |-> IF c = pos THEN v ELSE IF c \in (pos + 1)..(n + 1) THEN arr[c - 1] ELSE arr[c]]
      BY DEF luaB_tinsert
<1>5. Abs = Upto(arr, n) /\ Abs' = Upto(arr', n + 1)
      BY <1>2, <1>3, QuietList, IdleList DEF luaB_tinsert
<1> HIDE DEF n
<1>6. n \in Nat /\ pos \in 1..(n + 1) /\ \A c \in 1..(n + 1) : c \in Cells
      BY <1>1, ListConstants DEF Cells, n
<1>7. \A c \in 1..(n + 1) : arr'[c] = IF c < pos THEN arr[c] ELSE IF c = pos THEN v ELSE arr[c - 1]
      BY <1>4, <1>6
<1>8. Abs' = SubSeq(Abs, 1, pos - 1) \o <<v>> \o SubSeq(Abs, pos, Len(Abs))
      BY <1>1, <1>5, <1>6, <1>7, Inserted
<1>9. Len(Abs) = n
  <2>1. n \in 0..(MaxSize + 1)
        BY <1>1, ListConstants
  <2> QED BY <1>1, <1>5, <2>1, UptoIsSeq
<1> QED BY <1>3, <1>6, <1>8, <1>9 DEF List!Insert, Abs, Upto

LEMMA RemoveStep ==
    ASSUME RefinementInv, ListInv', NEW pos \in 1..luaL_getn, luaB_tremove(pos)
    PROVE  Filled' /\ Current' /\ List!Remove(pos) /\ pos \in DOMAIN Abs
<1> DEFINE n == luaL_getn
<1>1. n \in 0..MaxSize /\ n > 0 /\ arr \in Table /\ arr' \in Table
      BY Length DEF luaB_tremove, RefinementInv, ListInv
<1>2. n - 1 \in 0..MaxSize /\ luaL_setn(n - 1) /\ sort' = Idle
      BY <1>1, ListConstants DEF luaB_tremove
<1>3. luaL_getn' = n - 1 /\ Filled' /\ Current'
      BY <1>2, SetnGetn DEF RefinementInv
<1>4. arr' = [c \in Cells |-> IF c \in pos..(n - 1) THEN arr[c + 1] ELSE IF c = n THEN Nil ELSE arr[c]]
      BY DEF luaB_tremove
<1>5. Abs = Upto(arr, n) /\ Abs' = Upto(arr', n - 1)
      BY <1>2, <1>3, QuietList, IdleList DEF luaB_tremove
<1>6. pos \in 1..n
      OBVIOUS
<1> HIDE DEF n
<1>7. n \in 1..MaxSize /\ n \in Nat /\ \A c \in 1..n : c \in Cells
      BY <1>1, ListConstants DEF Cells
<1>8. \A c \in 1..(n - 1) : arr'[c] = IF c < pos THEN arr[c] ELSE arr[c + 1]
      BY <1>4, <1>6, <1>7
<1>9. Abs' = SubSeq(Abs, 1, pos - 1) \o SubSeq(Abs, pos + 1, Len(Abs))
      BY <1>1, <1>5, <1>6, <1>7, <1>8, Removed
<1>10. pos \in DOMAIN Abs
      BY <1>5, <1>6 DEF Upto
<1> QED BY <1>3, <1>9, <1>10 DEF List!Remove, Abs, Upto

LEMMA SetnStep ==
    ASSUME RefinementInv, ListInv', NEW m \in 0..luaL_getn, luaB_setn(m)
    PROVE  Filled' /\ Current' /\ List!Truncate(m) /\ m \in 0..Len(Abs)
<1> DEFINE n == luaL_getn
<1>1. n \in 0..MaxSize /\ arr \in Table /\ arr' = arr
      BY Length DEF luaB_setn, RefinementInv, ListInv
<1>2. m \in 0..MaxSize /\ luaL_setn(m) /\ sort' = Idle
      BY <1>1, ListConstants DEF luaB_setn
<1>3. luaL_getn' = m /\ Filled' /\ Current'
      BY <1>2, SetnGetn DEF RefinementInv
<1>4. Abs = Upto(arr, n) /\ Abs' = Upto(arr, m) /\ m \in 0..n
      BY <1>1, <1>2, <1>3, QuietList, IdleList DEF luaB_setn
<1> HIDE DEF n
<1>5. Abs' = SubSeq(Abs, 1, m)
      BY <1>1, <1>4, Truncated
<1>6. Len(Abs) = n
  <2>1. n \in 0..(MaxSize + 1)
        BY <1>1, ListConstants
  <2> QED BY <1>1, <1>4, <2>1, UptoIsSeq
<1> QED BY <1>3, <1>4, <1>5, <1>6 DEF List!Truncate, Abs, Upto

LEMMA SetFieldStep ==
    ASSUME RefinementInv, SetField
    PROVE  Filled' /\ Current' /\ Abs' = Abs
<1>1. luaL_getn \in 0..MaxSize /\ arr' = arr /\ sort' = Idle /\ nfield' = luaL_getn
      BY Length DEF SetField, RefinementInv
<1>2. nfield' # None
      BY <1>1, ListConstants DEF None
<1>3. luaL_getn' = luaL_getn
      BY <1>1, <1>2, LengthIs DEF LengthOf
<1>4. Abs' = Abs
      BY <1>1, <1>3, QuietList, IdleList DEF SetField
<1> QED BY <1>1, <1>2, <1>4, IdleIs DEF Filled, Current

LEMMA AssignStep ==
    ASSUME RefinementInv, ListInv', NEW v \in Values, NEW i \in 1..(luaL_getn + 1), i <= MaxSize, Assign(i, v)
    PROVE  /\ Filled' /\ Current'
           /\ (i \in DOMAIN Abs /\ List!Assign(i, v)) \/ (i \in 1..(Len(Abs) + 1) /\ List!Insert(i, v))
<1> DEFINE n == luaL_getn
           counted == nfield = None /\ sizes = None
<1>1. n \in 0..MaxSize /\ arr \in Table /\ arr' \in Table
      BY Length DEF Assign, RefinementInv, ListInv
<1>2. /\ arr' = [arr EXCEPT ![i] = v] /\ sort' = Idle /\ nfield' = nfield /\ sizes' = sizes
      /\ i <= n \/ counted
      BY DEF Assign
<1>3. v # Nil /\ v \in Cell
      BY ListConstants DEF Nil, Cell
<1>4. Abs = Upto(arr, n) /\ Abs' = Upto(arr', luaL_getn')
      BY <1>2, QuietList, IdleList DEF Assign
<1>5. n = LengthOf(arr, nfield, sizes) /\ luaL_getn' = LengthOf(arr', nfield, sizes)
      BY <1>2, LengthIs
<1>6. counted => FullTo(arr, n)
  <2> SUFFICES ASSUME counted PROVE FullTo(arr, n)
      OBVIOUS
  <2>0. Filled /\ (order = "strict" \/ sort.pc = "idle")
        BY DEF RefinementInv, ListInv, Quiet, Assign
  <2>1. PICK m \in 0..MaxSize : FullTo(arr, m)
    <3>1. \E m \in 0..MaxSize : \A c \in Cells : arr[c] # Nil <=> c \in 1..m
          BY <2>0 DEF Filled
    <3> QED BY <3>1, Zenon DEF FullTo
  <2>2. n = m
        BY <1>5, <2>1, FilledCounts DEF LengthOf
  <2> QED BY <2>1, <2>2
<1>7. Current'
      BY <1>2, IdleIs DEF Current
<1>8. i \in 1..(n + 1)
      OBVIOUS
<1> HIDE DEF n
<1>9. n \in Nat /\ i \in Cells
      BY <1>1, <1>8, ListConstants DEF Cells
<1>10. \A c \in Cells : arr'[c] = IF c = i THEN v ELSE arr[c]
      BY <1>1, <1>2, <1>9 DEF Table
<1>11. CASE i <= n
  <2>1. i \in 1..n
        BY <1>8, <1>9, <1>11
  <2>2. counted => FullTo(arr', n)
        BY <1>3, <1>6, <1>10, <2>1 DEF FullTo
  <2>3. luaL_getn' = n
        BY <1>1, <1>5, <2>2, FilledCounts DEF LengthOf
  <2>4. Filled'
        BY <1>1, <1>2, <2>2 DEF Filled, FullTo
  <2>5. Abs' = [Abs EXCEPT ![i] = v]
    <3>1. Upto([arr EXCEPT ![i] = v], n) = [Upto(arr, n) EXCEPT ![i] = v]
          BY <1>1, <2>1, Assigned
    <3>2. Abs' = Upto([arr EXCEPT ![i] = v], n)
          BY <1>2, <1>4, <2>3, Zenon
    <3> QED BY <1>4, <3>1, <3>2, Zenon
  <2>6. i \in DOMAIN Abs
        BY <1>4, <2>1 DEF Upto
  <2> QED BY <1>7, <2>4, <2>5, <2>6 DEF List!Assign, Abs, Upto
<1>12. CASE ~(i <= n)
  <2>1. i = n + 1 /\ counted /\ i \in 0..MaxSize /\ n + 1 \in 0..MaxSize
        BY <1>2, <1>8, <1>9, <1>12, ListConstants
  <2>2. \A c \in Cells : c \in 1..(n + 1) <=> c \in 1..n \/ c = n + 1
        BY <1>9
  <2>3. FullTo(arr', n + 1)
        BY <1>3, <1>6, <1>10, <2>1, <2>2 DEF FullTo
  <2>4. luaL_getn' = n + 1
        BY <1>5, <2>1, <2>3, FilledCounts DEF LengthOf
  <2>5. Filled'
        BY <1>2, <2>1, <2>3 DEF Filled, FullTo
  <2>6. \A c \in 1..(n + 1) : arr'[c] = IF c < i THEN arr[c] ELSE IF c = i THEN v ELSE arr[c - 1]
    <3>1. \A c \in 1..(n + 1) : c \in Cells /\ (c < i \/ c = i)
          BY <1>1, <1>9, <2>1, ListConstants DEF Cells
    <3>2. ~(i < i) /\ \A c \in 1..(n + 1) : c < i => c # i
          BY <1>9, <2>1
    <3> QED BY <1>10, <3>1, <3>2
  <2>7. Upto(arr', n + 1) = SubSeq(Upto(arr, n), 1, i - 1) \o <<v>> \o SubSeq(Upto(arr, n), i, Len(Upto(arr, n)))
        BY <1>1, <1>3, <1>8, <2>6, Inserted
  <2>8. Len(Abs) = n
    <3>1. n \in 0..(MaxSize + 1)
          BY <1>1, ListConstants
    <3> QED BY <1>1, <1>4, <3>1, UptoIsSeq
  <2> QED BY <1>4, <1>7, <1>8, <2>4, <2>5, <2>7, <2>8 DEF List!Insert, Abs, Upto
<1> QED BY <1>11, <1>12

-----------------------------------------------------------------------------
(* Sorting with an order exchanges elements of the list.                    *)

LEMMA MedianShuffles ==
    ASSUME NEW a, NEW b \in Table, NEW s \in States, s.l >= 1, s.u <= s.n,
           s.u - s.l >= 2, s.i \in (s.l + 1)..(s.u - 1), Shuffled(a, b, s.n)
    PROVE  Shuffled(a, Median(b, s).a, s.n)
<1>1. CASE s.u - s.l = 2
      BY <1>1, LoopRemembers DEF Median
<1>2. CASE s.u - s.l # 2
  <2>1. Median(b, s).a = set2(b, s.i, s.u - 1)
        BY <1>2 DEF Median
  <2>2. s.i \in 1..s.n /\ s.u - 1 \in 1..s.n /\ s.n \in 0..MaxSize /\ s.n \in Nat
        BY Fields, ListConstants
  <2>3. Shuffled(b, set2(b, s.i, s.u - 1), s.n)
        BY <2>2, ShuffledSet2
  <2> QED BY <2>1, <2>2, <2>3, ShuffledTwice
<1> QED BY <1>1, <1>2

LEMMA PartitionedShuffles ==
    ASSUME NEW a \in Table, NEW s \in States, s.i \in 1..s.n, s.u - 1 \in 1..s.n
    PROVE  Shuffled(a, Partitioned(a, s).a, s.n)
<1> DEFINE i == s.i
           small == IF i - s.l < s.u - i THEN [l |-> s.l, u |-> i - 1] ELSE [l |-> i + 1, u |-> s.u]
           large == IF i - s.l < s.u - i THEN [l |-> i + 1, u |-> s.u] ELSE [l |-> s.l, u |-> i - 1]
           b == set2(a, s.u - 1, i)
           t == [s EXCEPT !.l = small.l, !.u = small.u, !.calls = Append(@, large)]
<1>1. Partitioned(a, s) = Loop(b, t)
      BY DEF Partitioned
<1>2. small.l \in Int /\ small.u \in Int /\ large \in Span
      BY Fields DEF Span
<1> HIDE DEF small, large
<1>3. Append(s.calls, large) \in Seq(Span)
      BY <1>2, Fields
<1>4. t \in States
      BY <1>2, <1>3 DEF States
<1> HIDE DEF t
<1>5. Partitioned(a, s).a = b
      BY <1>1, <1>4, LoopRemembers
<1> QED BY <1>5, Fields, ShuffledSet2

LEMMA AfterShuffles ==
    ASSUME NEW a, NEW s, NEW less \in BOOLEAN, s.pc \in Pcs, Comparing(a, s, TRUE)
    PROVE  Shuffled(a, After(a, s, less).a, s.n)
<1>1. /\ a \in Table /\ s \in States /\ 1 <= s.l /\ s.u <= s.n /\ s.l < s.u
      BY DEF Comparing, Looping, Kept
<1>2. /\ s.l \in Int /\ s.u \in Int /\ s.i \in Int /\ s.j \in Int /\ s.n \in 0..MaxSize /\ s.n \in Nat
      BY <1>1, Fields, ListConstants
<1>3. s.l \in 1..s.n /\ s.u \in 1..s.n /\ Shuffled(a, a, s.n)
      BY <1>1, <1>2, ShuffledSame
<1>4. CASE s.pc = "ends"
  <2> DEFINE b == IF less THEN set2(a, s.l, s.u) ELSE a
  <2>1. Shuffled(a, b, s.n)
        BY <1>1, <1>2, <1>3, ShuffledSet2
  <2>2. Ends(a, s, less).a = b
        BY <1>1, LoopRemembers DEF Ends
  <2> QED BY <1>4, <2>1, <2>2 DEF After
<1>5. CASE s.pc \in {"low", "high"}
  <2>1. s.u - s.l >= 2 /\ s.i \in (s.l + 1)..(s.u - 1)
        BY <1>5 DEF Comparing, AtMedian
  <2>2. s.i \in 1..s.n
        BY <1>1, <1>2, <2>1
  <2>3. \A b \in Table : Shuffled(a, b, s.n) => Shuffled(a, Median(b, s).a, s.n)
        BY <1>1, <2>1, MedianShuffles
  <2>4. /\ Shuffled(a, set2(a, s.i, s.l), s.n) /\ set2(a, s.i, s.l) \in Table
        /\ Shuffled(a, set2(a, s.i, s.u), s.n) /\ set2(a, s.i, s.u) \in Table
        BY <1>1, <1>2, <1>3, <2>2, ShuffledSet2
  <2>5. Shuffled(a, Low(a, s, less).a, s.n)
        BY <1>1, <1>3, <2>3, <2>4 DEF Low
  <2>6. Shuffled(a, High(a, s, less).a, s.n)
        BY <1>1, <1>3, <2>3, <2>4 DEF High
  <2> QED BY <1>5, <2>5, <2>6 DEF After
<1>6. CASE s.pc = "up"
  <2>1. Up(a, s, less).a = a
        BY DEF Up, Failed
  <2> QED BY <1>3, <1>6, <2>1 DEF After
<1>7. CASE s.pc = "down"
  <2>1. s.u - s.l >= 3 /\ s.i \in (s.l + 1)..(s.u + 1) /\ s.j \in (s.l - 1)..(s.u - 2) /\ s.i <= s.u - 1
        BY <1>7 DEF Comparing, Scanning
  <2>2. s.i \in 1..s.n /\ s.u - 1 \in 1..s.n
        BY <1>1, <1>2, <2>1
  <2>3. CASE less
    <3>1. Down(a, s, less).a = a
          BY <2>3 DEF Down, Failed
    <3> QED BY <1>3, <1>7, <3>1 DEF After
  <2>4. CASE ~less /\ s.j < s.i
    <3>1. Down(a, s, less) = Partitioned(a, s)
          BY <2>4 DEF Down
    <3>2. After(a, s, less) = Partitioned(a, s)
          BY <1>7, <3>1 DEF After
    <3> QED BY <1>1, <2>2, <3>2, PartitionedShuffles
  <2>5. CASE ~less /\ ~(s.j < s.i)
    <3>1. s.j \in 1..s.n
          BY <1>1, <1>2, <2>1, <2>2, <2>5
    <3>2. Down(a, s, less).a = set2(a, s.i, s.j)
          BY <2>5 DEF Down
    <3>3. After(a, s, less).a = set2(a, s.i, s.j)
          BY <1>7, <3>2 DEF After
    <3> QED BY <1>1, <1>2, <2>2, <3>1, <3>3, ShuffledSet2
  <2> QED BY <2>3, <2>4, <2>5
<1> QED BY <1>4, <1>5, <1>6, <1>7 DEF Pcs

LEMMA SortStarts ==
    ASSUME RefinementInv, luaB_sort
    PROVE  Filled' /\ Current' /\ Abs' = Abs
<1> DEFINE n == luaL_getn
           s == [Idle EXCEPT !.l = 1, !.u = n, !.n = n, !.before = arr]
<1>1. n \in 0..MaxSize /\ arr \in Table /\ Quiet
      BY Length DEF luaB_sort, RefinementInv
<1>2. sort' = Loop(arr, s).s /\ arr' = arr /\ nfield' = nfield /\ sizes' = sizes
      BY DEF luaB_sort
<1>3. luaL_getn' = n
      BY <1>2, LengthIs
<1>4. order = "strict" \/ sort.pc = "idle"
      BY <1>1 DEF Quiet, RefinementInv, ListInv
<1>5. Abs = Upto(arr, n)
      BY <1>1, QuietList
<1> HIDE DEF n
<1>6. s \in States /\ s.n = n /\ s.before = arr
  <2>1. n \in Int
        BY <1>1, ListConstants
  <2> QED BY <1>1, <2>1, IdleIs DEF States
<1> HIDE DEF s
<1>7. sort'.before = arr /\ sort'.n = n
      BY <1>2, <1>6, LoopRemembers DEF Remembers
<1>8. Filled'
      BY <1>2, <1>4 DEF RefinementInv, Filled
<1>9. Current'
      BY <1>3, <1>7 DEF Current
<1>10. Abs' = Abs
      BY <1>2, <1>3, <1>5, <1>7 DEF Abs
<1> QED BY <1>8, <1>9, <1>10

LEMMA CompareStep ==
    ASSUME RefinementInv, ListInv', NEW less \in BOOLEAN, sort_comp(less)
    PROVE  Filled' /\ Current' /\ (Abs' = Abs \/ List!Rearranged(Abs', Abs))
<1> DEFINE n == sort.n
<1>1. /\ sort.pc \in Pcs /\ sort.pc # "idle" /\ sort \in States /\ arr \in Table /\ arr' \in Table
      /\ order \in {"strict", "any"}
      BY DEF sort_comp, Asking, Pcs, RefinementInv, ListInv
<1>2. /\ arr' = After(arr, sort, less).a /\ sort' = After(arr, sort, less).s
      /\ nfield' = nfield /\ sizes' = sizes /\ order' = order
      BY DEF sort_comp
<1>3. sort'.before = sort.before /\ sort'.n = n /\ sort'.pc # "idle"
      BY <1>1, <1>2, AfterRemembers DEF Remembers
<1>4. n \in 0..MaxSize /\ n \in Nat
      BY <1>1, Fields, ListConstants
<1>5. CASE order = "any"
  <2>1. Abs' = Abs
        BY <1>1, <1>2, <1>3, <1>5 DEF Abs
  <2> QED BY <1>2, <1>3, <1>5, <2>1 DEF Filled, Current
<1>6. CASE order = "strict"
  <2>1. Comparing(arr, sort, TRUE)
        BY <1>1, <1>6 DEF RefinementInv, ListInv, Known
  <2>2. Shuffled(arr, arr', n)
        BY <1>1, <1>2, <2>1, AfterShuffles
  <2>3. luaL_getn = n
        BY <1>1, <1>6 DEF RefinementInv, Current
  <2> HIDE DEF n
  <2>4. PICK p : Order(p, n) /\ \A c \in 1..n : arr'[c] = arr[p[c]]
        BY <2>2 DEF Shuffled
  <2>5. \A c \in 1..n : c \in Cells /\ p[c] \in 1..n
        BY <1>4, <2>4, ListConstants DEF Order, Cells
  <2>6. ASSUME nfield = None, sizes = None PROVE FullTo(arr, n) /\ FullTo(arr', n)
    <3>1. \E m \in 0..MaxSize : \A c \in Cells : arr[c] # Nil <=> c \in 1..m
          BY <1>6, <2>6 DEF RefinementInv, Filled
    <3>2. PICK m \in 0..MaxSize : FullTo(arr, m)
          BY <3>1, Zenon DEF FullTo
    <3>3. CountOf(arr) = m /\ luaL_getn = CountOf(arr)
          BY <2>6, <3>2, FilledCounts, LengthIs DEF LengthOf
    <3>4. FullTo(arr, n)
          BY <2>3, <3>2, <3>3
    <3>5. \A c \in Cells : c \notin 1..n => arr'[c] = arr[c]
          BY <2>2 DEF Shuffled
    <3>6. FullTo(arr', n)
          BY <2>4, <2>5, <3>4, <3>5 DEF FullTo
    <3> QED BY <3>4, <3>6
  <2>7. Filled'
    <3>1. nfield = None /\ sizes = None => \E m \in 0..MaxSize : FullTo(arr', m)
          BY <1>4, <2>6
    <3> QED BY <1>2, <3>1 DEF Filled, FullTo
  <2>8. luaL_getn' = n
    <3>1. nfield = None /\ sizes = None => CountOf(arr) = n /\ CountOf(arr') = n
          BY <1>4, <2>6, FilledCounts
    <3> QED BY <1>2, <2>3, <3>1, LengthIs DEF LengthOf
  <2>9. Current'
        BY <1>3, <2>8 DEF Current
  <2>10. Abs = Upto(arr, n) /\ Abs' = Upto(arr', n)
        BY <1>2, <1>6, <2>3, <2>8 DEF Abs
  <2>11. List!Rearranged(Upto(arr', n), Upto(arr, n))
    <3> DEFINE x == Upto(arr', n)
               y == Upto(arr, n)
    <3>0. n \in 0..(MaxSize + 1)
          BY <1>4, ListConstants
    <3>1. /\ Len(x) = n /\ DOMAIN x = 1..n /\ \A c \in 1..n : x[c] = arr'[c]
          /\ Len(y) = n /\ DOMAIN y = 1..n /\ \A c \in 1..n : y[c] = arr[c]
          BY <1>1, <3>0, UptoIsSeq
    <3> HIDE DEF x, y
    <3>2. \A c \in DOMAIN x : x[c] = y[p[c]]
          BY <2>4, <2>5, <3>1
    <3>3. p \in [DOMAIN x -> DOMAIN x] /\ \A c, d \in DOMAIN x : c # d => p[c] # p[d]
          BY <2>4, <3>1 DEF Order
    <3>4. List!Rearranged(x, y)
          BY <3>1, <3>2, <3>3 DEF List!Rearranged
    <3> QED BY <3>4 DEF x, y
  <2> QED BY <2>7, <2>9, <2>10, <2>11
<1> QED BY <1>1, <1>5, <1>6

LEMMA FailStep ==
    ASSUME RefinementInv, CompareFails
    PROVE  Filled' /\ Current' /\ Abs' = Abs
<1>1. sort.pc # "idle" /\ sort \in States
      BY DEF CompareFails, Asking, RefinementInv, ListInv
<1>2. arr' = arr /\ sort' = Over(sort, "error") /\ nfield' = nfield /\ sizes' = sizes /\ order' = order
      BY DEF CompareFails
<1>3. sort'.before = sort.before /\ sort'.n = sort.n /\ sort'.pc # "idle"
      BY <1>1, <1>2, OverIs
<1>4. luaL_getn' = luaL_getn
      BY <1>2, LengthIs
<1>5. Filled' /\ Current'
      BY <1>1, <1>2, <1>3, <1>4 DEF RefinementInv, Filled, Current
<1>6. Abs' = Abs
      BY <1>1, <1>2, <1>3, <1>4 DEF Abs
<1> QED BY <1>5, <1>6

-----------------------------------------------------------------------------
(* The theorem.                                                             *)

AbsNext == List!Next \/ Abs' = Abs

LEMMA StepKnown == RefinementInv /\ [Next]_vars => RefinementInv' /\ AbsNext
<1> SUFFICES ASSUME RefinementInv, [Next]_vars PROVE Filled' /\ Current' /\ AbsNext
    BY NextKnown DEF RefinementInv
<1>0. ListInv'
      BY NextKnown DEF RefinementInv
<1>1. ASSUME NEW v \in Values, NEW pos \in 1..(luaL_getn + 1), luaB_tinsert(pos, v)
      PROVE  Filled' /\ Current' /\ AbsNext
  <2>1. Filled' /\ Current' /\ List!Insert(pos, v) /\ pos \in 1..(Len(Abs) + 1)
        BY <1>0, <1>1, InsertStep
  <2> QED BY <2>1 DEF AbsNext, List!Next, Abs, Upto
<1>2. ASSUME NEW v \in Values, NEW i \in 1..(luaL_getn + 1), i <= MaxSize, Assign(i, v)
      PROVE  Filled' /\ Current' /\ AbsNext
  <2>1. /\ Filled' /\ Current'
        /\ (i \in DOMAIN Abs /\ List!Assign(i, v)) \/ (i \in 1..(Len(Abs) + 1) /\ List!Insert(i, v))
        BY <1>0, <1>2, AssignStep
  <2> QED BY <2>1 DEF AbsNext, List!Next, Abs, Upto
<1>3. ASSUME NEW pos \in 1..luaL_getn, luaB_tremove(pos)
      PROVE  Filled' /\ Current' /\ AbsNext
  <2>1. Filled' /\ Current' /\ List!Remove(pos) /\ pos \in DOMAIN Abs
        BY <1>0, <1>3, RemoveStep
  <2> QED BY <2>1 DEF AbsNext, List!Next, Abs, Upto
<1>4. ASSUME NEW m \in 0..luaL_getn, luaB_setn(m)
      PROVE  Filled' /\ Current' /\ AbsNext
  <2>1. Filled' /\ Current' /\ List!Truncate(m) /\ m \in 0..Len(Abs)
        BY <1>0, <1>4, SetnStep
  <2> QED BY <2>1 DEF AbsNext, List!Next, Abs, Upto
<1>5. CASE SetField
      BY <1>5, SetFieldStep DEF AbsNext
<1>6. CASE luaB_sort
      BY <1>6, SortStarts DEF AbsNext
<1>7. ASSUME NEW less \in BOOLEAN, sort_comp(less)
      PROVE  Filled' /\ Current' /\ AbsNext
  <2>1. Filled' /\ Current' /\ (Abs' = Abs \/ List!Rearranged(Abs', Abs))
        BY <1>0, <1>7, CompareStep
  <2> QED BY <2>1 DEF AbsNext, List!Next, Abs, Upto
<1>8. CASE CompareFails
      BY <1>8, FailStep DEF AbsNext
<1>9. CASE UNCHANGED vars
  <2>1. arr' = arr /\ nfield' = nfield /\ sizes' = sizes /\ order' = order /\ sort' = sort
        BY <1>9 DEF vars
  <2>2. luaL_getn' = luaL_getn
        BY <2>1, LengthIs
  <2> QED BY <2>1, <2>2 DEF RefinementInv, Filled, Current, AbsNext, Abs
<1> QED BY <1>1, <1>2, <1>3, <1>4, <1>5, <1>6, <1>7, <1>8, <1>9 DEF Next, Listing, Sorting

LEMMA StartKnown == Init => RefinementInv /\ List!Init
<1> SUFFICES ASSUME Init PROVE RefinementInv /\ List!Init
    OBVIOUS
<1>1. /\ arr = [c \in Cells |-> Nil] /\ nfield = None /\ sizes = None /\ order = "strict" /\ sort = Idle
      BY DEF Init
<1>2. sort.pc = "idle" /\ 0 \in 0..MaxSize
      BY <1>1, IdleIs, ListConstants
<1>3. FullTo(arr, 0)
      BY <1>1 DEF FullTo
<1>4. Filled /\ Current
      BY <1>2, <1>3 DEF Filled, Current, FullTo
<1>5. luaL_getn = 0
      BY <1>1, <1>2, <1>3, FilledCounts, LengthIs DEF LengthOf
<1>6. arr \in Table
      BY InitKnown DEF ListInv
<1>7. Upto(arr, 0) = << >>
  <2>1. 0 \in 0..(MaxSize + 1)
        BY ListConstants
  <2>2. Upto(arr, 0) \in Seq(Cell) /\ Len(Upto(arr, 0)) = 0
        BY <1>6, <2>1, UptoIsSeq
  <2> QED BY <2>2, EmptySeq
<1>8. Abs = << >>
      BY <1>1, <1>2, <1>5, <1>7 DEF Abs
<1> QED BY <1>4, <1>8, InitKnown DEF RefinementInv, List!Init, Abs, Upto

\* luaB_tinsert, luaB_tremove, luaL_setn, auxsort: for lists of every length and of any
\* values, whichever way the length is kept and whatever the comparisons answer, a table
\* is the sequence that its operations make of it, and sort rearranges it at most.
THEOREM Implements == Spec => IsList
<1>1. Init => RefinementInv /\ List!Init
      BY StartKnown
<1>2. RefinementInv /\ [Next]_vars => RefinementInv'
      BY StepKnown
<1>3. RefinementInv /\ [Next]_vars =>
          [List!Next]_(IF order = "any" /\ sort.pc # "idle" THEN [c \in 1..sort.n |-> sort.before[c]]
                       ELSE [c \in 1..luaL_getn |-> arr[c]])
      BY StepKnown DEF AbsNext, Abs, Upto
<1> QED BY <1>1, <1>2, <1>3, PTL DEF Spec, IsList, List!Spec
=============================================================================
