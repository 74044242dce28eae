--------------------------- MODULE CDependsProofs ---------------------------
(***************************************************************************)
(* Proofs about the dependency scanner of CDepends, for any tree of files  *)
(* and any includes: what it lists for a C rule is what the compiler reads *)
(* (Complete, Sound), where the two search the same places.                *)
(*                                                                         *)
(* SearchesAgree says when they do; each part of it is a place where       *)
(* c.pm and the preprocessor would differ.  FindsAlike shows that under it *)
(* one directive leads both to the same file.  The invariants carry this   *)
(* over to the depth-first search: each file on the list is read by the    *)
(* compiler, and each directive of such a file has been followed, or is    *)
(* behind the line that the file on the stack has come to.                 *)
(***************************************************************************)
EXTENDS CDepends, SequenceTheorems, FiniteSetTheorems, WellFoundedInduction, TLAPS

-----------------------------------------------------------------------------
(* What a path denotes.                                                    *)

(* A set of numbers has a least one.                                       *)
LEMMA Least ==
  ASSUME NEW T \in SUBSET Nat, T # {}
  PROVE  \E n \in T : \A m \in T : n <= m
<1>1. PICK n \in T : \A m \in T : <<m, n>> \notin OpToRel(<, Nat)
  BY NatLessThanWellFounded, WFMin, Zenon
<1>2. \A m \in T : ~(m < n)
  BY <1>1 DEF OpToRel
<1>3. \A m \in T : n <= m
  BY <1>2
<1>4. QED BY <1>3

(* Where the walk along a path is after n names.                           *)
Along(w, path, N) ==
  w = [n \in 0..N |-> IF n = 0 THEN <<>> ELSE Entry[w[n - 1]][path[n]]]

(* The same, point by point.                                               *)
LEMMA AlongPoints ==
  ASSUME NEW w, NEW path, NEW N \in Nat, Along(w, path, N)
  PROVE  /\ DOMAIN w = 0..N /\ w[0] = <<>>
         /\ \A n \in 1..N : w[n] = Entry[w[n - 1]][path[n]]
<1>1. w = [n \in 0..N |-> IF n = 0 THEN <<>> ELSE Entry[w[n - 1]][path[n]]]
  BY DEF Along
<1>2. DOMAIN w = 0..N
  BY <1>1, Zenon
<1>3. \A n \in 0..N : w[n] = IF n = 0 THEN <<>> ELSE Entry[w[n - 1]][path[n]]
  BY <1>1, Zenon
<1>4. 0 \in 0..N /\ \A n \in 1..N : n \in 0..N /\ n # 0
  OBVIOUS
<1>5. QED BY <1>2, <1>3, <1>4, Zenon

(* Every path can be walked along.                                         *)
LEMMA CanWalk ==
  ASSUME NEW path, NEW N \in Nat
  PROVE  \E w : Along(w, path, N)
<1> DEFINE T == {n \in Nat : ~\E w : Along(w, path, n)}
<1>1. SUFFICES ASSUME T # {} PROVE FALSE
  OBVIOUS
<1>2. T \in SUBSET Nat
  OBVIOUS
<1>3. PICK n \in T : \A m \in T : n <= m
  <2> HIDE DEF T
  <2>1. QED BY <1>1, <1>2, Least
<1>4. n # 0
  <2> DEFINE w == [k \in 0..0 |-> <<>>]
  <2>1. Along(w, path, 0)
    <3>1. \A k \in 0..0 : k = 0
      OBVIOUS
    <3>2. w = [k \in 0..0 |-> IF k = 0 THEN <<>> ELSE Entry[w[k - 1]][path[k]]]
      BY <3>1
    <3>3. QED BY <3>2 DEF Along
  <2>2. QED BY <1>3, <2>1
<1>5. n \in Nat \ {0} /\ n - 1 \in Nat /\ n - 1 \notin T
  <2>1. n \in Nat /\ n - 1 \in Nat /\ ~(n <= n - 1)
    BY <1>3, <1>4
  <2> HIDE DEF T
  <2>2. QED BY <1>3, <1>4, <2>1
<1>6. PICK w : Along(w, path, n - 1)
  BY <1>5
<1>7. /\ DOMAIN w = 0..(n - 1) /\ w[0] = <<>>
      /\ \A k \in 1..(n - 1) : w[k] = Entry[w[k - 1]][path[k]]
  BY <1>5, <1>6, AlongPoints
<1> DEFINE v == [k \in 0..n |-> IF k = n THEN Entry[w[n - 1]][path[n]] ELSE w[k]]
<1>8. \A k \in 0..n : v[k] = IF k = 0 THEN <<>> ELSE Entry[v[k - 1]][path[k]]
  <2>1. TAKE k \in 0..n
  <2>2. k = 0 \/ k = n \/ k \in 1..(n - 1)
    BY <1>5
  <2>3. CASE k = 0
    BY <1>5, <1>7, <2>3
  <2>4. CASE k = n
    <3>1. v[n] = Entry[w[n - 1]][path[n]] /\ v[n - 1] = w[n - 1]
      BY <1>5
    <3>2. QED BY <1>5, <2>4, <3>1
  <2>5. CASE k \in 1..(n - 1)
    <3>1. v[k] = w[k] /\ v[k - 1] = w[k - 1]
      BY <1>5, <2>5
    <3>2. QED BY <1>5, <1>7, <2>5, <3>1
  <2>6. QED BY <2>2, <2>3, <2>4, <2>5
<1>9. v = [k \in 0..n |-> IF k = 0 THEN <<>> ELSE Entry[v[k - 1]][path[k]]]
  <2>1. v = [k \in 0..n |-> v[k]]
    BY Zenon
  <2> HIDE DEF v
  <2>2. QED BY <1>8, <2>1, Zenon
<1>10. Along(v, path, n)
  BY <1>9 DEF Along
<1>11. QED BY <1>3, <1>10

(* There is one walk, and names further along do not matter to it.         *)
LEMMA OneWalk ==
  ASSUME NEW p, NEW q, NEW w, NEW v, NEW M \in Nat, NEW N \in Nat,
         Along(w, p, M), Along(v, q, N), M <= N, \A k \in 1..M : p[k] = q[k]
  PROVE  \A n \in 0..M : w[n] = v[n]
<1> DEFINE T == {n \in 0..M : w[n] # v[n]}
<1>1. SUFFICES ASSUME T # {} PROVE FALSE
  OBVIOUS
<1>2. T \in SUBSET Nat
  OBVIOUS
<1>3. PICK n \in T : \A m \in T : n <= m
  <2> HIDE DEF T
  <2>1. QED BY <1>1, <1>2, Least
<1>4. /\ w[0] = <<>> /\ \A k \in 1..M : w[k] = Entry[w[k - 1]][p[k]]
      /\ v[0] = <<>> /\ \A k \in 1..N : v[k] = Entry[v[k - 1]][q[k]]
  BY AlongPoints
<1>5. n \in 1..M /\ n \in 1..N /\ n - 1 \in 0..M /\ ~(n <= n - 1)
  <2>1. n \in 0..M /\ w[n] # v[n]
    BY <1>3
  <2>2. n # 0
    BY <1>4, <2>1
  <2>3. QED BY <2>1, <2>2
<1>6. w[n - 1] = v[n - 1]
  <2>1. n - 1 \notin T
    <3> HIDE DEF T
    <3>1. QED BY <1>3, <1>5
  <2>2. QED BY <1>5, <2>1
<1>7. w[n] = v[n]
  BY <1>4, <1>5, <1>6
<1>8. QED BY <1>3, <1>7

(* Real by a walk.                                                         *)
LEMMA RealByWalk ==
  ASSUME NEW path \in Path
  PROVE  \E w : Along(w, path, Len(path)) /\ Real(path) = w[Len(path)]
<1> DEFINE walk == CHOOSE w : w = [n \in 0..Len(path) |-> IF n = 0 THEN <<>> ELSE Entry[w[n - 1]][path[n]]]
<1>1. Real(path) = walk[Len(path)]
  BY DEF Real
<1>2. \E w : w = [n \in 0..Len(path) |-> IF n = 0 THEN <<>> ELSE Entry[w[n - 1]][path[n]]]
  <2>1. Len(path) \in Nat
    BY DEF Path
  <2>2. QED BY <2>1, CanWalk DEF Along
<1>3. Along(walk, path, Len(path))
  BY <1>2 DEF Along
<1>4. QED BY <1>1, <1>3

(* A sequence but its last element, and that.                              *)
LEMMA FrontLast ==
  ASSUME NEW S, NEW p \in Seq(S), p # <<>>
  PROVE  /\ Front(p) \in Seq(S) /\ Len(p) \in Nat \ {0} /\ Len(Front(p)) = Len(p) - 1
         /\ \A i \in 1..(Len(p) - 1) : Front(p)[i] = p[i]
         /\ Last(p) \in S /\ Last(p) = p[Len(p)] /\ p = Append(Front(p), Last(p))
<1> DEFINE n == Len(p)
           q == SubSeq(p, 1, n - 1)
           x == p[n]
<1>1. n \in Nat \ {0}
  BY EmptySeq
<1>2. \A i \in 1..n : p[i] \in S
  BY ElementOfSeq
<1>3. q \in Seq(S) /\ Len(q) = n - 1 /\ \A i \in 1..(n - 1) : q[i] = p[i]
  <2>1. 1 \in Int /\ n - 1 \in Int /\ \A i \in 1..(n - 1) : p[i] \in S
    BY <1>1, <1>2
  <2>2. /\ q \in Seq(S) /\ Len(q) = IF 1 <= n - 1 THEN n - 1 - 1 + 1 ELSE 0
        /\ \A i \in 1..(n - 1 - 1 + 1) : q[i] = p[1 + i - 1]
    BY <2>1, SubSeqProperties
  <2> HIDE DEF q, n
  <2>3. n - 1 - 1 + 1 = n - 1 /\ \A i \in 1..(n - 1) : 1 + i - 1 = i
    BY <1>1
  <2>4. Len(q) = n - 1
    BY <1>1, <2>2
  <2>5. \A i \in 1..(n - 1) : q[i] = p[i]
    BY <2>2, <2>3
  <2>6. QED BY <2>2, <2>4, <2>5
<1>4. x \in S
  BY <1>1, <1>2
<1>5. Front(p) = q /\ Last(p) = x
  BY DEF Front, Last
<1> HIDE DEF q, x
<1>6. p = Append(q, x)
  <2>1. /\ Append(q, x) \in Seq(S) /\ Len(Append(q, x)) = n /\ Append(q, x)[n] = x
        /\ \A i \in 1..(n - 1) : Append(q, x)[i] = q[i]
    BY <1>1, <1>3, <1>4
  <2>2. \A i \in 1..n : i = n \/ i \in 1..(n - 1)
    BY <1>1
  <2>3. \A i \in 1..n : p[i] = Append(q, x)[i]
    BY <1>3, <2>1, <2>2 DEF x
  <2>4. QED BY <2>1, <2>3, SeqEqual
<1>7. QED BY <1>1, <1>3, <1>4, <1>5, <1>6 DEF x

(* The same for a sequence that got one element more.                      *)
LEMMA FrontOfAppend ==
  ASSUME NEW S, NEW p \in Seq(S), NEW x \in S
  PROVE  /\ Append(p, x) \in Seq(S) /\ Append(p, x) # <<>> /\ Len(Append(p, x)) = Len(p) + 1
         /\ Front(Append(p, x)) = p /\ Last(Append(p, x)) = x
<1>1. /\ Append(p, x) \in Seq(S) /\ Len(Append(p, x)) = Len(p) + 1 /\ Len(p) \in Nat
      /\ Append(p, x)[Len(p) + 1] = x /\ \A i \in 1..Len(p) : Append(p, x)[i] = p[i]
  OBVIOUS
<1>2. Append(p, x) # <<>>
  BY <1>1, EmptySeq
<1> DEFINE a == Append(p, x)
<1>3. /\ Front(a) \in Seq(S) /\ Len(Front(a)) = Len(a) - 1
      /\ \A i \in 1..(Len(a) - 1) : Front(a)[i] = a[i]
      /\ Last(a) = a[Len(a)]
  BY <1>1, <1>2, FrontLast
<1> HIDE DEF a
<1>4. Len(Front(a)) = Len(p) /\ \A i \in 1..Len(Front(a)) : Front(a)[i] = p[i]
  BY <1>1, <1>3 DEF a
<1>5. Front(a) = p
  BY <1>3, <1>4, SeqEqual
<1>6. QED BY <1>1, <1>2, <1>3, <1>5 DEF a

(* A longer name goes on where the shorter one ends.                       *)
LEMMA ConcatAppend ==
  ASSUME NEW S, NEW p \in Seq(S), NEW q \in Seq(S), NEW x \in S
  PROVE  p \o Append(q, x) = Append(p \o q, x) /\ p \o q \in Seq(S)
<1> DEFINE a == p \o Append(q, x)
           b == Append(p \o q, x)
<1>1. /\ p \o q \in Seq(S) /\ Len(p \o q) = Len(p) + Len(q)
      /\ \A i \in 1..(Len(p) + Len(q)) : (p \o q)[i] = IF i <= Len(p) THEN p[i] ELSE q[i - Len(p)]
  BY ConcatProperties
<1>2. /\ Append(q, x) \in Seq(S) /\ Len(Append(q, x)) = Len(q) + 1 /\ Len(p) \in Nat /\ Len(q) \in Nat
      /\ Append(q, x)[Len(q) + 1] = x /\ \A i \in 1..Len(q) : Append(q, x)[i] = q[i]
  OBVIOUS
<1>3. /\ a \in Seq(S) /\ Len(a) = Len(p) + (Len(q) + 1)
      /\ \A i \in 1..(Len(p) + (Len(q) + 1)) : a[i] = IF i <= Len(p) THEN p[i] ELSE Append(q, x)[i - Len(p)]
  BY <1>2, ConcatProperties
<1> DEFINE c == p \o q
<1> HIDE DEF c
<1>4. /\ Append(c, x) \in Seq(S) /\ Len(Append(c, x)) = Len(p) + Len(q) + 1
      /\ Append(c, x)[Len(p) + Len(q) + 1] = x /\ \A i \in 1..(Len(p) + Len(q)) : Append(c, x)[i] = c[i]
  <2>1. c \in Seq(S) /\ Len(c) = Len(p) + Len(q)
    BY <1>1 DEF c
  <2>2. QED BY <2>1
<1>5. b = Append(c, x)
  BY DEF c
<1>6. /\ b \in Seq(S) /\ Len(b) = Len(a) /\ b[Len(p) + Len(q) + 1] = x
      /\ \A i \in 1..(Len(p) + Len(q)) : b[i] = (p \o q)[i]
  <2> HIDE DEF a, b
  <2>1. QED BY <1>2, <1>3, <1>4, <1>5 DEF c
<1> HIDE DEF a, b
<1>7. ASSUME NEW i \in 1..Len(a) PROVE a[i] = b[i]
  <2>1. i \in Nat /\ i \in 1..(Len(p) + (Len(q) + 1))
    BY <1>2, <1>3
  <2>2. CASE i <= Len(p)
    <3>1. i \in 1..(Len(p) + Len(q))
      BY <1>2, <2>1, <2>2
    <3>2. QED BY <1>1, <1>3, <1>6, <2>1, <2>2, <3>1
  <2>3. CASE ~(i <= Len(p)) /\ i <= Len(p) + Len(q)
    <3>1. i \in 1..(Len(p) + Len(q)) /\ i - Len(p) \in 1..Len(q)
      BY <1>2, <2>1, <2>3
    <3>2. a[i] = q[i - Len(p)]
      BY <1>2, <1>3, <2>1, <2>3, <3>1
    <3>3. b[i] = q[i - Len(p)]
      BY <1>1, <1>6, <2>3, <3>1
    <3>4. QED BY <3>2, <3>3
  <2>4. CASE i = Len(p) + Len(q) + 1
    <3>1. i - Len(p) = Len(q) + 1 /\ ~(i <= Len(p))
      BY <1>2, <2>4
    <3>2. a[i] = x
      BY <1>2, <1>3, <2>1, <3>1
    <3>3. QED BY <1>6, <2>4, <3>2
  <2>5. i <= Len(p) \/ (~(i <= Len(p)) /\ i <= Len(p) + Len(q)) \/ i = Len(p) + Len(q) + 1
    BY <1>2, <2>1
  <2>6. QED BY <2>2, <2>3, <2>4, <2>5
<1>8. a = b
  BY <1>3, <1>6, <1>7, SeqEqual
<1>9. QED BY <1>1, <1>8 DEF a, b

(* The current directory.                                                  *)
LEMMA RealEmpty == <<>> \in Path /\ Real(<<>>) = <<>>
<1>1. <<>> \in Path /\ Len(<<>>) = 0
  BY EmptySeq DEF Path
<1>2. PICK w : Along(w, <<>>, Len(<<>>)) /\ Real(<<>>) = w[Len(<<>>)]
  BY <1>1, RealByWalk
<1>3. Along(w, <<>>, 0) /\ Real(<<>>) = w[0] /\ 0 \in Nat
  BY <1>1, <1>2
<1>4. w[0] = <<>>
  BY <1>3, AlongPoints
<1>5. QED BY <1>1, <1>3, <1>4

(* One name more.                                                          *)
LEMMA RealAppend ==
  ASSUME NEW p \in Path, NEW x \in Name
  PROVE  Append(p, x) \in Path /\ Real(Append(p, x)) = Entry[Real(p)][x]
<1> DEFINE q == Append(p, x)
           n == Len(p)
<1>1. /\ q \in Path /\ n \in Nat /\ Len(q) = n + 1 /\ q[n + 1] = x /\ \A k \in 1..n : p[k] = q[k]
  BY DEF Path
<1> HIDE DEF q
<1>2. PICK w : Along(w, p, n) /\ Real(p) = w[n]
  BY RealByWalk
<1>3. PICK v : Along(v, q, n + 1) /\ Real(q) = v[n + 1]
  <2>1. \E v : Along(v, q, Len(q)) /\ Real(q) = v[Len(q)]
    BY <1>1, RealByWalk
  <2>2. QED BY <1>1, <2>1
<1> HIDE DEF n
<1>4. n + 1 \in Nat /\ n <= n + 1 /\ n \in 0..n /\ n + 1 \in 1..(n + 1) /\ (n + 1) - 1 = n
  BY <1>1
<1>5. w[n] = v[n]
  <2>1. \A k \in 0..n : w[k] = v[k]
    BY <1>1, <1>2, <1>3, <1>4, OneWalk
  <2>2. QED BY <1>4, <2>1
<1>6. v[n + 1] = Entry[v[n]][q[n + 1]]
  <2>1. \A k \in 1..(n + 1) : v[k] = Entry[v[k - 1]][q[k]]
    BY <1>3, <1>4, AlongPoints
  <2>2. v[n + 1] = Entry[v[(n + 1) - 1]][q[n + 1]]
    BY <1>4, <2>1
  <2>3. QED BY <1>4, <2>2
<1>7. QED BY <1>1, <1>2, <1>3, <1>5, <1>6 DEF q

-----------------------------------------------------------------------------
(* The tree.                                                               *)

(* What a directory contains.                                              *)
LEMMA EntryIs ==
  ASSUME NEW d \in Place, NEW x \in Name
  PROVE  LET place == IF x = Up THEN Front(d) ELSE Append(d, x)
         IN  Entry[d][x] = IF d \in Directory /\ (x = Up => d # <<>>) /\ place \in Place THEN place ELSE Nowhere
<1> DEFINE at(e, name) ==
             LET place == IF name = Up THEN Front(e) ELSE Append(e, name)
             IN  IF e \in Directory /\ (name = Up => e # <<>>) /\ place \in Place THEN place ELSE Nowhere
<1>1. Entry = [e \in Place |-> [name \in Name |-> at(e, name)]]
  BY DEF Entry
<1> HIDE DEF at
<1>2. Entry[d] = [name \in Name |-> at(d, name)]
  BY <1>1, Zenon
<1>3. Entry[d][x] = at(d, x)
  BY <1>2, Zenon
<1>4. QED BY <1>3, Zenon DEF at

(* One name leads to a place of the tree, or nowhere.                      *)
LEMMA EntryInPlace ==
  ASSUME NEW d \in Place, NEW x \in Name
  PROVE  Entry[d][x] \in Place
<1> DEFINE place == IF x = Up THEN Front(d) ELSE Append(d, x)
<1>1. Entry[d][x] = IF d \in Directory /\ (x = Up => d # <<>>) /\ place \in Place THEN place ELSE Nowhere
  BY EntryIs
<1> HIDE DEF place
<1>2. QED BY <1>1 DEF Place

(* A file lies in a directory, and ".." is none.                           *)
LEMMA EntryFile ==
  ASSUME NEW d \in Place, NEW x \in Name, Entry[d][x] \in File
  PROVE  d \in Directory /\ Front(Entry[d][x]) = d /\ Entry[d][x] = Append(d, x)
<1> DEFINE place == IF x = Up THEN Front(d) ELSE Append(d, x)
<1>1. Entry[d][x] = IF d \in Directory /\ (x = Up => d # <<>>) /\ place \in Place THEN place ELSE Nowhere
  BY EntryIs
<1> HIDE DEF place
<1>2. d \in Directory /\ (x = Up => d # <<>>) /\ Entry[d][x] = place
  BY <1>1, Tree
<1>3. x # Up
  <2>1. ASSUME x = Up PROVE FALSE
    <3>1. d # <<>> /\ place = Front(d)
      BY <1>2, <2>1 DEF place
    <3>2. Front(d) \in Directory
      BY <1>2, <3>1, Tree
    <3>3. QED BY <1>2, <3>1, <3>2, Tree
  <2>2. QED BY <2>1
<1>4. place = Append(d, x)
  BY <1>3 DEF place
<1>5. Front(Append(d, x)) = d
  <2>1. d \in Seq(Name)
    BY <1>2, Tree DEF Path
  <2>2. QED BY <2>1, FrontOfAppend
<1>6. QED BY <1>2, <1>4, <1>5

(* Every path ends somewhere in the tree, or nowhere.                      *)
LEMMA RealInPlace ==
  ASSUME NEW p \in Path
  PROVE  Real(p) \in Place
<1> DEFINE T == {n \in Nat : \E q \in Path : Len(q) = n /\ Real(q) \notin Place}
<1>1. SUFFICES ASSUME Real(p) \notin Place PROVE FALSE
  OBVIOUS
<1>2. T \in SUBSET Nat /\ T # {}
  <2>1. Len(p) \in T
    BY <1>1 DEF Path
  <2>2. QED BY <2>1
<1>3. PICK n \in T : \A m \in T : n <= m
  <2> HIDE DEF T
  <2>1. QED BY <1>2, Least
<1>4. PICK q \in Path : Len(q) = n /\ Real(q) \notin Place
  BY <1>3
<1>5. q # <<>>
  BY <1>4, RealEmpty, Tree DEF Place
<1>6. /\ Front(q) \in Path /\ Len(q) \in Nat \ {0} /\ Len(Front(q)) = Len(q) - 1
      /\ Last(q) \in Name /\ q = Append(Front(q), Last(q))
  BY <1>5, FrontLast DEF Path
<1> DEFINE f == Front(q)
           x == Last(q)
<1> HIDE DEF f, x
<1>7. f \in Path /\ x \in Name /\ q = Append(f, x) /\ Len(f) \in Nat /\ ~(n <= Len(f))
  BY <1>4, <1>6 DEF f, x
<1>8. Real(f) \in Place
  <2>1. Len(f) \notin T
    <3> HIDE DEF T
    <3>1. QED BY <1>3, <1>7
  <2>2. QED BY <1>7, <2>1
<1>9. Real(q) = Entry[Real(f)][x]
  BY <1>7, RealAppend
<1>10. QED BY <1>4, <1>7, <1>8, <1>9, EntryInPlace

(* A directory is what its canonical path denotes.                         *)
LEMMA RealDirectory ==
  ASSUME NEW d \in Directory
  PROVE  Real(d) = d
<1> DEFINE T == {n \in Nat : \E e \in Directory : Len(e) = n /\ Real(e) # e}
<1>1. SUFFICES ASSUME Real(d) # d PROVE FALSE
  OBVIOUS
<1>2. T \in SUBSET Nat /\ T # {}
  <2>1. Len(d) \in T
    <3>1. d \in Path
      BY Tree
    <3>2. QED BY <1>1, <3>1 DEF Path
  <2>2. QED BY <2>1
<1>3. PICK n \in T : \A m \in T : n <= m
  <2> HIDE DEF T
  <2>1. QED BY <1>2, Least
<1>4. PICK e \in Directory : Len(e) = n /\ Real(e) # e
  BY <1>3
<1>5. e # <<>> /\ e \in Path
  BY <1>4, RealEmpty, Tree
<1>6. /\ Front(e) \in Path /\ Len(e) \in Nat \ {0} /\ Len(Front(e)) = Len(e) - 1
      /\ Last(e) \in Name /\ e = Append(Front(e), Last(e))
  BY <1>5, FrontLast DEF Path
<1>7. Front(e) \in Directory /\ Last(e) # Up
  BY <1>5, Tree
<1> DEFINE f == Front(e)
           x == Last(e)
<1> HIDE DEF f, x
<1>8. /\ f \in Path /\ x \in Name /\ x # Up /\ e = Append(f, x) /\ f \in Directory
      /\ Len(f) \in Nat /\ ~(n <= Len(f))
  BY <1>4, <1>6, <1>7 DEF f, x
<1>9. Real(f) = f
  <2>1. Len(f) \notin T
    <3> HIDE DEF T
    <3>1. QED BY <1>3, <1>8
  <2>2. QED BY <1>8, <2>1
<1>10. Real(e) = Entry[f][x]
  BY <1>8, <1>9, RealAppend
<1>11. Entry[f][x] = e
  <2>1. f \in Place /\ e \in Place
    BY <1>8 DEF Place
  <2>2. Entry[f][x] = IF f \in Directory /\ (x = Up => f # <<>>) /\ Append(f, x) \in Place THEN Append(f, x) ELSE Nowhere
    BY <1>8, <2>1, EntryIs
  <2>3. QED BY <1>8, <2>1, <2>2
<1>12. QED BY <1>4, <1>10, <1>11

(* What follows a name does not depend on how it was spelled.              *)
LEMMA SamePlace ==
  ASSUME NEW p \in Path, NEW q \in Path, NEW r \in Path, Real(p) = Real(q)
  PROVE  Real(p \o r) = Real(q \o r)
<1> DEFINE T == {n \in Nat : \E s \in Path : Len(s) = n /\ Real(p \o s) # Real(q \o s)}
<1>1. SUFFICES ASSUME Real(p \o r) # Real(q \o r) PROVE FALSE
  OBVIOUS
<1>2. T \in SUBSET Nat /\ T # {}
  <2>1. Len(r) \in T
    BY <1>1 DEF Path
  <2>2. QED BY <2>1
<1>3. PICK n \in T : \A m \in T : n <= m
  <2> HIDE DEF T
  <2>1. QED BY <1>2, Least
<1>4. PICK s \in Path : Len(s) = n /\ Real(p \o s) # Real(q \o s)
  BY <1>3
<1>5. s # <<>>
  <2>1. p \o <<>> = p /\ q \o <<>> = q
    BY ConcatEmptySeq DEF Path
  <2>2. QED BY <1>4, <2>1
<1>6. /\ Front(s) \in Path /\ Len(s) \in Nat \ {0} /\ Len(Front(s)) = Len(s) - 1
      /\ Last(s) \in Name /\ s = Append(Front(s), Last(s))
  BY <1>5, FrontLast DEF Path
<1> DEFINE f == Front(s)
           x == Last(s)
<1> HIDE DEF f, x
<1>7. f \in Path /\ x \in Name /\ s = Append(f, x) /\ Len(f) \in Nat /\ ~(n <= Len(f))
  BY <1>4, <1>6 DEF f, x
<1>8. Real(p \o f) = Real(q \o f)
  <2>1. Len(f) \notin T
    <3> HIDE DEF T
    <3>1. QED BY <1>3, <1>7
  <2>2. QED BY <1>7, <2>1
<1>9. /\ p \o s = Append(p \o f, x) /\ p \o f \in Path
      /\ q \o s = Append(q \o f, x) /\ q \o f \in Path
  <2>1. /\ p \o Append(f, x) = Append(p \o f, x) /\ p \o f \in Path
        /\ q \o Append(f, x) = Append(q \o f, x) /\ q \o f \in Path
    BY <1>7, ConcatAppend DEF Path
  <2>2. QED BY <1>7, <2>1
<1>10. Real(p \o s) = Entry[Real(p \o f)][x] /\ Real(q \o s) = Entry[Real(q \o f)][x]
  BY <1>7, <1>9, RealAppend
<1>11. QED BY <1>4, <1>8, <1>10

(* dirname() of the name of a file denotes the directory of that file.     *)
LEMMA DirOfFile ==
  ASSUME NEW p \in Path, Exists(p)
  PROVE  /\ Real(p) \in File /\ Front(Real(p)) \in Directory /\ Real(p) # <<>>
         /\ p # <<>> /\ Front(p) \in Path /\ Real(Front(p)) = Front(Real(p))
         /\ Len(p) = 1 => Len(Real(p)) = 1
<1>1. Real(p) \in File
  BY DEF Exists
<1>2. p # <<>> /\ Real(p) # <<>>
  BY <1>1, RealEmpty, Tree
<1>3. /\ Front(p) \in Path /\ Len(p) \in Nat \ {0} /\ Len(Front(p)) = Len(p) - 1
      /\ Last(p) \in Name /\ p = Append(Front(p), Last(p))
  BY <1>2, FrontLast DEF Path
<1> DEFINE f == Front(p)
           x == Last(p)
<1>4. Real(p) = Entry[Real(f)][x] /\ Real(f) \in Place
  BY <1>3, RealAppend, RealInPlace
<1>5. Real(f) \in Directory /\ Front(Real(p)) = Real(f) /\ Real(p) = Append(Real(f), x)
  BY <1>1, <1>3, <1>4, EntryFile
<1>6. ASSUME Len(p) = 1 PROVE Len(Real(p)) = 1
  <2>1. f = <<>>
    BY <1>3, <1>6, EmptySeq DEF Path
  <2>2. Real(p) = Append(<<>>, x)
    BY <1>5, <2>1, RealEmpty
  <2>3. <<>> \in Seq(Name) /\ Len(<<>>) = 0
    BY EmptySeq
  <2>4. Len(Append(<<>>, x)) = Len(<<>>) + 1
    BY <1>3, <2>3, FrontOfAppend
  <2>5. QED BY <2>2, <2>3, <2>4
<1>7. QED BY <1>1, <1>2, <1>3, <1>5, <1>6

-----------------------------------------------------------------------------
(* The scanner and the preprocessor search the same places.                *)

(* The directives of a file, in any text it may have.                      *)
Directives(f) == UNION {Range(t[f]) : t \in Texts}

(* What a rule compiles is there.                                          *)
InputsExist == \A r \in Rule : Exists(Input[r])

(* What lies in the current directory includes nothing: c.pm:95 does not   *)
(* find the directory of a file whose name has no slash.                   *)
NotInRoot == \A f \in File : Directives(f) # {} => Len(f) > 1

(* A name in angle brackets is not that of a file beside the one that      *)
(* includes it, where only the scanner looks (c.pm:97).                    *)
AngledElsewhere ==
  \A f \in File : \A d \in Directives(f) : d.quoted \/ ~Exists(Front(f) \o d.name)

(* Rules that compile the same file do so with the same flags: the list is *)
(* remembered for the file (c.pm:80).                                      *)
OneSetOfFlags ==
  \A r, s \in Rule : Input[r] = Input[s] => Includes[r] = Includes[s] /\ Dynamic[r] = Dynamic[s]

(* A directory of dynamic headers, which the scanner does not search,      *)
(* provides only dynamic headers, which include nothing and hide no other  *)
(* header of the name.                                                     *)
DynamicLeaves ==
  \A r \in Rule, f \in File : \A d \in Directives(f), h \in Range(Dynamic[r]) :
    LET path == DirOf(h) \o d.name
    IN  Exists(path) /\ ~Exists(Front(f) \o d.name) =>
          /\ Real(path) \in {Real(g) : g \in Range(Dynamic[r])}
          /\ Directives(Real(path)) = {}
          /\ \A dir \in Range(Includes[r]) : ~Exists(dir \o d.name)

SearchesAgree ==
  InputsExist /\ NotInRoot /\ AngledElsewhere /\ OneSetOfFlags /\ DynamicLeaves

(* Min is the least number of a set.                                       *)
LEMMA MinIs ==
  ASSUME NEW T \in SUBSET Nat, T # {}
  PROVE  Min(T) \in T /\ \A n \in T : Min(T) <= n
<1>1. \E n \in T : \A m \in T : n <= m
  BY Least
<1>2. QED BY <1>1 DEF Min

(* What is found is in the first directory that has it.                    *)
LEMMA FoundFirst ==
  ASSUME NEW dirs \in Seq(Path), NEW name, Found(dirs, name) # {}
  PROVE  \E i \in 1..Len(dirs) :
           /\ Exists(dirs[i] \o name) /\ Found(dirs, name) = {Real(dirs[i] \o name)}
           /\ \A j \in 1..Len(dirs) : Exists(dirs[j] \o name) => i <= j
<1> DEFINE hits == {i \in DOMAIN dirs : Exists(dirs[i] \o name)}
<1>1. DOMAIN dirs = 1..Len(dirs) /\ Len(dirs) \in Nat
  OBVIOUS
<1>2. Found(dirs, name) = IF hits = {} THEN {} ELSE {Real(dirs[Min(hits)] \o name)}
  BY DEF Found
<1>3. hits # {} /\ hits \in SUBSET Nat
  BY <1>1, <1>2
<1>4. Min(hits) \in hits /\ \A n \in hits : Min(hits) <= n
  <2> HIDE DEF hits
  <2>1. QED BY <1>3, MinIs
<1>5. QED BY <1>1, <1>2, <1>3, <1>4

(* Nothing is found when no directory has it,                              *)
LEMMA FoundNothing ==
  ASSUME NEW dirs \in Seq(Path), NEW name
  PROVE  Found(dirs, name) = {} <=> \A i \in 1..Len(dirs) : ~Exists(dirs[i] \o name)
<1> DEFINE hits == {i \in DOMAIN dirs : Exists(dirs[i] \o name)}
<1>1. DOMAIN dirs = 1..Len(dirs)
  OBVIOUS
<1>2. Found(dirs, name) = IF hits = {} THEN {} ELSE {Real(dirs[Min(hits)] \o name)}
  BY DEF Found
<1>3. Found(dirs, name) = {} <=> hits = {}
  <2> HIDE DEF hits
  <2>1. QED BY <1>2
<1>4. QED BY <1>1, <1>3

(* and the first directory that has it is taken.                           *)
LEMMA FoundIs ==
  ASSUME NEW dirs \in Seq(Path), NEW name, NEW i \in 1..Len(dirs), Exists(dirs[i] \o name),
         \A j \in 1..Len(dirs) : Exists(dirs[j] \o name) => i <= j
  PROVE  Found(dirs, name) = {Real(dirs[i] \o name)}
<1>1. Found(dirs, name) # {}
  BY FoundNothing
<1>2. PICK k \in 1..Len(dirs) :
        /\ Exists(dirs[k] \o name) /\ Found(dirs, name) = {Real(dirs[k] \o name)}
        /\ \A j \in 1..Len(dirs) : Exists(dirs[j] \o name) => k <= j
  BY <1>1, FoundFirst
<1>3. i <= k /\ k <= i /\ i \in Nat /\ k \in Nat
  BY <1>2
<1>4. i = k
  BY <1>3
<1>5. QED BY <1>2, <1>4

(* First in some directories, then in others.                              *)
LEMMA FoundConcat ==
  ASSUME NEW a \in Seq(Path), NEW b \in Seq(Path), NEW name
  PROVE  Found(a \o b, name) = IF Found(a, name) = {} THEN Found(b, name) ELSE Found(a, name)
<1> DEFINE c == a \o b
           m == Len(a)
<1>1. /\ c \in Seq(Path) /\ Len(c) = m + Len(b)
      /\ \A i \in 1..(m + Len(b)) : c[i] = IF i <= m THEN a[i] ELSE b[i - m]
  BY ConcatProperties
<1>2. m \in Nat /\ Len(b) \in Nat
  OBVIOUS
<1> HIDE DEF c, m
<1>3. \A i \in 1..m : i \in 1..Len(c) /\ c[i] = a[i]
  BY <1>1, <1>2
<1>4. \A i \in 1..Len(b) : m + i \in 1..Len(c) /\ c[m + i] = b[i]
  <2>1. TAKE i \in 1..Len(b)
  <2>2. m + i \in 1..(m + Len(b)) /\ ~(m + i <= m) /\ (m + i) - m = i
    BY <1>2
  <2>3. QED BY <1>1, <2>2
<1>5. CASE Found(a, name) # {}
  <2>1. PICK i \in 1..Len(a) :
          /\ Exists(a[i] \o name) /\ Found(a, name) = {Real(a[i] \o name)}
          /\ \A j \in 1..Len(a) : Exists(a[j] \o name) => i <= j
    BY <1>5, FoundFirst
  <2>2. i \in 1..Len(c) /\ c[i] = a[i] /\ i <= m
    BY <1>2, <1>3 DEF m
  <2>3. ASSUME NEW j \in 1..Len(c), Exists(c[j] \o name) PROVE i <= j
    <3>1. CASE j <= m
      <4>1. j \in 1..Len(a) /\ c[j] = a[j]
        BY <1>1, <1>2, <1>3, <3>1 DEF m
      <4>2. QED BY <2>1, <2>3, <4>1
    <3>2. CASE ~(j <= m)
      BY <1>1, <1>2, <2>2, <3>2
    <3>3. QED BY <3>1, <3>2
  <2>4. Found(c, name) = {Real(c[i] \o name)}
    BY <1>1, <2>1, <2>2, <2>3, FoundIs
  <2>5. QED BY <1>5, <2>1, <2>2, <2>4 DEF c
<1>6. CASE Found(a, name) = {} /\ Found(b, name) # {}
  <2>1. PICK i \in 1..Len(b) :
          /\ Exists(b[i] \o name) /\ Found(b, name) = {Real(b[i] \o name)}
          /\ \A j \in 1..Len(b) : Exists(b[j] \o name) => i <= j
    BY <1>6, FoundFirst
  <2>2. m + i \in 1..Len(c) /\ c[m + i] = b[i]
    BY <1>4
  <2>3. ASSUME NEW j \in 1..Len(c), Exists(c[j] \o name) PROVE m + i <= j
    <3>1. CASE j <= m
      <4>1. j \in 1..Len(a) /\ c[j] = a[j]
        BY <1>1, <1>2, <1>3, <3>1 DEF m
      <4>2. QED BY <1>6, <2>3, <4>1, FoundNothing
    <3>2. CASE ~(j <= m)
      <4>1. j \in 1..(m + Len(b)) /\ j - m \in 1..Len(b)
        BY <1>1, <1>2, <3>2
      <4>2. c[j] = b[j - m]
        BY <1>1, <3>2, <4>1
      <4>3. i <= j - m
        BY <2>1, <2>3, <4>1, <4>2
      <4>4. QED BY <1>2, <4>1, <4>3
    <3>3. QED BY <3>1, <3>2
  <2>4. Found(c, name) = {Real(c[m + i] \o name)}
    BY <1>1, <2>1, <2>2, <2>3, FoundIs
  <2>5. QED BY <1>6, <2>1, <2>2, <2>4 DEF c
<1>7. CASE Found(a, name) = {} /\ Found(b, name) = {}
  <2>1. \A j \in 1..Len(a) : ~Exists(a[j] \o name)
    BY <1>7, FoundNothing
  <2>2. \A j \in 1..Len(b) : ~Exists(b[j] \o name)
    BY <1>7, FoundNothing
  <2>3. ASSUME NEW j \in 1..Len(c) PROVE ~Exists(c[j] \o name)
    <3>1. CASE j <= m
      <4>1. j \in 1..Len(a) /\ c[j] = a[j]
        BY <1>1, <1>2, <1>3, <3>1 DEF m
      <4>2. QED BY <2>1, <4>1
    <3>2. CASE ~(j <= m)
      <4>1. j \in 1..(m + Len(b)) /\ j - m \in 1..Len(b)
        BY <1>1, <1>2, <3>2
      <4>2. c[j] = b[j - m]
        BY <1>1, <3>2, <4>1
      <4>3. QED BY <2>2, <4>1, <4>2
    <3>3. QED BY <3>1, <3>2
  <2>4. Found(c, name) = {}
    BY <1>1, <2>3, FoundNothing
  <2>5. QED BY <1>7, <2>4 DEF c
<1>8. QED BY <1>5, <1>6, <1>7

(* One directory under two names.                                          *)
LEMMA FoundBeside ==
  ASSUME NEW p \in Path, NEW q \in Path, NEW name \in Path, Real(p) = Real(q)
  PROVE  /\ <<p>> \in Seq(Path) /\ <<q>> \in Seq(Path) /\ Found(<<p>>, name) = Found(<<q>>, name)
         /\ Found(<<p>>, name) = {} <=> ~Exists(q \o name)
<1> DEFINE a == <<p>>
           b == <<q>>
<1>1. a \in Seq(Path) /\ b \in Seq(Path) /\ Len(a) = 1 /\ Len(b) = 1 /\ a[1] = p /\ b[1] = q
  OBVIOUS
<1>2. Real(p \o name) = Real(q \o name) /\ (Exists(p \o name) <=> Exists(q \o name))
  <2>1. Real(p \o name) = Real(q \o name)
    BY SamePlace
  <2>2. QED BY <2>1 DEF Exists
<1> HIDE DEF a, b
<1>3. \A i \in 1..1 : i = 1
  OBVIOUS
<1>4. Found(a, name) = {} <=> ~Exists(p \o name)
  <2>1. Found(a, name) = {} <=> \A i \in 1..Len(a) : ~Exists(a[i] \o name)
    BY <1>1, FoundNothing
  <2>2. 1..Len(a) = {1}
    BY <1>1, <1>3
  <2>3. QED BY <1>1, <2>1, <2>2
<1>5. Found(b, name) = {} <=> ~Exists(q \o name)
  <2>1. Found(b, name) = {} <=> \A i \in 1..Len(b) : ~Exists(b[i] \o name)
    BY <1>1, FoundNothing
  <2>2. 1..Len(b) = {1}
    BY <1>1, <1>3
  <2>3. QED BY <1>1, <2>1, <2>2
<1>6. ASSUME Exists(p \o name) PROVE Found(a, name) = Found(b, name)
  <2>1. 1 \in 1..1 /\ \A j \in 1..1 : 1 <= j
    OBVIOUS
  <2>2. Found(a, name) = {Real(a[1] \o name)}
    BY <1>1, <1>6, <2>1, FoundIs
  <2>3. Found(b, name) = {Real(b[1] \o name)}
    BY <1>1, <1>2, <1>6, <2>1, FoundIs
  <2>4. QED BY <1>1, <1>2, <2>2, <2>3
<1>7. Found(a, name) = Found(b, name)
  BY <1>2, <1>4, <1>5, <1>6
<1>8. QED BY <1>1, <1>2, <1>4, <1>7 DEF a, b

(* What a rule's dynamic headers are, whatever they are called.            *)
Leaves(r) == {f \in File : f \in {Real(h) : h \in Range(Dynamic[r])} /\ Directives(f) = {}}

(* The directories of the dynamic headers.                                 *)
DynamicDirs(r) == [i \in DOMAIN Dynamic[r] |-> DirOf(Dynamic[r][i])]

(* What a rule is made of.                                                 *)
LEMMA RuleIs ==
  ASSUME NEW r \in Rule
  PROVE  /\ Input[r] \in Path /\ Includes[r] \in Seq(Path) /\ Dynamic[r] \in Seq(Path)
         /\ DynamicDirs(r) \in Seq(Path) /\ Len(DynamicDirs(r)) = Len(Dynamic[r])
         /\ \A i \in 1..Len(Dynamic[r]) : DynamicDirs(r)[i] = DirOf(Dynamic[r][i])
<1>1. Input[r] \in Path /\ Includes[r] \in Seq(Path) /\ Dynamic[r] \in Seq(Path)
  BY Instances
<1>2. ASSUME NEW p \in Path PROVE DirOf(p) \in Path
  <2>1. CASE p = <<>>
    <3>1. Len(p) = 0 /\ 0 - 1 < 1 /\ 0 - 1 \in Int /\ 1 \in Int
      BY <2>1, EmptySeq
    <3>2. Front(p) = <<>>
      BY <3>1, SubSeqEmpty DEF Front
    <3>3. QED BY <3>1, <3>2, RealEmpty DEF DirOf
  <2>2. CASE p # <<>>
    <3>1. Front(p) \in Path
      BY <2>2, FrontLast DEF Path
    <3>2. QED BY <3>1 DEF DirOf
  <2>3. QED BY <2>1, <2>2
<1> DEFINE s == Dynamic[r]
           e(i) == DirOf(s[i])
<1>3. s \in Seq(Path) /\ Len(s) \in Nat /\ DOMAIN s = 1..Len(s) /\ \A i \in 1..Len(s) : s[i] \in Path
  <2>1. s \in Seq(Path)
    BY <1>1
  <2> HIDE DEF s
  <2>2. QED BY <2>1, LenProperties, ElementOfSeq
<1>4. DynamicDirs(r) = [i \in 1..Len(s) |-> DirOf(s[i])]
  BY <1>3 DEF DynamicDirs
<1> HIDE DEF s
<1>5. \A i \in 1..Len(s) : DirOf(s[i]) \in Path
  BY <1>2, <1>3
<1>6. [i \in 1..Len(s) |-> DirOf(s[i])] \in [1..Len(s) -> Path]
  BY <1>5
<1>7. DynamicDirs(r) \in Seq(Path) /\ Len(DynamicDirs(r)) = Len(s)
  <2>1. [1..Len(s) -> Path] \subseteq Seq(Path)
    BY <1>3
  <2>2. DynamicDirs(r) \in [1..Len(s) -> Path]
    BY <1>4, <1>6
  <2> DEFINE D == DynamicDirs(r)
  <2> HIDE DEF D
  <2>3. D \in [1..Len(s) -> Path] /\ D \in Seq(Path)
    BY <2>1, <2>2 DEF D
  <2>4. Len(D) = Len(s)
    BY <1>3, <2>3
  <2>5. QED BY <2>3, <2>4 DEF D
<1>8. \A i \in 1..Len(s) : DynamicDirs(r)[i] = DirOf(s[i])
  BY <1>4
<1>9. QED BY <1>1, <1>7, <1>8 DEF s

(* For a directive that both can meet, the scanner finds what the          *)
(* preprocessor finds, or that is a dynamic header.                        *)
LEMMA FindsAlike ==
  ASSUME SearchesAgree, NEW r \in Rule, NEW p \in Path, Exists(p),
         NEW t \in Texts, NEW d \in Range(t[Real(p)])
  PROVE  LET scanned == Found(<<DirOf(p)>> \o Includes[r], d.name)
             read    == Preprocessed(r, Real(p), d)
         IN  scanned \subseteq read /\ read \subseteq scanned \cup Leaves(r)
<1> DEFINE f == Real(p)
           name == d.name
           incs == Includes[r]
           L == Found(<<Front(f)>>, name)
           I == Found(incs, name)
           D == Found(DynamicDirs(r), name)
<1>1. /\ f \in File /\ Front(f) \in Directory /\ p # <<>> /\ Front(p) \in Path
      /\ Real(Front(p)) = Front(f) /\ (Len(p) = 1 => Len(f) = 1)
  BY DirOfFile
<1>2. d \in Directives(f) /\ Len(f) > 1
  <2>1. d \in Directives(f)
    BY DEF Directives
  <2>2. QED BY <1>1, <2>1 DEF SearchesAgree, NotInRoot
<1>3. name \in Path /\ Front(f) \in Path /\ Real(Front(f)) = Front(f)
  <2>1. t[f] \in Seq(Directive)
    BY <1>1, Instances
  <2>2. d \in Directive
    <3> DEFINE s == t[f]
    <3>1. s \in Seq(Directive) /\ d \in Range(s)
      BY <2>1
    <3> HIDE DEF s, f
    <3>2. PICK i \in DOMAIN s : d = s[i]
      BY <3>1 DEF Range
    <3>3. QED BY <3>1, <3>2
  <2>3. Front(f) \in Path
    BY <1>1, Tree
  <2>4. QED BY <1>1, <2>2, <2>3, RealDirectory DEF Directive
<1>4. DirOf(p) = Front(p)
  <2>1. Len(p) # 1
    <3> DEFINE n == Len(f)
    <3>1. n > 1 /\ (Len(p) = 1 => n = 1)
      BY <1>1, <1>2
    <3> HIDE DEF n
    <3>2. QED BY <3>1
  <2>2. QED BY <2>1 DEF DirOf
<1>5. /\ <<Front(p)>> \in Seq(Path) /\ <<Front(f)>> \in Seq(Path)
      /\ Found(<<Front(p)>>, name) = L /\ (L = {} <=> ~Exists(Front(f) \o name))
  BY <1>1, <1>3, FoundBeside
<1>6. incs \in Seq(Path) /\ DynamicDirs(r) \in Seq(Path)
  BY RuleIs
<1>7. Found(<<DirOf(p)>> \o incs, name) = IF L = {} THEN I ELSE L
  <2> DEFINE a == <<DirOf(p)>>
  <2>1. a \in Seq(Path) /\ Found(a, name) = L
    BY <1>4, <1>5
  <2> HIDE DEF a, L, I
  <2>2. Found(a \o incs, name) = IF Found(a, name) = {} THEN Found(incs, name) ELSE Found(a, name)
    BY <1>6, <2>1, FoundConcat
  <2>3. QED BY <2>1, <2>2 DEF I, a
<1>8. /\ DynamicDirs(r) \o incs \in Seq(Path)
      /\ Found(DynamicDirs(r) \o incs, name) = IF D = {} THEN I ELSE D
  BY <1>6, FoundConcat, ConcatProperties
<1>9. SearchPath(r) = DynamicDirs(r) \o incs
  BY DEF SearchPath, DynamicDirs
<1>10. Preprocessed(r, f, d) = IF L = {} THEN IF D = {} THEN I ELSE D ELSE L
  <2>1. CASE d.quoted
    <3>1. Preprocessed(r, f, d) = Found(<<Front(f)>> \o SearchPath(r), name)
      BY <2>1 DEF Preprocessed
    <3> DEFINE a == <<Front(f)>>
               c == SearchPath(r)
    <3>2. a \in Seq(Path) /\ c \in Seq(Path) /\ Found(a, name) = L /\ Found(c, name) = IF D = {} THEN I ELSE D
      BY <1>5, <1>8, <1>9
    <3>3. Preprocessed(r, f, d) = Found(a \o c, name)
      BY <3>1
    <3> HIDE DEF a, c, L, I, D
    <3>4. Found(a \o c, name) = IF Found(a, name) = {} THEN Found(c, name) ELSE Found(a, name)
      BY <3>2, FoundConcat
    <3>5. QED BY <3>2, <3>3, <3>4
  <2>2. CASE ~d.quoted
    <3>1. Preprocessed(r, f, d) = Found(<<>> \o SearchPath(r), name)
      BY <2>2 DEF Preprocessed
    <3>2. <<>> \o SearchPath(r) = SearchPath(r)
      BY <1>8, <1>9, ConcatEmptySeq
    <3>3. L = {}
      BY <1>1, <1>2, <1>5, <2>2 DEF SearchesAgree, AngledElsewhere
    <3>4. QED BY <1>8, <1>9, <3>1, <3>2, <3>3
  <2>3. QED BY <2>1, <2>2
<1> HIDE DEF L, D, I
<1>11. CASE L # {} \/ D = {}
  BY <1>7, <1>10, <1>11
<1>12. CASE L = {} /\ D # {}
  <2> DEFINE dirs == DynamicDirs(r)
  <2>1. PICK i \in 1..Len(dirs) : Exists(dirs[i] \o name) /\ D = {Real(dirs[i] \o name)}
    BY <1>6, <1>12, FoundFirst DEF D
  <2> DEFINE h == Dynamic[r][i]
             q == DirOf(h) \o name
  <2>2. dirs[i] = DirOf(h) /\ h \in Range(Dynamic[r])
    <3>1. Dynamic[r] \in Seq(Path) /\ i \in 1..Len(Dynamic[r])
      BY <2>1, RuleIs
    <3>2. i \in DOMAIN Dynamic[r]
      BY <3>1
    <3>3. QED BY <3>1, <3>2, RuleIs DEF Range
  <2>3. Exists(q) /\ D = {Real(q)} /\ ~Exists(Front(f) \o name)
    BY <1>5, <1>12, <2>1, <2>2
  <2> HIDE DEF h, q
  <2>4. /\ Real(q) \in {Real(g) : g \in Range(Dynamic[r])} /\ Directives(Real(q)) = {}
        /\ \A dir \in Range(incs) : ~Exists(dir \o name)
    BY <1>1, <1>2, <2>2, <2>3 DEF SearchesAgree, DynamicLeaves, q
  <2>5. Real(q) \in Leaves(r)
    BY <2>3, <2>4 DEF Leaves, Exists
  <2>6. I = {}
    <3>1. \A k \in 1..Len(incs) : incs[k] \in Range(incs)
      <4>1. DOMAIN incs = 1..Len(incs)
        BY <1>6
      <4>2. QED BY <4>1 DEF Range
    <3>2. \A k \in 1..Len(incs) : ~Exists(incs[k] \o name)
      BY <2>4, <3>1
    <3>3. QED BY <1>6, <3>2, FoundNothing DEF I
  <2>7. QED BY <1>7, <1>10, <1>12, <2>3, <2>5, <2>6
<1>13. QED BY <1>11, <1>12

-----------------------------------------------------------------------------
(* The inductive invariants.                                               *)

Frame == [file : Path, line : Nat \ {0}]

Types ==
  /\ text \in Texts /\ todo \subseteq Rule /\ rule \in Rule \cup {NoRule}
  /\ stack \in Seq(Frame) /\ leaked \in Nat
  /\ DOMAIN result \subseteq Rule
  /\ rule = NoRule => stack = <<>>

(* What is read is among the dependencies, and what is among them is read  *)
(* by the compiler.                                                        *)
DepsSound ==
  rule # NoRule =>
    /\ \A p \in deps : p \in Path /\ Exists(p) /\ Real(p) \in Reads(rule)
    /\ \A k \in 1..Len(stack) : stack[k].file \in deps
ListSound(r, list) == \A p \in list \ Range(Dynamic[r]) : Real(p) \in Reads(r)
ListsSound ==
  /\ \A r \in DOMAIN result : ListSound(r, result[r])
  /\ \A r \in Rule : Input[r] \in DOMAIN cache => ListSound(r, cache[Input[r]])
SoundInv == Types /\ DepsSound /\ ListsSound

(* Whatever a dependency includes is one, or a dynamic header; but for the *)
(* lines that a file on the stack has not come to.                         *)
ToBeRead(p, i) == \E k \in 1..Len(stack) : stack[k].file = p /\ stack[k].line <= i
Followed(r, p, i) ==
  Preprocessed(r, Real(p), text[Real(p)][i]) \subseteq {Real(q) : q \in deps} \cup Leaves(r)
DepsComplete ==
  rule # NoRule =>
    /\ Input[rule] \in deps
    /\ \A p \in deps : \A i \in 1..Len(text[Real(p)]) : ToBeRead(p, i) \/ Followed(rule, p, i)
ListComplete(r, list) == Reads(r) \subseteq {Real(q) : q \in list}
ListsComplete ==
  /\ \A r \in DOMAIN result : ListComplete(r, result[r])
  /\ \A r \in Rule : Input[r] \in DOMAIN cache => ListComplete(r, cache[Input[r]])
CompleteInv == DepsComplete /\ ListsComplete

-----------------------------------------------------------------------------
(* What the compiler reads.                                                *)

(* The preprocessor reads files of the tree.                               *)
LEMMA PreprocessedFiles ==
  ASSUME NEW r \in Rule, NEW f \in File, NEW d \in Directive
  PROVE  Preprocessed(r, f, d) \subseteq File
<1> DEFINE dirs == (IF d.quoted THEN <<Front(f)>> ELSE <<>>) \o SearchPath(r)
           hits == {i \in DOMAIN dirs : Exists(dirs[i] \o d.name)}
<1>1. dirs \in Seq(Path)
  <2>1. SearchPath(r) = DynamicDirs(r) \o Includes[r]
    BY DEF SearchPath, DynamicDirs
  <2>2. SearchPath(r) \in Seq(Path)
    BY <2>1, RuleIs, ConcatProperties
  <2>3. <<>> \in Seq(Path)
    BY EmptySeq
  <2>4. f # <<>> /\ f \in Path
    BY Tree
  <2>5. Front(f) \in Path
    BY <2>4, FrontLast DEF Path
  <2>6. <<Front(f)>> \in Seq(Path)
    BY <2>5
  <2> DEFINE first == IF d.quoted THEN <<Front(f)>> ELSE <<>>
             rest == SearchPath(r)
  <2>7. first \in Seq(Path) /\ rest \in Seq(Path)
    BY <2>2, <2>3, <2>6
  <2> HIDE DEF first, rest
  <2>8. first \o rest \in Seq(Path)
    BY <2>7, ConcatProperties
  <2>9. QED BY <2>8 DEF first, rest
<1>2. Preprocessed(r, f, d) = Found(dirs, d.name)
  BY DEF Preprocessed
<1> HIDE DEF dirs
<1>3. ASSUME NEW g \in Found(dirs, d.name) PROVE g \in File
  <2>1. Found(dirs, d.name) # {}
    BY <1>3
  <2>2. PICK i \in 1..Len(dirs) : Exists(dirs[i] \o d.name) /\ Found(dirs, d.name) = {Real(dirs[i] \o d.name)}
    BY <1>1, <2>1, FoundFirst
  <2>3. QED BY <1>3, <2>2 DEF Exists
<1>4. QED BY <1>2, <1>3

(* What a file includes directly.                                          *)
Within(r, S) == Real(Input[r]) \in S /\ \A f \in S : \A d \in Range(text[f]) : Preprocessed(r, f, d) \subseteq S

(* Reads, in terms of Within.                                              *)
LEMMA ReadsIs ==
  ASSUME NEW r
  PROVE  Reads(r) = {f \in File : \A S \in SUBSET File : Within(r, S) => f \in S}
<1> DEFINE included == [f \in File |-> UNION {Preprocessed(r, f, d) : d \in Range(text[f])}]
           closed == {S \in SUBSET File : Real(Input[r]) \in S /\ \A f \in S : included[f] \subseteq S}
<1>1. ASSUME NEW S \in SUBSET File PROVE S \in closed <=> Within(r, S)
  <2>1. ASSUME NEW f \in S
        PROVE  included[f] \subseteq S <=> \A d \in Range(text[f]) : Preprocessed(r, f, d) \subseteq S
    <3>1. included[f] = UNION {Preprocessed(r, f, d) : d \in Range(text[f])}
      OBVIOUS
    <3>2. QED BY <3>1, Zenon
  <2> HIDE DEF included
  <2>2. QED BY <2>1 DEF Within
<1>2. Reads(r) = {f \in File : \A S \in closed : f \in S}
  BY DEF Reads
<1>3. closed \subseteq SUBSET File
  OBVIOUS
<1> HIDE DEF closed
<1>4. QED BY <1>1, <1>2, <1>3

(* It reads the source and all that is included,                           *)
LEMMA ReadsClosed ==
  ASSUME InputsExist, text \in Texts, NEW r \in Rule
  PROVE  /\ Reads(r) \subseteq File /\ Real(Input[r]) \in Reads(r)
         /\ \A f \in Reads(r) : \A d \in Range(text[f]) : Preprocessed(r, f, d) \subseteq Reads(r)
<1>1. Reads(r) = {f \in File : \A S \in SUBSET File : Within(r, S) => f \in S}
  BY ReadsIs
<1>2. Real(Input[r]) \in File
  BY DEF InputsExist, Exists
<1>3. Real(Input[r]) \in Reads(r)
  BY <1>1, <1>2 DEF Within
<1>4. ASSUME NEW f \in Reads(r), NEW d \in Range(text[f]), NEW g \in Preprocessed(r, f, d)
      PROVE  g \in Reads(r)
  <2>1. f \in File /\ d \in Directive
    <3>1. f \in File
      BY <1>1
    <3>2. text[f] \in Seq(Directive)
      BY <3>1, Instances
    <3> DEFINE s == text[f]
    <3>3. s \in Seq(Directive) /\ d \in Range(s)
      BY <3>2
    <3> HIDE DEF s
    <3>4. PICK i \in DOMAIN s : d = s[i]
      BY <3>3 DEF Range
    <3>5. QED BY <3>1, <3>3, <3>4
  <2>2. g \in File
    BY <2>1, PreprocessedFiles
  <2>3. ASSUME NEW S \in SUBSET File, Within(r, S) PROVE g \in S
    <3>1. f \in S
      BY <1>1, <2>3
    <3>2. QED BY <1>4, <2>3, <3>1 DEF Within
  <2>4. QED BY <1>1, <2>2, <2>3
<1>5. Reads(r) \subseteq File
  BY <1>1
<1>6. QED BY <1>3, <1>4, <1>5

(* and nothing else,                                                       *)
LEMMA ReadsLeast ==
  ASSUME NEW r, NEW S \in SUBSET File, Within(r, S)
  PROVE  Reads(r) \subseteq S
<1>1. Reads(r) = {f \in File : \A T \in SUBSET File : Within(r, T) => f \in T}
  BY ReadsIs
<1>2. QED BY <1>1

(* the same for the same flags,                                            *)
LEMMA ReadsSame ==
  ASSUME NEW r, NEW s, Input[r] = Input[s], Includes[r] = Includes[s], Dynamic[r] = Dynamic[s]
  PROVE  Reads(r) = Reads(s)
<1>1. SearchPath(r) = SearchPath(s)
  BY DEF SearchPath
<1>2. \A f, d : Preprocessed(r, f, d) = Preprocessed(s, f, d)
  BY <1>1 DEF Preprocessed
<1>3. \A S : Within(r, S) <=> Within(s, S)
  BY <1>2 DEF Within
<1>4. /\ Reads(r) = {f \in File : \A S \in SUBSET File : Within(r, S) => f \in S}
      /\ Reads(s) = {f \in File : \A S \in SUBSET File : Within(s, S) => f \in S}
  BY ReadsIs
<1>5. QED BY <1>3, <1>4

(* and as long as the files are not changed.                               *)
LEMMA ReadsKept ==
  ASSUME text' = text, NEW r
  PROVE  Reads(r)' = Reads(r)
<1>1. QED BY DEF Reads

-----------------------------------------------------------------------------
(* The line that is read.                                                  *)

(* The file on top of the stack, and its next directive.                   *)
LEMMA TopIs ==
  ASSUME Types, DepsSound, rule # NoRule, stack # <<>>
  PROVE  /\ Len(stack) \in Nat \ {0} /\ Top \in Frame /\ Top = stack[Len(stack)]
         /\ Top.file \in deps /\ Top.file \in Path /\ Exists(Top.file) /\ Real(Top.file) \in File
         /\ Real(Top.file) \in Reads(rule) /\ Lines \in Seq(Directive)
<1>1. Len(stack) \in Nat \ {0} /\ stack \in Seq(Frame)
  BY EmptySeq DEF Types
<1>2. Top = stack[Len(stack)] /\ Top \in Frame
  <2>1. Len(stack) \in 1..Len(stack)
    BY <1>1
  <2>2. stack[Len(stack)] \in Frame
    BY <1>1, <2>1, ElementOfSeq
  <2>3. QED BY <2>2 DEF Top
<1>3. Top.file \in deps
  <2>1. Len(stack) \in 1..Len(stack)
    BY <1>1
  <2>2. QED BY <1>2, <2>1 DEF DepsSound
<1>4. Top.file \in Path /\ Exists(Top.file) /\ Real(Top.file) \in Reads(rule)
  BY <1>3 DEF DepsSound
<1>5. Real(Top.file) \in File
  BY <1>4 DEF Exists
<1>6. Lines \in Seq(Directive)
  <2>1. text[Real(Top.file)] \in Seq(Directive)
    BY <1>5, Instances DEF Types
  <2>2. QED BY <2>1 DEF Lines
<1>7. QED BY <1>1, <1>2, <1>3, <1>4, <1>5, <1>6

Line == Lines[Top.line]
Dirs == <<DirOf(Top.file)>> \o Includes[rule]

(* Where the scanner looks for it.                                         *)
LEMMA LineIs ==
  ASSUME SearchesAgree, Types, DepsSound, rule # NoRule, Reading
  PROVE  /\ Top.line \in 1..Len(Lines) /\ Line \in Directive /\ Line \in Range(text[Real(Top.file)])
         /\ Dirs \in Seq(Path) /\ DOMAIN Candidates = 1..Len(Dirs)
         /\ \A i \in 1..Len(Dirs) : Candidates[i] = Dirs[i] \o Line.name
         /\ Found(Dirs, Line.name) \subseteq Preprocessed(rule, Real(Top.file), Line)
         /\ Preprocessed(rule, Real(Top.file), Line) \subseteq Found(Dirs, Line.name) \cup Leaves(rule)
<1>1. stack # <<>> /\ Top.line <= Len(Lines) /\ rule \in Rule
  BY DEF Reading, Types
<1>2. /\ Top \in Frame /\ Top.file \in Path /\ Exists(Top.file) /\ Lines \in Seq(Directive)
      /\ Real(Top.file) \in File
  BY <1>1, TopIs
<1>3. Top.line \in 1..Len(Lines)
  <2>1. Top.line \in Nat \ {0}
    BY <1>2 DEF Frame
  <2>2. QED BY <1>1, <1>2, <2>1
<1>4. Line \in Directive /\ Line \in Range(Lines)
  <2>1. Line \in Directive
    BY <1>2, <1>3, ElementOfSeq DEF Line
  <2>2. DOMAIN Lines = 1..Len(Lines)
    BY <1>2, LenProperties
  <2>3. QED BY <1>3, <2>1, <2>2 DEF Range, Line
<1>5. Range(Lines) = Range(text[Real(Top.file)])
  BY DEF Lines
<1>6. Dirs \in Seq(Path) /\ Len(Dirs) \in Nat
  <2> DEFINE a == <<DirOf(Top.file)>>
             b == Includes[rule]
  <2>1. DirOf(Top.file) \in Path
    <3>1. Front(Top.file) \in Path
      BY <1>2, DirOfFile
    <3>2. QED BY <1>2, <3>1 DEF DirOf
  <2>2. a \in Seq(Path) /\ b \in Seq(Path)
    BY <1>1, <2>1, RuleIs
  <2> HIDE DEF a, b
  <2>3. a \o b \in Seq(Path) /\ Len(a \o b) \in Nat
    BY <2>2, ConcatProperties, LenProperties
  <2>4. QED BY <2>3 DEF Dirs, a, b
<1>7. DOMAIN Candidates = 1..Len(Dirs) /\ \A i \in 1..Len(Dirs) : Candidates[i] = Dirs[i] \o Line.name
  <2>1. LocalIncludes(Top.file) = Dirs
    BY DEF LocalIncludes, Dirs
  <2>2. Candidates = [i \in 1..Len(Dirs) |-> Dirs[i] \o Line.name]
    BY <2>1 DEF Candidates, Line
  <2> DEFINE n == Len(Dirs)
             at(i) == Dirs[i] \o Line.name
  <2>3. Candidates = [i \in 1..n |-> at(i)]
    BY <2>2
  <2> HIDE DEF n, at
  <2>4. DOMAIN Candidates = 1..n /\ \A i \in 1..n : Candidates[i] = at(i)
    BY <2>3, Zenon
  <2>5. QED BY <2>4 DEF n, at
<1>8. LET scanned == Found(<<DirOf(Top.file)>> \o Includes[rule], Line.name)
          read    == Preprocessed(rule, Real(Top.file), Line)
      IN  scanned \subseteq read /\ read \subseteq scanned \cup Leaves(rule)
  BY <1>1, <1>2, <1>4, <1>5, FindsAlike DEF Types
<1>9. /\ Found(Dirs, Line.name) \subseteq Preprocessed(rule, Real(Top.file), Line)
      /\ Preprocessed(rule, Real(Top.file), Line) \subseteq Found(Dirs, Line.name) \cup Leaves(rule)
  BY <1>8 DEF Dirs
<1>10. QED BY <1>3, <1>4, <1>5, <1>6, <1>7, <1>9

(* What it opens is what is read.                                          *)
LEMMA IncludedIs ==
  ASSUME SearchesAgree, Types, DepsSound, rule # NoRule, Reading, Openable # {}
  PROVE  /\ Included \in Path /\ Exists(Included) /\ Real(Included) \in Reads(rule)
         /\ Preprocessed(rule, Real(Top.file), Line) \subseteq {Real(Included)} \cup Leaves(rule)
<1>1. /\ Line \in Directive /\ Line \in Range(text[Real(Top.file)])
      /\ Dirs \in Seq(Path) /\ DOMAIN Candidates = 1..Len(Dirs)
      /\ \A i \in 1..Len(Dirs) : Candidates[i] = Dirs[i] \o Line.name
      /\ Found(Dirs, Line.name) \subseteq Preprocessed(rule, Real(Top.file), Line)
      /\ Preprocessed(rule, Real(Top.file), Line) \subseteq Found(Dirs, Line.name) \cup Leaves(rule)
  BY LineIs
<1>2. Opened < MaxOpen
  BY DEF Openable, CanOpen
<1>3. Openable = {i \in 1..Len(Dirs) : Exists(Dirs[i] \o Line.name)}
  BY <1>1, <1>2 DEF Openable, CanOpen
<1>4. Openable \in SUBSET Nat
  BY <1>3
<1> DEFINE i == Min(Openable)
<1>5. i \in Openable /\ \A k \in Openable : i <= k
  <2> DEFINE T == Openable
  <2>1. T \in SUBSET Nat /\ T # {}
    BY <1>4
  <2> HIDE DEF T
  <2>2. Min(T) \in T /\ \A k \in T : Min(T) <= k
    BY <2>1, MinIs
  <2>3. QED BY <2>2 DEF T
<1> HIDE DEF i
<1>6. Included = Candidates[i]
  BY DEF Included, i
<1>7. /\ i \in 1..Len(Dirs) /\ Exists(Dirs[i] \o Line.name) /\ Included = Dirs[i] \o Line.name
      /\ \A k \in 1..Len(Dirs) : Exists(Dirs[k] \o Line.name) => i <= k
  BY <1>1, <1>3, <1>5, <1>6
<1>8. Found(Dirs, Line.name) = {Real(Included)}
  BY <1>1, <1>7, FoundIs
<1>9. Included \in Path /\ Exists(Included)
  <2>1. Dirs[i] \in Path /\ Line.name \in Path
    BY <1>1, <1>7, ElementOfSeq DEF Directive
  <2>2. Dirs[i] \o Line.name \in Path
    BY <2>1, ConcatProperties DEF Path
  <2>3. QED BY <1>7, <2>2
<1>10. Real(Included) \in Reads(rule)
  <2>1. Real(Top.file) \in Reads(rule) /\ rule \in Rule
    BY TopIs DEF Reading, Types
  <2>2. Preprocessed(rule, Real(Top.file), Line) \subseteq Reads(rule)
    BY <1>1, <2>1, ReadsClosed DEF SearchesAgree, Types
  <2>3. QED BY <1>1, <1>8, <2>2
<1>11. QED BY <1>1, <1>8, <1>9, <1>10

(* Where it can open nothing there is nothing to read, unless it can open  *)
(* no file at all.                                                         *)
LEMMA NothingThere ==
  ASSUME SearchesAgree, Types, DepsSound, rule # NoRule, Reading, Openable = {}, Opened < MaxOpen
  PROVE  Preprocessed(rule, Real(Top.file), Line) \subseteq Leaves(rule)
<1>1. /\ Dirs \in Seq(Path) /\ DOMAIN Candidates = 1..Len(Dirs)
      /\ \A i \in 1..Len(Dirs) : Candidates[i] = Dirs[i] \o Line.name
      /\ Preprocessed(rule, Real(Top.file), Line) \subseteq Found(Dirs, Line.name) \cup Leaves(rule)
  BY LineIs
<1>2. \A i \in 1..Len(Dirs) : ~Exists(Dirs[i] \o Line.name)
  BY <1>1 DEF Openable, CanOpen
<1>3. Found(Dirs, Line.name) = {}
  BY <1>1, <1>2, FoundNothing
<1>4. QED BY <1>1, <1>3

(* The line is done with.                                                  *)
LEMMA NextLineIs ==
  ASSUME Types, DepsSound, rule # NoRule, Reading
  PROVE  /\ NextLine \in Seq(Frame) /\ Len(NextLine) = Len(stack)
         /\ \A k \in 1..Len(stack) : NextLine[k].file = stack[k].file
         /\ \A k \in 1..Len(stack) : k # Len(stack) => NextLine[k] = stack[k]
         /\ NextLine[Len(stack)].line = Top.line + 1
<1> DEFINE n == Len(stack)
           t == [stack[n] EXCEPT !.line = @ + 1]
<1>1. n \in Nat \ {0} /\ Top \in Frame /\ Top = stack[n] /\ stack \in Seq(Frame)
  BY TopIs DEF Reading, Types
<1>2. NextLine = [stack EXCEPT ![n] = t]
  BY DEF NextLine
<1>3. t \in Frame /\ t.file = Top.file /\ t.line = Top.line + 1
  BY <1>1 DEF Frame
<1> HIDE DEF t, n
<1>4. n \in 1..n /\ Len(stack) = n
  BY <1>1 DEF n
<1>5. /\ [stack EXCEPT ![n] = t] \in Seq(Frame) /\ Len([stack EXCEPT ![n] = t]) = n
      /\ \A k \in 1..n : [stack EXCEPT ![n] = t][k] = IF k = n THEN t ELSE stack[k]
  BY <1>1, <1>3, <1>4, ExceptSeq
<1>6. QED BY <1>1, <1>2, <1>3, <1>4, <1>5

-----------------------------------------------------------------------------
(* Nothing superfluous is listed.                                          *)

(* What is answered is listed for the rule and for its source.             *)
LEMMA AnswerIs ==
  ASSUME NEW r, NEW list, Answer(r, list)
  PROVE  /\ DOMAIN result' = DOMAIN result \cup {r} /\ result'[r] = Extended(r, list)
         /\ \A y \in DOMAIN result \cup {r} : y # r => result'[y] = result[y]
         /\ DOMAIN cache' = DOMAIN cache \cup {Input[r]} /\ cache'[Input[r]] = Extended(r, list)
         /\ \A y \in DOMAIN cache \cup {Input[r]} : y # Input[r] => cache'[y] = cache[y]
<1> DEFINE full == Extended(r, list)
<1>1. cache' = Assign(cache, Input[r], full) /\ result' = Assign(result, r, full)
  BY DEF Answer
<1> HIDE DEF full
<1>2. /\ DOMAIN result' = DOMAIN result \cup {r} /\ result'[r] = full
      /\ \A y \in DOMAIN result \cup {r} : y # r => result'[y] = result[y]
  <2> DEFINE new == Assign(result, r, full)
  <2>1. /\ DOMAIN new = DOMAIN result \cup {r} /\ new[r] = full
        /\ \A y \in DOMAIN result \cup {r} : y # r => new[y] = result[y]
    BY DEF Assign
  <2>2. result' = new
    BY <1>1
  <2> HIDE DEF new
  <2>3. QED BY <2>1, <2>2
<1>3. /\ DOMAIN cache' = DOMAIN cache \cup {Input[r]} /\ cache'[Input[r]] = full
      /\ \A y \in DOMAIN cache \cup {Input[r]} : y # Input[r] => cache'[y] = cache[y]
  <2> DEFINE new == Assign(cache, Input[r], full)
  <2>1. /\ DOMAIN new = DOMAIN cache \cup {Input[r]} /\ new[Input[r]] = full
        /\ \A y \in DOMAIN cache \cup {Input[r]} : y # Input[r] => new[y] = cache[y]
    BY DEF Assign
  <2>2. cache' = new
    BY <1>1
  <2> HIDE DEF new
  <2>3. QED BY <2>1, <2>2
<1>4. QED BY <1>2, <1>3 DEF full

(* A directive is read while a rule is worked on.                          *)
LEMMA ReadingRule ==
  ASSUME Types, stack # <<>>
  PROVE  rule # NoRule /\ rule \in Rule
BY DEF Types

(* The types are kept.                                                     *)
LEMMA TypesNext ==
  ASSUME SearchesAgree, Types, DepsSound, [Next]_vars
  PROVE  Types'
<1>1. ASSUME NEW r \in todo, CachedDependencies(r) PROVE Types'
  <2>1. DOMAIN result' = DOMAIN result \cup {r}
    BY <1>1, AnswerIs DEF CachedDependencies
  <2>2. QED BY <1>1, <2>1 DEF CachedDependencies, Answer, Types
<1>2. ASSUME NEW r \in todo, Scan(r) PROVE Types'
  <2>1. r \in Rule /\ Input[r] \in Path
    BY Instances DEF Types
  <2>2. [file |-> Input[r], line |-> 1] \in Frame
    BY <2>1 DEF Frame
  <2>3. <<[file |-> Input[r], line |-> 1]>> \in Seq(Frame) /\ <<>> \in Seq(Frame)
    BY <2>2, EmptySeq
  <2>4. stack' \in Seq(Frame)
    BY <1>2, <2>3 DEF Scan
  <2>5. rule' # NoRule /\ rule' \in Rule
    BY <1>2, <2>1, Instances DEF Scan
  <2>6. QED BY <1>2, <2>4, <2>5 DEF Scan, Types
<1>3. CASE NotFound
  <2>1. NextLine \in Seq(Frame) /\ rule # NoRule
    BY <1>3, NextLineIs, ReadingRule DEF NotFound, Reading
  <2>2. QED BY <1>3, <2>1 DEF NotFound, Types
<1>4. CASE AlreadyRead
  <2>1. NextLine \in Seq(Frame) /\ rule # NoRule
    BY <1>4, NextLineIs, ReadingRule DEF AlreadyRead, Reading
  <2>2. QED BY <1>4, <2>1 DEF AlreadyRead, Types
<1>5. CASE ReadFile
  <2>1. NextLine \in Seq(Frame) /\ rule # NoRule /\ Included \in Path
    BY <1>5, NextLineIs, ReadingRule, IncludedIs DEF ReadFile, Reading
  <2>2. [file |-> Included, line |-> 1] \in Frame
    BY <2>1 DEF Frame
  <2> DEFINE t == NextLine
             x == [file |-> Included, line |-> 1]
  <2> HIDE DEF t, x
  <2>3. Append(t, x) \in Seq(Frame)
    BY <2>1, <2>2 DEF t, x
  <2>4. stack' \in Seq(Frame)
    BY <1>5, <2>3 DEF ReadFile, t, x
  <2>5. QED BY <1>5, <2>1, <2>4 DEF ReadFile, Types
<1>6. CASE CloseFile
  <2>1. Front(stack) \in Seq(Frame) /\ rule # NoRule
    BY <1>6, FrontLast, ReadingRule DEF CloseFile, Types
  <2>2. QED BY <1>6, <2>1 DEF CloseFile, Types
<1>7. CASE Scanned
  <2>1. DOMAIN result' = DOMAIN result \cup {rule}
    BY <1>7, AnswerIs DEF Scanned
  <2>2. QED BY <1>7, <2>1 DEF Scanned, Types
<1>8. CASE Collect
  BY <1>8 DEF Collect, Types
<1>9. CASE UNCHANGED vars
  BY <1>9 DEF vars, Types
<1>10. QED BY <1>1, <1>2, <1>3, <1>4, <1>5, <1>6, <1>7, <1>8, <1>9 DEF Next, Scanner

(* What is put on the list of dependencies is read.                        *)
LEMMA DepsSoundNext ==
  ASSUME SearchesAgree, Types, DepsSound, [Next]_vars
  PROVE  DepsSound'
<1>0. text' = text
  BY DEF Next, Scanner, CachedDependencies, Scan, NotFound, AlreadyRead, ReadFile, CloseFile,
         Scanned, Collect, vars
<1>1. ASSUME rule' = rule, deps' = deps,
             \A k \in 1..Len(stack') : stack'[k].file \in deps \/ rule = NoRule
      PROVE  DepsSound'
  <2>1. \A r : Reads(r)' = Reads(r)
    BY <1>0, ReadsKept
  <2>2. Reads(rule)' = Reads(rule)
    <3> DEFINE r == rule
    <3>1. QED BY <1>0, <1>1 DEF Reads
  <2>3. QED BY <1>1, <2>2 DEF DepsSound
<1>2. ASSUME NEW r \in todo, CachedDependencies(r) PROVE DepsSound'
  BY <1>2, Instances DEF CachedDependencies, DepsSound
<1>3. ASSUME NEW r \in todo, Scan(r) PROVE DepsSound'
  <2>1. r \in Rule /\ rule' = r /\ deps' = {Input[r]}
    BY <1>3 DEF Scan, Types
  <2>2. /\ Input[r] \in Path /\ Exists(Input[r]) /\ Real(Input[r]) \in Reads(r)
    BY <2>1, RuleIs, ReadsClosed DEF Types, SearchesAgree, InputsExist
  <2>3. Reads(rule)' = Reads(r)
    <3>1. QED BY <1>0, <2>1 DEF Reads
  <2>4. ASSUME NEW k \in 1..Len(stack') PROVE stack'[k].file = Input[r]
    <3> DEFINE x == [file |-> Input[r], line |-> 1]
    <3>1. x.file = Input[r]
      OBVIOUS
    <3>2. stack' = <<x>> \/ stack' = <<>>
      BY <1>3 DEF Scan
    <3> HIDE DEF x
    <3>3. Len(<<x>>) = 1 /\ <<x>>[1] = x /\ Len(<<>>) = 0
      BY EmptySeq
    <3>4. stack' = <<x>> /\ k = 1
      <4>1. CASE stack' = <<>>
        <5>1. Len(stack') = 0
          BY <3>3, <4>1
        <5>2. QED BY <5>1
      <4>2. CASE stack' = <<x>>
        <5>1. Len(stack') = 1
          BY <3>3, <4>2
        <5>2. QED BY <4>2, <5>1
      <4>3. QED BY <3>2, <4>1, <4>2
    <3>5. QED BY <3>1, <3>3, <3>4
  <2>5. QED BY <2>1, <2>2, <2>3, <2>4 DEF DepsSound
<1>4. ASSUME Reading PROVE /\ rule # NoRule /\ rule \in Rule
                           /\ \A k \in 1..Len(NextLine) : NextLine[k].file \in deps
  <2>1. rule # NoRule /\ rule \in Rule
    BY <1>4, ReadingRule DEF Reading
  <2>2. Len(NextLine) = Len(stack) /\ \A k \in 1..Len(stack) : NextLine[k].file = stack[k].file
    BY <1>4, <2>1, NextLineIs
  <2>3. QED BY <2>1, <2>2 DEF DepsSound
<1>5. CASE NotFound
  BY <1>1, <1>4, <1>5 DEF NotFound
<1>6. CASE AlreadyRead
  BY <1>1, <1>4, <1>6 DEF AlreadyRead
<1>7. CASE ReadFile
  <2>1. /\ Included \in Path /\ Exists(Included) /\ Real(Included) \in Reads(rule)
        /\ rule # NoRule /\ NextLine \in Seq(Frame) /\ \A k \in 1..Len(NextLine) : NextLine[k].file \in deps
    BY <1>4, <1>7, IncludedIs, NextLineIs DEF ReadFile
  <2>2. Reads(rule)' = Reads(rule)
    BY <1>0, <1>7 DEF Reads, ReadFile
  <2>3. \A p \in deps' : p \in Path /\ Exists(p) /\ Real(p) \in Reads(rule)
    BY <1>7, <2>1 DEF ReadFile, DepsSound
  <2>4. ASSUME NEW k \in 1..Len(stack') PROVE stack'[k].file \in deps'
    <3> DEFINE t == NextLine
               x == [file |-> Included, line |-> 1]
    <3>1. x.file = Included /\ stack' = Append(t, x) /\ deps' = deps \cup {Included} /\ t \in Seq(Frame)
      BY <1>7, <2>1 DEF ReadFile
    <3>2. \A i \in 1..Len(t) : t[i].file \in deps
      BY <2>1
    <3> HIDE DEF t, x
    <3>3. Len(t) \in Nat /\ k \in 1..(Len(t) + 1)
      BY <3>1
    <3>4. CASE k = Len(t) + 1
      BY <3>1, <3>4
    <3>5. CASE k \in 1..Len(t)
      <4>1. Append(t, x)[k] = t[k]
        BY <3>1, <3>5
      <4>2. QED BY <3>1, <3>2, <3>5, <4>1
    <3>6. QED BY <3>3, <3>4, <3>5
  <2>5. rule' = rule
    BY <1>7 DEF ReadFile
  <2>6. QED BY <2>2, <2>3, <2>4, <2>5 DEF DepsSound
<1>8. CASE CloseFile
  <2>1. stack # <<>> /\ stack \in Seq(Frame) /\ stack' = Front(stack)
    BY <1>8 DEF CloseFile, Types
  <2>2. \A k \in 1..Len(stack') : k \in 1..Len(stack) /\ stack'[k] = stack[k]
    <3>1. /\ Len(stack) \in Nat \ {0} /\ Len(Front(stack)) = Len(stack) - 1
          /\ \A i \in 1..(Len(stack) - 1) : Front(stack)[i] = stack[i]
      BY <2>1, FrontLast
    <3>2. QED BY <2>1, <3>1
  <2>3. \A k \in 1..Len(stack') : stack'[k].file \in deps \/ rule = NoRule
    BY <2>2 DEF DepsSound
  <2>4. QED BY <1>1, <1>8, <2>3 DEF CloseFile
<1>9. CASE Scanned
  BY <1>9 DEF Scanned, DepsSound
<1>10. CASE Collect \/ UNCHANGED vars
  <2>1. rule' = rule /\ deps' = deps /\ stack' = stack
    BY <1>10 DEF Collect, vars
  <2>2. \A k \in 1..Len(stack') : stack'[k].file \in deps \/ rule = NoRule
    BY <2>1 DEF DepsSound
  <2>3. QED BY <1>1, <2>1, <2>2
<1>11. QED BY <1>2, <1>3, <1>5, <1>6, <1>7, <1>8, <1>9, <1>10 DEF Next, Scanner

(* A rule's answer is remembered for all rules with the same source.       *)
LEMMA ListsSoundNext ==
  ASSUME SearchesAgree, Types, DepsSound, ListsSound, [Next]_vars
  PROVE  ListsSound'
<1>0. text' = text
  BY DEF Next, Scanner, CachedDependencies, Scan, NotFound, AlreadyRead, ReadFile, CloseFile,
         Scanned, Collect, vars
<1>1. \A r : Reads(r)' = Reads(r)
  BY <1>0, ReadsKept
<1>2. ASSUME NEW r \in Rule, NEW list, ListSound(r, list), Answer(r, list)
      PROVE  ListsSound'
  <2> DEFINE full == Extended(r, list)
  <2>1. ASSUME NEW s \in Rule, Input[s] = Input[r] PROVE ListSound(s, full)
    <3>1. Includes[s] = Includes[r] /\ Dynamic[s] = Dynamic[r]
      BY <2>1 DEF SearchesAgree, OneSetOfFlags
    <3>2. Reads(s) = Reads(r)
      BY <2>1, <3>1, ReadsSame
    <3>3. \A p \in full \ Range(Dynamic[s]) : Real(p) \in Reads(r)
      BY <1>2, <3>1 DEF ListSound, Extended
    <3> HIDE DEF full
    <3>4. QED BY <3>2, <3>3 DEF ListSound
  <2>2. /\ DOMAIN result' = DOMAIN result \cup {r} /\ result'[r] = full
        /\ \A y \in DOMAIN result \cup {r} : y # r => result'[y] = result[y]
        /\ DOMAIN cache' = DOMAIN cache \cup {Input[r]} /\ cache'[Input[r]] = full
        /\ \A y \in DOMAIN cache \cup {Input[r]} : y # Input[r] => cache'[y] = cache[y]
    BY <1>2, AnswerIs
  <2> HIDE DEF full
  <2>3. ASSUME NEW s \in DOMAIN result' PROVE ListSound(s, result'[s])
    <3>1. CASE s = r
      <4>1. result'[s] = full
        BY <3>1, <2>2
      <4>2. QED BY <1>2, <2>1, <3>1, <4>1
    <3>2. CASE s # r
      <4>1. s \in DOMAIN result /\ result'[s] = result[s]
        BY <2>2, <2>3, <3>2
      <4>2. QED BY <4>1 DEF ListsSound
    <3>3. QED BY <3>1, <3>2
  <2>4. ASSUME NEW s \in Rule, Input[s] \in DOMAIN cache' PROVE ListSound(s, cache'[Input[s]])
    <3>1. CASE Input[s] = Input[r]
      <4>1. cache'[Input[s]] = full
        BY <3>1, <2>2
      <4>2. QED BY <2>1, <3>1, <4>1
    <3>2. CASE Input[s] # Input[r]
      <4>1. Input[s] \in DOMAIN cache /\ cache'[Input[s]] = cache[Input[s]]
        BY <2>2, <2>4, <3>2
      <4>2. QED BY <4>1 DEF ListsSound
    <3>3. QED BY <3>1, <3>2
  <2>5. QED BY <1>1, <2>3, <2>4 DEF ListsSound, ListSound
<1>3. ASSUME NEW r \in todo, CachedDependencies(r) PROVE ListsSound'
  <2>1. r \in Rule /\ Input[r] \in DOMAIN cache
    BY <1>3 DEF CachedDependencies, Types
  <2>2. ListSound(r, cache[Input[r]])
    BY <2>1 DEF ListsSound
  <2>3. Answer(r, cache[Input[r]])
    BY <1>3 DEF CachedDependencies
  <2>4. QED BY <1>2, <2>1, <2>2, <2>3
<1>4. CASE Scanned
  <2>1. rule \in Rule /\ rule # NoRule
    BY <1>4 DEF Scanned, Types
  <2>2. ListSound(rule, deps)
    BY <2>1 DEF DepsSound, ListSound
  <2>3. Answer(rule, deps)
    BY <1>4 DEF Scanned
  <2>4. QED BY <1>2, <2>1, <2>2, <2>3
<1>5. ASSUME UNCHANGED <<cache, result>> PROVE ListsSound'
  BY <1>1, <1>5 DEF ListsSound, ListSound
<1>6. ASSUME NEW r \in todo, Scan(r) PROVE ListsSound'
  BY <1>5, <1>6 DEF Scan
<1>7. CASE NotFound
  BY <1>5, <1>7 DEF NotFound
<1>8. CASE AlreadyRead
  BY <1>5, <1>8 DEF AlreadyRead
<1>9. CASE ReadFile
  BY <1>5, <1>9 DEF ReadFile
<1>10. CASE CloseFile
  BY <1>5, <1>10 DEF CloseFile
<1>11. CASE Collect \/ UNCHANGED vars
  BY <1>5, <1>11 DEF Collect, vars
<1>12. QED BY <1>3, <1>4, <1>6, <1>7, <1>8, <1>9, <1>10, <1>11 DEF Next, Scanner

(* pm begins with nothing listed.                                          *)
LEMMA SoundInit ==
  ASSUME Init
  PROVE  SoundInv /\ CompleteInv
<1>1. DOMAIN Empty = {}
  BY DEF Empty
<1>2. <<>> \in Seq(Frame)
  BY EmptySeq
<1>3. Types
  BY <1>1, <1>2 DEF Init, Types
<1>4. DepsSound /\ DepsComplete
  BY DEF Init, DepsSound, DepsComplete
<1>5. ListsSound /\ ListsComplete
  BY <1>1 DEF Init, ListsSound, ListsComplete
<1>6. QED BY <1>3, <1>4, <1>5 DEF SoundInv, CompleteInv

(* No file that the compiler does not read, other than a dynamic header,   *)
(* makes a C rule run again: also for a process that has run out of file   *)
(* handles.                                                                *)
THEOREM NothingSuperfluous ==
  ASSUME SearchesAgree
  PROVE  Spec => []Sound
<1>1. Init => SoundInv
  BY SoundInit
<1>2. SoundInv /\ [Next]_vars => SoundInv'
  BY TypesNext, DepsSoundNext, ListsSoundNext DEF SoundInv
<1>3. SoundInv => Sound
  BY DEF SoundInv, ListsSound, ListSound, Sound
<1>4. QED BY <1>1, <1>2, <1>3, PTL DEF Spec

-----------------------------------------------------------------------------
(* Nothing is left out.                                                    *)

(* A line that is still to be read is the one at hand, or remains so.      *)
LEMMA LineTaken ==
  ASSUME Types, DepsSound, Reading, NEW p, NEW i \in Nat, ToBeRead(p, i),
         Len(stack') \in Nat, Len(stack) <= Len(stack'),
         \A k \in 1..Len(stack) : stack'[k] = NextLine[k]
  PROVE  ToBeRead(p, i)' \/ (p = Top.file /\ i = Top.line)
<1>1. rule # NoRule /\ stack # <<>>
  BY ReadingRule DEF Reading
<1>2. /\ Len(NextLine) = Len(stack)
      /\ \A k \in 1..Len(stack) : NextLine[k].file = stack[k].file
      /\ \A k \in 1..Len(stack) : k # Len(stack) => NextLine[k] = stack[k]
      /\ NextLine[Len(stack)].line = Top.line + 1
  BY <1>1, NextLineIs
<1>3. Len(stack) \in Nat \ {0} /\ Top = stack[Len(stack)] /\ Top.line \in Nat
  BY <1>1, TopIs DEF Frame
<1>4. PICK k \in 1..Len(stack) : stack[k].file = p /\ stack[k].line <= i
  BY DEF ToBeRead
<1>5. k \in 1..Len(stack') /\ stack'[k] = NextLine[k] /\ stack'[k].file = p
  <2>1. k \in 1..Len(stack')
    BY <1>3, <1>4
  <2>2. QED BY <1>2, <1>4, <2>1
<1>6. CASE k # Len(stack)
  <2>1. stack'[k].line <= i
    BY <1>2, <1>4, <1>5, <1>6
  <2>2. QED BY <1>5, <2>1 DEF ToBeRead
<1>7. CASE k = Len(stack) /\ i # Top.line
  <2>1. Top.line <= i /\ stack'[k].line = Top.line + 1
    BY <1>2, <1>3, <1>4, <1>5, <1>7
  <2> DEFINE n == Top.line
  <2>2. n \in Nat /\ n <= i /\ i # n /\ stack'[k].line = n + 1
    BY <1>3, <1>7, <2>1
  <2> HIDE DEF n
  <2>3. stack'[k].line <= i
    BY <2>2
  <2>4. QED BY <1>5, <2>3 DEF ToBeRead
<1>8. CASE k = Len(stack) /\ i = Top.line
  BY <1>3, <1>4, <1>8
<1>9. QED BY <1>6, <1>7, <1>8

(* Whatever a dependency includes is one or is still to be read, as long   *)
(* as files can be opened.                                                 *)
LEMMA DepsCompleteNext ==
  ASSUME SearchesAgree, Types, DepsSound, DepsComplete, Opened < MaxOpen, [Next]_vars
  PROVE  DepsComplete'
<1>0. text' = text
  BY DEF Next, Scanner, CachedDependencies, Scan, NotFound, AlreadyRead, ReadFile, CloseFile,
         Scanned, Collect, vars
<1>1. ASSUME rule # NoRule, rule' = rule, deps \subseteq deps', NEW p, NEW i, Followed(rule, p, i)
      PROVE  Followed(rule, p, i)'
  <2>1. {Real(q) : q \in deps} \subseteq {Real(q) : q \in deps'}
    BY <1>1
  <2> DEFINE A == {Real(q) : q \in deps}
             B == {Real(q) : q \in deps'}
             P == Preprocessed(rule, Real(p), text[Real(p)][i])
             L == Leaves(rule)
  <2>2. P \subseteq A \cup L
    BY <1>1 DEF Followed
  <2>3. A \subseteq B
    BY <2>1
  <2> HIDE DEF A, B, P, L
  <2>4. P \subseteq B \cup L
    BY <2>2, <2>3
  <2>5. QED BY <1>0, <1>1, <2>4 DEF Followed, A, B, P, L
<1>2. ASSUME NEW r \in todo, CachedDependencies(r) PROVE DepsComplete'
  BY <1>2, Instances DEF CachedDependencies, DepsComplete
<1>3. ASSUME NEW r \in todo, Scan(r) PROVE DepsComplete'
  <2>1. r \in Rule /\ rule' = r /\ deps' = {Input[r]} /\ stack = <<>>
    BY <1>3 DEF Scan, Types
  <2>2. CanOpen(Input[r])
    BY <2>1 DEF SearchesAgree, InputsExist, CanOpen
  <2>3. stack' = <<[file |-> Input[r], line |-> 1]>>
    BY <1>3, <2>2 DEF Scan
  <2> DEFINE x == [file |-> Input[r], line |-> 1]
  <2>4. stack' = <<x>> /\ x.file = Input[r] /\ x.line = 1
    BY <2>3
  <2> HIDE DEF x
  <2>5. 1 \in 1..Len(stack') /\ stack'[1] = x
    BY <2>4
  <2>6. ASSUME NEW p \in deps', NEW i \in 1..Len(text'[Real(p)]) PROVE ToBeRead(p, i)'
    <3>1. p = Input[r] /\ 1 <= i
      BY <2>1
    <3>2. stack'[1].file = p /\ stack'[1].line <= i
      BY <2>4, <2>5, <3>1
    <3>3. QED BY <2>5, <3>2 DEF ToBeRead
  <2>7. QED BY <2>1, <2>6 DEF DepsComplete
<1>4. ASSUME Reading, rule' = rule, deps \subseteq deps',
             Len(stack') \in Nat, Len(stack) <= Len(stack'),
             \A k \in 1..Len(stack) : stack'[k] = NextLine[k],
             Preprocessed(rule, Real(Top.file), Line) \subseteq {Real(q) : q \in deps'} \cup Leaves(rule),
             NEW p \in deps, NEW i \in 1..Len(text[Real(p)])
      PROVE  ToBeRead(p, i)' \/ Followed(rule, p, i)'
  <2>1. rule # NoRule
    BY <1>4, ReadingRule DEF Reading
  <2>2. CASE Followed(rule, p, i)
    BY <1>1, <1>4, <2>1, <2>2
  <2>3. CASE ToBeRead(p, i)
    <3>1. ToBeRead(p, i)' \/ (p = Top.file /\ i = Top.line)
      BY <1>4, <2>3, LineTaken
    <3>2. CASE p = Top.file /\ i = Top.line
      <4>1. text[Real(p)][i] = Line
        BY <3>2 DEF Line, Lines
      <4>2. Preprocessed(rule, Real(p), text[Real(p)][i]) \subseteq {Real(q) : q \in deps'} \cup Leaves(rule)
        BY <1>4, <3>2, <4>1
      <4>3. QED BY <1>0, <1>4, <4>2 DEF Followed
    <3>3. QED BY <3>1, <3>2
  <2>4. QED BY <2>1, <2>2, <2>3 DEF DepsComplete
<1>5. ASSUME Reading, stack' = NextLine, rule' = rule, deps' = deps,
             Preprocessed(rule, Real(Top.file), Line) \subseteq {Real(q) : q \in deps} \cup Leaves(rule)
      PROVE  DepsComplete'
  <2>1. rule # NoRule
    BY <1>5, ReadingRule DEF Reading
  <2>2. Len(stack') = Len(stack) /\ Len(stack) \in Nat
    BY <1>5, <2>1, NextLineIs DEF Types
  <2>3. ASSUME NEW p \in deps, NEW i \in 1..Len(text[Real(p)])
        PROVE  ToBeRead(p, i)' \/ Followed(rule, p, i)'
    BY <1>4, <1>5, <2>2
  <2>4. QED BY <1>0, <1>5, <2>1, <2>3 DEF DepsComplete
<1>6. CASE NotFound
  <2>1. Preprocessed(rule, Real(Top.file), Line) \subseteq Leaves(rule)
    BY <1>6, NothingThere, ReadingRule DEF NotFound, Reading
  <2>2. QED BY <1>5, <1>6, <2>1 DEF NotFound
<1>7. CASE AlreadyRead
  <2>1. Preprocessed(rule, Real(Top.file), Line) \subseteq {Real(Included)} \cup Leaves(rule)
    BY <1>7, IncludedIs, ReadingRule DEF AlreadyRead, Reading
  <2>2. Included \in deps
    BY <1>7 DEF AlreadyRead
  <2>3. Preprocessed(rule, Real(Top.file), Line) \subseteq {Real(q) : q \in deps} \cup Leaves(rule)
    BY <2>1, <2>2
  <2>4. QED BY <1>5, <1>7, <2>3 DEF AlreadyRead
<1>8. CASE ReadFile
  <2>1. /\ rule # NoRule /\ NextLine \in Seq(Frame) /\ Len(NextLine) = Len(stack)
        /\ Preprocessed(rule, Real(Top.file), Line) \subseteq {Real(Included)} \cup Leaves(rule)
        /\ Included \in Path
    BY <1>8, IncludedIs, NextLineIs, ReadingRule DEF ReadFile, Reading
  <2>2. /\ deps' = deps \cup {Included} /\ rule' = rule
        /\ stack' = Append(NextLine, [file |-> Included, line |-> 1])
    BY <1>8 DEF ReadFile
  <2>3. Preprocessed(rule, Real(Top.file), Line) \subseteq {Real(q) : q \in deps'} \cup Leaves(rule)
    <3>1. Included \in deps'
      BY <2>2
    <3>2. QED BY <2>1, <3>1
  <2> DEFINE t == NextLine
             x == [file |-> Included, line |-> 1]
             n == Len(stack)
  <2>4. x.file = Included /\ x.line = 1 /\ x \in Frame
    BY <2>1 DEF Frame
  <2>5. t \in Seq(Frame) /\ stack' = Append(t, x) /\ Len(t) = n
    BY <2>1, <2>2
  <2> HIDE DEF t, x
  <2>6. /\ n \in Nat /\ Len(stack') = n + 1 /\ stack'[n + 1] = x
        /\ \A k \in 1..n : stack'[k] = t[k]
    <3>1. Len(t) \in Nat /\ Len(stack') = Len(t) + 1 /\ stack'[Len(t) + 1] = x
      BY <2>4, <2>5
    <3>2. \A k \in 1..Len(t) : stack'[k] = t[k]
      BY <2>4, <2>5
    <3>3. QED BY <2>5, <3>1, <3>2
  <2> HIDE DEF n
  <2>7. Len(stack') \in Nat /\ n <= Len(stack') /\ n + 1 \in 1..Len(stack')
    BY <2>6
  <2>8. ASSUME NEW p \in deps, NEW i \in 1..Len(text[Real(p)])
        PROVE  ToBeRead(p, i)' \/ Followed(rule, p, i)'
    BY <1>4, <1>8, <2>2, <2>3, <2>6, <2>7 DEF ReadFile, n, t
  <2>9. ASSUME NEW q, q = Included, NEW i \in 1..Len(text[Real(q)]) PROVE ToBeRead(q, i)'
    <3>1. stack'[n + 1].file = q /\ stack'[n + 1].line <= i
      BY <2>4, <2>6, <2>9
    <3>2. QED BY <2>7, <3>1 DEF ToBeRead
  <2>10. ASSUME NEW q \in deps', NEW i \in 1..Len(text[Real(q)])
         PROVE  ToBeRead(q, i)' \/ Followed(rule, q, i)'
    <3>1. q \in deps \/ q = Included
      BY <2>2
    <3>2. QED BY <2>8, <2>9, <3>1
  <2>11. Input[rule] \in deps'
    BY <2>1, <2>2 DEF DepsComplete
  <2>12. QED BY <1>0, <2>1, <2>2, <2>10, <2>11 DEF DepsComplete
<1>9. CASE CloseFile
  <2>1. stack # <<>> /\ stack \in Seq(Frame) /\ stack' = Front(stack) /\ Top.line > Len(Lines)
    BY <1>9 DEF CloseFile, Types
  <2>2. rule # NoRule /\ rule' = rule /\ deps' = deps
    BY <1>9, <2>1, ReadingRule DEF CloseFile
  <2>3. /\ Len(stack) \in Nat \ {0} /\ Len(stack') = Len(stack) - 1
        /\ \A k \in 1..(Len(stack) - 1) : stack'[k] = stack[k]
    BY <2>1, FrontLast
  <2>4. Top = stack[Len(stack)] /\ Top.line \in Nat /\ Lines \in Seq(Directive)
    BY <2>1, <2>2, TopIs DEF Frame
  <2>5. ASSUME NEW p \in deps, NEW i \in 1..Len(text[Real(p)]), ToBeRead(p, i)
        PROVE  ToBeRead(p, i)'
    <3>1. PICK k \in 1..Len(stack) : stack[k].file = p /\ stack[k].line <= i
      BY <2>5 DEF ToBeRead
    <3>2. k # Len(stack)
      <4>1. SUFFICES ASSUME k = Len(stack) PROVE FALSE
        OBVIOUS
      <4>2. Lines = text[Real(p)] /\ Top.line <= i
        BY <2>4, <3>1, <4>1 DEF Lines
      <4>3. i <= Len(Lines) /\ i \in Nat /\ Len(Lines) \in Nat
        BY <2>4, <4>2
      <4> DEFINE a == Top.line
                 b == Len(Lines)
      <4>4. a > b /\ a \in Nat /\ b \in Nat /\ a <= i /\ i <= b
        BY <2>1, <2>4, <4>2, <4>3
      <4> HIDE DEF a, b
      <4>5. QED BY <4>3, <4>4
    <3>3. k \in 1..Len(stack') /\ stack'[k] = stack[k]
      BY <2>3, <3>1, <3>2
    <3>4. QED BY <3>1, <3>3 DEF ToBeRead
  <2>6. QED BY <1>0, <1>1, <2>2, <2>5 DEF DepsComplete
<1>10. CASE Scanned
  BY <1>10 DEF Scanned, DepsComplete
<1>11. CASE Collect \/ UNCHANGED vars
  <2>1. rule' = rule /\ deps' = deps /\ stack' = stack
    BY <1>11 DEF Collect, vars
  <2>2. ASSUME NEW p, NEW i PROVE ToBeRead(p, i)' <=> ToBeRead(p, i)
    BY <2>1 DEF ToBeRead
  <2>3. QED BY <1>0, <1>1, <2>1, <2>2 DEF DepsComplete
<1>12. QED BY <1>2, <1>3, <1>6, <1>7, <1>8, <1>9, <1>10, <1>11 DEF Next, Scanner

(* When the stack is empty, all that the compiler reads is on the list.    *)
LEMMA AllRead ==
  ASSUME SearchesAgree, Types, DepsSound, DepsComplete, rule # NoRule, stack = <<>>
  PROVE  ListComplete(rule, Extended(rule, deps))
<1> DEFINE S == {Real(q) : q \in deps} \cup Leaves(rule)
<1>1. \A p \in deps : \A i \in 1..Len(text[Real(p)]) : Followed(rule, p, i)
  <2>1. Len(stack) = 0
    BY EmptySeq
  <2>2. \A p, i : ~ToBeRead(p, i)
    BY <2>1 DEF ToBeRead
  <2>3. QED BY <2>2 DEF DepsComplete
<1>2. S \in SUBSET File
  <2>1. {Real(q) : q \in deps} \subseteq File
    BY DEF DepsSound, Exists
  <2>2. Leaves(rule) \subseteq File
    BY DEF Leaves
  <2>3. QED BY <2>1, <2>2
<1>3. Real(Input[rule]) \in S
  BY DEF DepsComplete
<1>4. ASSUME NEW f \in S, NEW d \in Range(text[f]) PROVE Preprocessed(rule, f, d) \subseteq S
  <2>1. CASE f \in Leaves(rule)
    <3>1. Directives(f) = {}
      BY <2>1 DEF Leaves
    <3>2. d \in Directives(f)
      BY <1>4 DEF Directives, Types
    <3>3. QED BY <3>1, <3>2
  <2>2. CASE f \in {Real(q) : q \in deps}
    <3>1. PICK p \in deps : f = Real(p)
      BY <2>2
    <3>2. text[f] \in Seq(Directive)
      <4>1. f \in File
        BY <1>2
      <4>2. QED BY <4>1, Instances DEF Types
    <3> DEFINE s == text[f]
    <3>3. PICK i \in 1..Len(s) : d = s[i]
      <4>1. s \in Seq(Directive) /\ d \in Range(s)
        BY <1>4, <3>2
      <4> HIDE DEF s
      <4>2. DOMAIN s = 1..Len(s)
        BY <4>1, LenProperties
      <4>3. QED BY <4>1, <4>2 DEF Range
    <3>4. Followed(rule, p, i)
      BY <1>1, <3>1, <3>3
    <3>5. QED BY <3>1, <3>3, <3>4 DEF Followed
  <2>3. QED BY <2>1, <2>2
<1>5. Reads(rule) \subseteq S
  <2>1. Within(rule, S)
    <3> HIDE DEF S
    <3>1. QED BY <1>3, <1>4 DEF Within
  <2> HIDE DEF S
  <2>2. QED BY <1>2, <2>1, ReadsLeast
<1>6. S \subseteq {Real(q) : q \in Extended(rule, deps)}
  <2>1. Leaves(rule) \subseteq {Real(q) : q \in Range(Dynamic[rule])}
    BY DEF Leaves
  <2>2. QED BY <2>1 DEF Extended
<1>7. QED BY <1>5, <1>6 DEF ListComplete

(* A complete list stays complete, and is so for all rules with the source.*)
LEMMA ListsCompleteNext ==
  ASSUME SearchesAgree, Types, DepsSound, DepsComplete, ListsComplete, [Next]_vars
  PROVE  ListsComplete'
<1>0. text' = text
  BY DEF Next, Scanner, CachedDependencies, Scan, NotFound, AlreadyRead, ReadFile, CloseFile,
         Scanned, Collect, vars
<1>1. \A r : Reads(r)' = Reads(r)
  BY <1>0, ReadsKept
<1>2. ASSUME NEW r \in Rule, NEW list, ListComplete(r, Extended(r, list)), Answer(r, list)
      PROVE  ListsComplete'
  <2> DEFINE full == Extended(r, list)
  <2>1. ASSUME NEW s \in Rule, Input[s] = Input[r] PROVE ListComplete(s, full)
    <3>1. Includes[s] = Includes[r] /\ Dynamic[s] = Dynamic[r]
      BY <2>1 DEF SearchesAgree, OneSetOfFlags
    <3>2. Reads(s) = Reads(r)
      BY <2>1, <3>1, ReadsSame
    <3>3. ListComplete(r, full)
      BY <1>2
    <3> HIDE DEF full
    <3>4. QED BY <3>2, <3>3 DEF ListComplete
  <2>2. /\ DOMAIN result' = DOMAIN result \cup {r} /\ result'[r] = full
        /\ \A y \in DOMAIN result \cup {r} : y # r => result'[y] = result[y]
        /\ DOMAIN cache' = DOMAIN cache \cup {Input[r]} /\ cache'[Input[r]] = full
        /\ \A y \in DOMAIN cache \cup {Input[r]} : y # Input[r] => cache'[y] = cache[y]
    BY <1>2, AnswerIs
  <2> HIDE DEF full
  <2>3. ASSUME NEW s \in DOMAIN result' PROVE ListComplete(s, result'[s])
    <3>1. CASE s = r
      BY <1>2, <2>1, <2>2, <3>1
    <3>2. CASE s # r
      <4>1. s \in DOMAIN result /\ result'[s] = result[s]
        BY <2>2, <2>3, <3>2
      <4>2. QED BY <4>1 DEF ListsComplete
    <3>3. QED BY <3>1, <3>2
  <2>4. ASSUME NEW s \in Rule, Input[s] \in DOMAIN cache' PROVE ListComplete(s, cache'[Input[s]])
    <3>1. CASE Input[s] = Input[r]
      BY <2>1, <2>2, <3>1
    <3>2. CASE Input[s] # Input[r]
      <4>1. Input[s] \in DOMAIN cache /\ cache'[Input[s]] = cache[Input[s]]
        BY <2>2, <2>4, <3>2
      <4>2. QED BY <4>1 DEF ListsComplete
    <3>3. QED BY <3>1, <3>2
  <2>5. QED BY <1>1, <2>3, <2>4 DEF ListsComplete, ListComplete
<1>3. ASSUME NEW r \in todo, CachedDependencies(r) PROVE ListsComplete'
  <2>1. r \in Rule /\ Input[r] \in DOMAIN cache
    BY <1>3 DEF CachedDependencies, Types
  <2>2. ListComplete(r, cache[Input[r]])
    BY <2>1 DEF ListsComplete
  <2>3. ListComplete(r, Extended(r, cache[Input[r]]))
    BY <2>2 DEF ListComplete, Extended
  <2>4. Answer(r, cache[Input[r]])
    BY <1>3 DEF CachedDependencies
  <2>5. QED BY <1>2, <2>1, <2>3, <2>4
<1>4. CASE Scanned
  <2>1. rule \in Rule /\ rule # NoRule
    BY <1>4 DEF Scanned, Types
  <2>2. ListComplete(rule, Extended(rule, deps))
    BY <1>4, <2>1, AllRead DEF Scanned
  <2>3. Answer(rule, deps)
    BY <1>4 DEF Scanned
  <2>4. QED BY <1>2, <2>1, <2>2, <2>3
<1>5. ASSUME UNCHANGED <<cache, result>> PROVE ListsComplete'
  BY <1>1, <1>5 DEF ListsComplete, ListComplete
<1>6. ASSUME NEW r \in todo, Scan(r) PROVE ListsComplete'
  BY <1>5, <1>6 DEF Scan
<1>7. CASE NotFound
  BY <1>5, <1>7 DEF NotFound
<1>8. CASE AlreadyRead
  BY <1>5, <1>8 DEF AlreadyRead
<1>9. CASE ReadFile
  BY <1>5, <1>9 DEF ReadFile
<1>10. CASE CloseFile
  BY <1>5, <1>10 DEF CloseFile
<1>11. CASE Collect \/ UNCHANGED vars
  BY <1>5, <1>11 DEF Collect, vars
<1>12. QED BY <1>3, <1>4, <1>6, <1>7, <1>8, <1>9, <1>10, <1>11 DEF Next, Scanner

(* Every file the compiler reads for a C rule is among the rule's          *)
(* dependencies, as long as the process has file handles left.             *)
THEOREM NothingLeftOut ==
  ASSUME SearchesAgree
  PROVE  Spec /\ [](Opened < MaxOpen) => []Complete
<1>1. Init => SoundInv /\ CompleteInv
  BY SoundInit
<1>2. (SoundInv /\ CompleteInv) /\ Opened < MaxOpen /\ [Next]_vars => (SoundInv /\ CompleteInv)'
  BY TypesNext, DepsSoundNext, ListsSoundNext, DepsCompleteNext, ListsCompleteNext
     DEF SoundInv, CompleteInv
<1>3. SoundInv /\ CompleteInv => Complete
  BY DEF CompleteInv, ListsComplete, ListComplete, Complete
<1>4. QED BY <1>1, <1>2, <1>3, PTL DEF Spec
=============================================================================
