-------------------------- MODULE CacheIndexProofs --------------------------
(***************************************************************************)
(* Proofs of the safety properties of CacheIndex, for any set of keys and  *)
(* any number of ids, kills and lost indexes.                              *)
(***************************************************************************)
EXTENDS CacheIndexInvariant, SequenceTheorems, FiniteSetTheorems,
        WellFoundedInduction, TLAPS

-----------------------------------------------------------------------------
(* The index file: what is saved is what is loaded.                        *)

(* Numbers come in pairs.                                                 *)
LEMMA Halves ==
  ASSUME NEW k \in Nat
  PROVE  \E m \in Nat : k = 2 * m \/ k = 2 * m - 1
<1>1. (k + 1) \div 2 \in Nat /\ (k = 2 * ((k + 1) \div 2) \/ k = 2 * ((k + 1) \div 2) - 1)
  OBVIOUS
<1>2. QED BY <1>1

(* A list and two more elements.                                           *)
LEMMA PairAppended ==
  ASSUME NEW X, NEW a \in Seq(X), NEW b \in Seq(X), NEW c \in Seq(X),
         Len(b) = 2 /\ Len(c) = Len(a) + 2,
         \A k \in 1..Len(a) : c[k] = a[k],
         c[Len(a) + 1] = b[1] /\ c[Len(a) + 2] = b[2]
  PROVE  c = a \o b
<1>1. /\ a \o b \in Seq(X) /\ Len(a \o b) = Len(a) + Len(b)
      /\ \A i \in 1..(Len(a) + Len(b)) : (a \o b)[i] = IF i <= Len(a) THEN a[i] ELSE b[i - Len(a)]
  BY ConcatProperties
<1>2. ASSUME NEW k \in 1..Len(c) PROVE c[k] = (a \o b)[k]
  <2>0. Len(a) \in Nat /\ k \in Nat /\ k \in 1..(Len(a) + Len(b)) OBVIOUS
  <2>1. CASE k <= Len(a)
    BY <1>1, <2>0, <2>1
  <2>2. CASE k = Len(a) + 1
    <3>1. k - Len(a) = 1 /\ ~(k <= Len(a)) BY <2>0, <2>2
    <3>2. QED BY <1>1, <2>0, <2>2, <3>1
  <2>3. CASE k = Len(a) + 2
    <3>1. k - Len(a) = 2 /\ ~(k <= Len(a)) BY <2>0, <2>3
    <3>2. QED BY <1>1, <2>0, <2>3, <3>1
  <2>4. k <= Len(a) \/ k = Len(a) + 1 \/ k = Len(a) + 2
    <3>1. k <= Len(a) + 2 OBVIOUS
    <3>2. QED BY <2>0, <3>1
  <2>5. QED BY <2>1, <2>2, <2>3, <2>4
<1>3. QED BY <1>1, <1>2, SeqEqual

(* Two lines.                                                              *)
LEMMA TwoLines ==
  ASSUME NEW X, NEW a \in X, NEW b \in X
  PROVE  <<a>> \o <<b>> = <<a, b>>
<1>1. <<a>> \in Seq(X) /\ <<b>> \in Seq(X) /\ <<a, b>> \in Seq(X)
  OBVIOUS
<1>2. Len(<<b>>) = 1 /\ Len(<<a>>) = 1 /\ Len(<<a, b>>) = 2
  OBVIOUS
<1>3. /\ <<a>> \o <<b>> \in Seq(X) /\ Len(<<a>> \o <<b>>) = 2
      /\ (<<a>> \o <<b>>)[1] = a /\ (<<a>> \o <<b>>)[2] = b
  <2>1. /\ <<a>> \o <<b>> \in Seq(X) /\ Len(<<a>> \o <<b>>) = Len(<<a>>) + Len(<<b>>)
        /\ \A i \in 1..(Len(<<a>>) + Len(<<b>>)) :
             (<<a>> \o <<b>>)[i] = IF i <= Len(<<a>>) THEN <<a>>[i] ELSE <<b>>[i - Len(<<a>>)]
    BY <1>1, ConcatProperties
  <2>2. QED BY <1>2, <2>1
<1>4. ASSUME NEW k \in 1..2 PROVE (<<a>> \o <<b>>)[k] = <<a, b>>[k]
  <2>1. k = 1 \/ k = 2 OBVIOUS
  <2>2. QED BY <1>3, <2>1
<1>5. QED BY <1>1, <1>2, <1>3, <1>4, SeqEqual

(* FlattenSeq of n pairs is the list of the 2n elements.                   *)
LEMMA FlattenPairs ==
  ASSUME NEW X, NEW n \in Nat, NEW s \in [1..n -> Seq(X)],
         \A i \in 1..n : Len(s[i]) = 2
  PROVE  /\ FlattenSeq(s) \in Seq(X)
         /\ Len(FlattenSeq(s)) = 2 * n
         /\ \A i \in 1..n : /\ FlattenSeq(s)[2 * i - 1] = s[i][1]
                            /\ FlattenSeq(s)[2 * i] = s[i][2]
<1>1. s \in Seq(Seq(X)) /\ Len(s) = n
  OBVIOUS
<1>2. CASE n = 0
  BY <1>1, <1>2 DEF FlattenSeq
<1>3. CASE n > 0
  <2> DEFINE half(k) == (k + 1) \div 2
             el(k) == IF k = 2 * half(k) THEN s[half(k)][2] ELSE s[half(k)][1]
             pre(i) == [k \in 1..(2 * i) |-> el(k)]
             g == [i \in 1..n |-> pre(i)]
             h == CHOOSE f : f = [i \in 1..Len(s) |-> IF i = 1 THEN s[i] ELSE f[i - 1] \o s[i]]
  <2>a. \A i \in 1..n : s[i] \in Seq(X) /\ Len(s[i]) = 2 /\ s[i][1] \in X /\ s[i][2] \in X
    OBVIOUS
  <2>b. ASSUME NEW i \in 1..n PROVE el(2 * i) = s[i][2] /\ el(2 * i - 1) = s[i][1]
    <3>1. half(2 * i) = i /\ half(2 * i - 1) = i
      OBVIOUS
    <3>2. 2 * i - 1 # 2 * i OBVIOUS
    <3>3. QED BY <3>1, <3>2
  <2> HIDE DEF el
  <2>1. ASSUME NEW i \in 0..n, NEW k \in 1..(2 * i) PROVE el(k) \in X
    <3>0. k \in Nat OBVIOUS
    <3>1. PICK m \in Nat : k = 2 * m \/ k = 2 * m - 1
      BY <3>0, Halves
    <3>2. m \in 1..n
      BY <3>1
    <3>3. s[m][1] \in X /\ s[m][2] \in X BY <2>a, <3>2
    <3>4. el(2 * m) = s[m][2] /\ el(2 * m - 1) = s[m][1] BY <2>b, <3>2
    <3>5. CASE k = 2 * m BY <3>3, <3>4, <3>5
    <3>6. CASE k = 2 * m - 1 BY <3>3, <3>4, <3>6
    <3>7. QED BY <3>1, <3>5, <3>6
  <2>2. ASSUME NEW i \in 0..n PROVE pre(i) \in Seq(X) /\ Len(pre(i)) = 2 * i /\ \A k \in 1..(2 * i) : pre(i)[k] = el(k)
    <3>1. \A k \in 1..(2 * i) : el(k) \in X BY <2>1
    <3>2. 2 * i \in Nat OBVIOUS
    <3>3. pre(i) \in [1..(2 * i) -> X] BY <3>1
    <3>4. QED BY <3>2, <3>3
  <2> HIDE DEF pre
  <2>3. ASSUME NEW i \in 1..n PROVE pre(i) = pre(i - 1) \o s[i]
    <3>0. i - 1 \in 0..n /\ i \in 0..n OBVIOUS
    <3>1. /\ pre(i - 1) \in Seq(X) /\ Len(pre(i - 1)) = 2 * (i - 1)
          /\ \A k \in 1..(2 * (i - 1)) : pre(i - 1)[k] = el(k)
      BY <3>0, <2>2
    <3>2. pre(i) \in Seq(X) /\ Len(pre(i)) = 2 * i /\ \A k \in 1..(2 * i) : pre(i)[k] = el(k)
      BY <3>0, <2>2
    <3>3. s[i] \in Seq(X) /\ Len(s[i]) = 2 /\ s[i][1] = el(2 * i - 1) /\ s[i][2] = el(2 * i)
      BY <2>a, <2>b
    <3> DEFINE m == 2 * (i - 1)
    <3>4. m \in Nat /\ 2 * i = m + 2 /\ 2 * i - 1 = m + 1 OBVIOUS
    <3> HIDE DEF m
    <3>7. 2 * (i - 1) = m BY DEF m
    <3>8. Len(pre(i - 1)) = m /\ Len(pre(i)) = Len(pre(i - 1)) + 2
      BY <3>1, <3>2, <3>4, <3>7
    <3>9. \A k \in 1..Len(pre(i - 1)) : pre(i)[k] = pre(i - 1)[k]
      <4>1. \A k \in 1..m : k \in 1..(2 * i) BY <3>4
      <4>2. QED BY ONLY <3>1, <3>2, <3>7, <3>8, <4>1
    <3>5. pre(i)[Len(pre(i - 1)) + 1] = s[i][1] /\ pre(i)[Len(pre(i - 1)) + 2] = s[i][2]
      <4>1. m + 1 \in 1..(2 * i) /\ m + 2 \in 1..(2 * i) BY <3>4
      <4>2. pre(i)[m + 1] = el(2 * i - 1) /\ pre(i)[m + 2] = el(2 * i) BY <3>2, <3>4, <4>1
      <4>3. QED BY ONLY <3>3, <3>8, <4>2
    <3>6. QED BY <3>1, <3>2, <3>3, <3>5, <3>8, <3>9, PairAppended
  <2>4. pre(1) = s[1]
    <3>1. 1 \in 1..n /\ 0 \in 0..n BY <1>3
    <3>2. pre(1) = pre(0) \o s[1] BY <2>3, <3>1
    <3>3. pre(0) = <<>> BY <2>2, <3>1
    <3>4. QED BY <2>a, <3>1, <3>2, <3>3
  <2>5. g = [i \in 1..Len(s) |-> IF i = 1 THEN s[i] ELSE g[i - 1] \o s[i]]
    <3>1. ASSUME NEW i \in 1..n PROVE pre(i) = IF i = 1 THEN s[i] ELSE g[i - 1] \o s[i]
      <4>1. CASE i = 1 BY <2>4, <4>1
      <4>2. CASE i # 1
        <5>1. i - 1 \in 1..n BY <4>2
        <5>2. g[i - 1] = pre(i - 1) BY <5>1
        <5>3. QED BY <2>3, <4>2, <5>2
      <4>3. QED BY <4>1, <4>2
    <3>2. QED BY <3>1, <1>1
  <2>6. h = [i \in 1..n |-> IF i = 1 THEN s[i] ELSE h[i - 1] \o s[i]]
    BY <2>5, <1>1
  <2>7. FlattenSeq(s) = h[n]
    BY <1>1, <1>3 DEF FlattenSeq
  <2> HIDE DEF g, h
  <2>8. \A i \in 1..n : h[i] = pre(i)
    <3> DEFINE Bad == {i \in 1..n : h[i] # pre(i)}
    <3> SUFFICES ASSUME Bad # {} PROVE FALSE
      OBVIOUS
    <3>1. PICK i \in Bad : \A j \in Bad : i <= j
      <4>1. Bad \subseteq Nat OBVIOUS
      <4> HIDE DEF Bad
      <4>2. Bad # {} OBVIOUS
      <4>3. PICK i \in Bad : \A j \in Bad : <<j, i>> \notin OpToRel(<, Nat)
         BY <4>1, <4>2, NatLessThanWellFounded, WFMin, Zenon
      <4>4. \A j \in Bad : ~(j < i) BY <4>1, <4>3 DEF OpToRel
      <4>5. QED BY <4>1, <4>4
    <3>2. CASE i = 1
      BY <3>1, <3>2, <2>4, <2>6
    <3>3. CASE i # 1
      <4>1. i - 1 \in 1..n /\ i - 1 \notin Bad BY <3>1, <3>3
      <4>2. h[i - 1] = pre(i - 1) BY <4>1
      <4>3. h[i] = h[i - 1] \o s[i] BY <3>3, <2>6
      <4>4. QED BY <4>2, <4>3, <2>3
    <3>4. QED BY <3>2, <3>3
  <2>9. ASSUME NEW i \in 1..n PROVE FlattenSeq(s)[2 * i - 1] = s[i][1] /\ FlattenSeq(s)[2 * i] = s[i][2]
    <3>1. n \in 1..n /\ n \in 0..n /\ 2 * i \in 1..(2 * n) /\ 2 * i - 1 \in 1..(2 * n) BY <1>3
    <3>2. QED BY <2>2, <2>7, <2>8, <2>b, <3>1
  <2>10. n \in 0..n /\ n \in 1..n BY <1>3
  <2>11. QED BY <2>2, <2>7, <2>8, <2>9, <2>10
<1>4. QED BY <1>2, <1>3

(* The lines after the first are the n pairs of the table t.               *)
PairsOf(lines, n, t) ==
  /\ Len(lines) = 2 * n + 1
  /\ t = [x \in DOMAIN t |-> t[x]]
  /\ DOMAIN t = {<<lines[2 * i]>> : i \in 1..n}
  /\ \A i, j \in 1..n : lines[2 * i] = lines[2 * j] => i = j
  /\ \A i \in 1..n : t[<<lines[2 * i]>>] = lines[2 * i + 1]

(* load_intermediate_cache: n pairs of lines whose first ones are distinct.*)
LEMMA LoadedPairs ==
  ASSUME NEW n \in Nat, NEW lines, NEW t, PairsOf(lines, n, t)
  PROVE  Loaded(lines) = t
<1> DEFINE pairs == 1..((Len(lines) - 1) \div 2)
           last(w) == CHOOSE i \in pairs :
                        /\ lines[2 * i] = w
                        /\ \A j \in pairs : lines[2 * j] = w => j <= i
<1>1. pairs = 1..n
  <2>1. (2 * n + 1 - 1) \div 2 = n
    OBVIOUS
  <2>2. QED BY <2>1 DEF PairsOf
<1>0. DOMAIN t = {<<lines[2 * i]>> : i \in 1..n} /\ Len(lines) = 2 * n + 1
  BY DEF PairsOf
<1>2. ASSUME NEW x \in DOMAIN t PROVE lines[2 * last(x[1]) + 1] = t[x]
  <2>1. PICK i \in 1..n : x = <<lines[2 * i]>>
    BY <1>0
  <2>2. x[1] = lines[2 * i]
    BY <2>1
  <2>3. last(x[1]) = i
    <3>1. \A j \in 1..n : lines[2 * j] = x[1] => j = i
      BY <2>2 DEF PairsOf
    <3>2. QED BY <1>1, <2>2, <3>1
  <2>4. QED BY <2>1, <2>3 DEF PairsOf
<1>3. Loaded(lines) = [x \in {<<lines[2 * i]>> : i \in pairs} |-> lines[2 * last(x[1]) + 1]]
  BY DEF Loaded
<1>4. t = [x \in DOMAIN t |-> t[x]]
  BY DEF PairsOf
<1> HIDE DEF last, pairs
<1>5. QED BY <1>0, <1>1, <1>2, <1>3, <1>4

(* Of an empty file nothing is loaded.                                     *)
LEMMA LoadedEmpty == Loaded(<<>>) = EmptyTable
<1>1. 1..((Len(<<>>) - 1) \div 2) = {}
  OBVIOUS
<1>2. QED BY <1>1 DEF Loaded, EmptyTable

(* In whatever order pairs() yields a table, each entry comes once.        *)
LEMMA OrderFacts ==
  ASSUME NEW S, IsFiniteSet(S), NEW order \in SetToSeqs(S)
  PROVE  \E n \in Nat : /\ n <= Cardinality(S) /\ Cardinality(S) \in Nat
                        /\ order \in [1..n -> S] /\ Len(order) = n
                        /\ S = {order[i] : i \in 1..n}
                        /\ \A i, j \in 1..n : order[i] = order[j] => i = j
<1> DEFINE n == Cardinality(S)
<1>1. n \in Nat
  BY FS_CardinalityType
<1>2. order \in [1..n -> S] /\ \A i, j \in 1..n : i # j => order[i] # order[j]
  BY DEF SetToSeqs
<1>3. order \in Injection(1..n, S)
  BY <1>2 DEF Injection, IsInjective
<1>4. Cardinality(1..n) = n
  BY <1>1, FS_Interval
<1>5. order \in Surjection(1..n, S)
  BY <1>3, <1>4, FS_Injection
<1>6. S = {order[i] : i \in 1..n}
  BY <1>2, <1>5 DEF Surjection
<1>7. n <= Cardinality(S) /\ Len(order) = n
  BY <1>1, <1>2
<1>8. QED BY <1>1, <1>2, <1>6, <1>7

(* save_intermediate_cache writes what load_intermediate_cache reads.      *)
LEMMA SavedLoaded ==
  ASSUME NEW c, NEW t, GoodTable(t, c), NEW order \in SetToSeqs(DOMAIN t)
  PROVE  /\ Saved(c, t, order) \in Seq(Word)
         /\ Len(Saved(c, t, order)) \in 1..(2 * MaxId + 1)
         /\ Saved(c, t, order)[1] = c
         /\ Loaded(Saved(c, t, order)) = t
<1>1. /\ c \in Nat /\ c <= MaxId /\ c \in Word /\ MaxId \in Nat
      /\ t = [x \in DOMAIN t |-> t[x]]
      /\ IsFiniteSet(DOMAIN t) /\ Cardinality(DOMAIN t) <= c
  BY BoundAssumption DEF GoodTable, Id, Word
<1>a. IsFiniteSet(DOMAIN t)
  BY <1>1
<1>2. PICK n \in Nat : /\ n <= Cardinality(DOMAIN t) /\ Cardinality(DOMAIN t) \in Nat
                       /\ order \in [1..n -> DOMAIN t] /\ Len(order) = n
                       /\ DOMAIN t = {order[i] : i \in 1..n}
                       /\ \A i, j \in 1..n : order[i] = order[j] => i = j
  BY ONLY <1>a, OrderFacts, order \in SetToSeqs(DOMAIN t)
<1> DEFINE s == [i \in 1..Len(order) |-> order[i] \o <<t[order[i]]>>]
           F == FlattenSeq(s)
           lines == Saved(c, t, order)
<1>3. ASSUME NEW i \in 1..n
      PROVE  /\ order[i] = <<order[i][1]>> /\ order[i][1] \in Word /\ t[order[i]] \in Word
             /\ s[i] = <<order[i][1], t[order[i]]>>
  <2>1. order[i] \in DOMAIN t
    BY <1>2
  <2>2. PICK l \in Line : order[i] = <<l>>
    BY <2>1 DEF GoodTable
  <2>3. t[order[i]] \in 1..c
    BY <2>1 DEF GoodTable
  <2>4. t[order[i]] \in Id
    BY <1>1, <2>3 DEF Id
  <2>7. l \in Word /\ t[order[i]] \in Word
    BY <2>4 DEF Word
  <2>5. order[i] \o <<t[order[i]]>> = <<l, t[order[i]]>>
    <3>1. <<l>> \o <<t[order[i]]>> = <<l, t[order[i]]>>
      BY ONLY <2>7, TwoLines
    <3>2. QED BY ONLY <2>2, <3>1
  <2>6. s[i] = <<l, t[order[i]]>> /\ order[i][1] = l
    <3>1. i \in 1..Len(order) BY <1>2
    <3>2. s[i] = order[i] \o <<t[order[i]]>> BY <3>1
    <3> HIDE DEF s
    <3>3. QED BY ONLY <2>2, <2>5, <3>2
  <2>8. QED BY ONLY <2>2, <2>6, <2>7
<1>4. s \in [1..n -> Seq(Word)] /\ \A i \in 1..n : Len(s[i]) = 2
  <2>1. DOMAIN s = 1..n /\ s = [i \in 1..n |-> s[i]]
    BY <1>2
  <2>2. ASSUME NEW i \in 1..n PROVE s[i] \in Seq(Word) /\ Len(s[i]) = 2
    <3> HIDE DEF s
    <3>1. /\ order[i][1] \in Word /\ t[order[i]] \in Word
          /\ s[i] = <<order[i][1], t[order[i]]>>
      BY <1>3
    <3>2. QED BY ONLY <3>1
  <2> HIDE DEF s
  <2>3. QED BY <2>1, <2>2
<1> HIDE DEF s
<1>5. /\ F \in Seq(Word) /\ Len(F) = 2 * n
      /\ \A i \in 1..n : F[2 * i - 1] = s[i][1] /\ F[2 * i] = s[i][2]
  BY <1>4, FlattenPairs
<1>6. lines = <<c>> \o F
  BY DEF Saved, s
<1> HIDE DEF F, lines
<1>7. /\ lines \in Seq(Word) /\ Len(lines) = 2 * n + 1 /\ lines[1] = c
      /\ \A k \in 1..(2 * n) : lines[k + 1] = F[k]
  <2>1. <<c>> \in Seq(Word) /\ Len(<<c>>) = 1 /\ <<c>>[1] = c
    BY <1>1
  <2>2. /\ lines \in Seq(Word) /\ Len(lines) = 1 + Len(F)
        /\ \A k \in 1..(1 + Len(F)) : lines[k] = IF k <= 1 THEN <<c>>[k] ELSE F[k - 1]
    BY <1>5, <1>6, <2>1, ConcatProperties
  <2>3. lines[1] = c
    <3>1. 1 \in 1..(1 + Len(F)) BY <1>5
    <3>2. QED BY <2>1, <2>2, <3>1
  <2>4. ASSUME NEW k \in 1..(2 * n) PROVE lines[k + 1] = F[k]
    <3>1. k + 1 \in 1..(1 + Len(F)) /\ ~(k + 1 <= 1) /\ (k + 1) - 1 = k BY <1>5
    <3>2. QED BY <2>2, <3>1
  <2>5. QED BY <1>5, <2>2, <2>3, <2>4
<1>8. ASSUME NEW i \in 1..n
      PROVE  lines[2 * i] = order[i][1] /\ lines[2 * i + 1] = t[order[i]]
  <2>1. 2 * i - 1 \in 1..(2 * n) /\ 2 * i \in 1..(2 * n) /\ (2 * i - 1) + 1 = 2 * i
    OBVIOUS
  <2>2. s[i][1] = order[i][1] /\ s[i][2] = t[order[i]]
    BY <1>3
  <2>3. QED BY <1>5, <1>7, <2>1, <2>2
<1>9. \A i \in 1..n : <<lines[2 * i]>> = order[i]
  BY <1>3, <1>8
<1>10. Loaded(lines) = t
  <2>1. DOMAIN t = {<<lines[2 * i]>> : i \in 1..n}
    <3>1. DOMAIN t = {order[i] : i \in 1..n} BY <1>2
    <3>2. {order[i] : i \in 1..n} = {<<lines[2 * i]>> : i \in 1..n} BY ONLY <1>9
    <3>3. QED BY ONLY <3>1, <3>2
  <2>2. ASSUME NEW i \in 1..n, NEW j \in 1..n, lines[2 * i] = lines[2 * j] PROVE i = j
    <3>1. order[i] = <<lines[2 * i]>> /\ order[j] = <<lines[2 * j]>> BY <1>9
    <3>2. order[i] = order[j] BY ONLY <2>2, <3>1
    <3>3. QED BY <1>2, <3>2
  <2>3. \A i \in 1..n : t[<<lines[2 * i]>>] = lines[2 * i + 1]
    BY <1>8, <1>9
  <2>4. Len(lines) = 2 * n + 1 /\ t = [x \in DOMAIN t |-> t[x]]
    BY <1>1, <1>7
  <2>5. PairsOf(lines, n, t)
    BY <2>1, <2>2, <2>3, <2>4 DEF PairsOf
  <2>6. QED BY ONLY n \in Nat, <2>5, LoadedPairs
<1>11. 2 * n + 1 \in 1..(2 * MaxId + 1)
  <2>1. c \in Nat /\ MaxId \in Nat /\ c <= MaxId
    BY <1>1
  <2>2. n <= c
    <3>1. Cardinality(DOMAIN t) <= c /\ n <= Cardinality(DOMAIN t) /\ Cardinality(DOMAIN t) \in Nat
      BY <1>1, <1>2
    <3>2. QED BY <2>1, <3>1
  <2>3. QED BY ONLY <2>1, <2>2, n \in Nat
<1>12. QED BY <1>7, <1>10, <1>11 DEF lines

(* A kill before the only buffer is written leaves an empty file.          *)
LEMMA CutShortEmpty ==
  ASSUME 2 * MaxId < Buffer, NEW lines \in Seq(Word), Len(lines) \in 1..(2 * MaxId + 1)
  PROVE  CutShort(lines) = {<<>>}
<1>1. Buffer \in Nat /\ MaxId \in Nat /\ 2 * MaxId + 1 <= Buffer
  BY BoundAssumption
<1>2. {m \in 0..Len(lines) : m * Buffer < Len(lines)} = {0}
  <2>1. Len(lines) \in Nat /\ 0 < Len(lines) /\ Len(lines) <= Buffer
    BY <1>1
  <2>2. ASSUME NEW m \in 0..Len(lines), m # 0 PROVE ~(m * Buffer < Len(lines))
    <3>1. m \in Nat /\ m >= 1 BY <2>1, <2>2
    <3>2. m * Buffer >= Buffer /\ m * Buffer \in Nat
      <4>1. PICK k \in Nat : m = k + 1
        <5>1. m - 1 \in Nat /\ m = (m - 1) + 1 BY <3>1
        <5>2. QED BY <5>1
      <4>2. k * Buffer \in Nat BY <1>1
      <4>3. m * Buffer = k * Buffer + Buffer BY <1>1, <4>1
      <4>4. QED BY <1>1, <4>2, <4>3
    <3>3. QED BY <1>1, <2>1, <3>2
  <2>3. 0 * Buffer = 0 BY <1>1
  <2>4. QED BY <2>1, <2>2, <2>3
<1>3. SubSeq(lines, 1, 0 * Buffer) = <<>>
  <2>1. 0 * Buffer = 0 BY <1>1
  <2>2. SubSeq(lines, 1, 0) = <<>> BY SubSeqEmpty
  <2>3. QED BY <2>1, <2>2
<1>4. QED BY <1>2, <1>3 DEF CutShort

(* Writing to a file that was truncated and not written to since.          *)
LEMMA OverEmpty == \A new \in Seq(Word) : Over(new, <<>>) = new
<1> SUFFICES ASSUME NEW new \in Seq(Word) PROVE Over(new, <<>>) = new
  OBVIOUS
<1>1. SubSeq(<<>>, Len(new) + 1, Len(<<>>)) = <<>>
  <2>1. <<>> \in Seq(Word) /\ Len(<<>>) = 0 /\ Len(new) + 1 > 0 /\ Len(new) + 1 \in Int OBVIOUS
  <2>2. QED BY <2>1, SubSeqEmpty
<1>2. QED BY <1>1, ConcatEmptySeq DEF Over

(* The table of a process that has loaded nothing.                         *)
LEMMA EmptyGood == GoodTable(EmptyTable, 0)
<1>1. DOMAIN EmptyTable = {} /\ EmptyTable = [x \in DOMAIN EmptyTable |-> EmptyTable[x]]
  BY DEF EmptyTable
<1>2. IsFiniteSet({}) /\ Cardinality({}) = 0
  BY FS_EmptySet
<1>3. 0 \in Id
  BY BoundAssumption DEF Id
<1>4. QED BY <1>1, <1>2, <1>3 DEF GoodTable

(* The next id for a new key.                                              *)
LEMMA Extended ==
  ASSUME NEW t, NEW c, GoodTable(t, c), c < MaxId, NEW l \in Line, <<l>> \notin DOMAIN t
  PROVE  /\ GoodTable(Assign(t, <<l>>, c + 1), c + 1)
         /\ <<l>> \in DOMAIN Assign(t, <<l>>, c + 1)
         /\ \A x \in DOMAIN t : /\ x \in DOMAIN Assign(t, <<l>>, c + 1)
                                /\ Assign(t, <<l>>, c + 1)[x] = t[x]
<1> DEFINE k == <<l>>
           e == Assign(t, k, c + 1)
<1>1. c \in Nat /\ c + 1 \in Id /\ MaxId \in Nat
  BY BoundAssumption DEF GoodTable, Id
<1>2. k \notin DOMAIN t /\ k \in {<<m>> : m \in Line}
  OBVIOUS
<1> HIDE DEF k
<1>3. e = [x \in DOMAIN t \cup {k} |-> IF x = k THEN c + 1 ELSE t[x]]
  BY DEF Assign
<1>4. DOMAIN e = DOMAIN t \cup {k} /\ e = [x \in DOMAIN e |-> e[x]]
  BY <1>3
<1>5. e[k] = c + 1 /\ \A x \in DOMAIN t : e[x] = t[x]
  BY <1>2, <1>3
<1> HIDE DEF e
<1>6. \A x \in DOMAIN t : t[x] \in 1..c
  BY DEF GoodTable
<1>7. \A x \in DOMAIN e : e[x] \in 1..(c + 1)
  BY <1>1, <1>4, <1>5, <1>6
<1>8. ASSUME NEW x \in DOMAIN e, NEW y \in DOMAIN e, e[x] = e[y] PROVE x = y
  <2>1. CASE x \in DOMAIN t /\ y \in DOMAIN t BY <1>5, <1>8, <2>1 DEF GoodTable
  <2>2. CASE x \in DOMAIN t /\ y = k BY <1>1, <1>5, <1>6, <1>8, <2>2
  <2>3. CASE x = k /\ y \in DOMAIN t BY <1>1, <1>5, <1>6, <1>8, <2>3
  <2>4. QED BY <1>4, <2>1, <2>2, <2>3
<1>9. IsFiniteSet(DOMAIN e) /\ Cardinality(DOMAIN e) <= c + 1
  <2>1. IsFiniteSet(DOMAIN t) /\ Cardinality(DOMAIN t) <= c
    BY DEF GoodTable
  <2>2. Cardinality(DOMAIN t) \in Nat
    BY <2>1, FS_CardinalityType
  <2>3. IsFiniteSet(DOMAIN t \cup {k}) /\ Cardinality(DOMAIN t \cup {k}) = Cardinality(DOMAIN t) + 1
    BY <1>2, <2>1, FS_AddElement
  <2>4. QED BY <1>1, <1>4, <2>1, <2>2, <2>3
<1>10. DOMAIN e \subseteq {<<m>> : m \in Line}
  BY <1>2, <1>4 DEF GoodTable
<1>11. GoodTable(e, c + 1)
  BY <1>1, <1>4, <1>7, <1>8, <1>9, <1>10 DEF GoodTable
<1>12. k \in DOMAIN e /\ \A x \in DOMAIN t : x \in DOMAIN e /\ e[x] = t[x]
  BY <1>4, <1>5
<1>13. QED BY <1>11, <1>12 DEF e, k

-----------------------------------------------------------------------------
(* One step of the one process.                                            *)

(* When it has stopped, only the disk matters.                             *)
LEMMA Ended ==
  ASSUME IInv, NEW p \in Process, End(p)
  PROVE  /\ ProcessInv(p)'
         /\ pc'[p] = "off" /\ pc' \in [Process -> {"off", "wiping", "ready", "saving", "build"}]
         /\ DOMAIN table' = Process /\ DOMAIN count' = Process /\ DOMAIN todo' = Process
         /\ node' \in [Process -> Key]
<1>1. /\ pc'[p] = "off" /\ pc' \in [Process -> {"off", "wiping", "ready", "saving", "build"}]
      /\ DOMAIN table' = Process /\ DOMAIN count' = Process /\ DOMAIN todo' = Process
      /\ node' \in [Process -> Key]
  BY DEF IInv, Types, End
<1>2. table'[p] = EmptyTable /\ count'[p] = 0 /\ p \notin writers'
  BY DEF IInv, Types, End
<1>3. QED BY <1>1, <1>2 DEF ProcessInv, NothingLoaded

(* What is removed need not be found again.                                *)
LEMMA KeptLess ==
  ASSUME NEW t, Kept(t), made' = made \/ \E f : made' = Restrict(made, DOMAIN made \ {f})
  PROVE  Kept(t)' /\ \A u \in DOMAIN made' : u \in DOMAIN made /\ made'[u] = made[u]
<1>1. \A u \in DOMAIN made' : u \in DOMAIN made /\ made'[u] = made[u]
  BY DEF Restrict
<1>2. QED BY <1>1 DEF Kept

(* What the invariant says of one process.                                 *)
LEMMA AloneNext ==
  ASSUME OneProcess, NEW p \in Process,
         Types', DiskInv', ProcessInv(p)'
  PROVE  IInv'
BY DEF OneProcess, IInv

(* The index is empty after a kill, when it is not being written.          *)
LEMMA NotSaving ==
  ASSUME OneProcess, IInv, NEW p \in Process, pc[p] # "saving", index = <<>>
  PROVE  crashes > 0
BY DEF IInv, DiskInv, OneProcess

(* The steps that leave the index as it is and remove what they remove.    *)
LEMMA DiskKept ==
  ASSUME OneProcess, IInv, NEW p \in Process, pc[p] # "saving",
         index' = index, crashes' = crashes,
         made' = made \/ \E f : made' = Restrict(made, DOMAIN made \ {f})
  PROVE  DiskInv' /\ \A u \in DOMAIN made' : made'[u] \in Key
<1>1. \A u \in DOMAIN made' : u \in DOMAIN made /\ made'[u] = made[u]
  BY DEF Restrict
<1>2. Kept(Loaded(index)) => Kept(Loaded(index))'
  BY <1>1 DEF Kept
<1>3. index = <<>> => crashes > 0
  BY NotSaving
<1>4. DiskInv'
  BY <1>2, <1>3 DEF IInv, DiskInv, Whole
<1>5. QED BY <1>1, <1>4 DEF IInv, Types

(* -p, or a lost index: everything in the directory is to be deleted.      *)
LEMMA StartWipeKeeps ==
  ASSUME OneProcess, IInv, NEW p \in Process, NEW purge \in BOOLEAN, StartWipe(p, purge)
  PROVE  IInv'
<1>1. pc[p] = "off" /\ NothingLoaded(p) /\ p \notin writers
  BY DEF IInv, ProcessInv, StartWipe
<1>2. Types' /\ pc'[p] = "wiping" /\ todo'[p] = DOMAIN made \cup {IndexFile}
  BY DEF IInv, Types, StartWipe
<1>3. DiskInv'
  BY <1>1, DiskKept DEF StartWipe
<1>4. ProcessInv(p)'
  BY <1>1, <1>2 DEF ProcessInv, NothingLoaded, StartWipe
<1>5. QED BY <1>2, <1>3, <1>4, AloneNext

(* A file is deleted: the index, or what lies under an id.                 *)
LEMMA WipeKeeps ==
  ASSUME OneProcess, NoneOfThese, IInv, NEW p \in Process, NEW f \in todo[p], Wipe(p, f)
  PROVE  IInv'
<1>1. pc[p] = "wiping" /\ NothingLoaded(p) /\ p \notin writers
      /\ DOMAIN made \subseteq todo[p] /\ (index # Missing => IndexFile \in todo[p])
  BY DEF IInv, ProcessInv, Wipe
<1>2. /\ pc' = pc /\ table' = table /\ count' = count /\ node' = node /\ crashes' = crashes
      /\ todo'[p] = todo[p] \ {f} /\ DOMAIN todo' = Process
      /\ made' = Restrict(made, DOMAIN made \ {f})
      /\ index' = IF f = IndexFile THEN Missing ELSE index
      /\ p \notin writers'
  BY <1>1 DEF IInv, Types, Wipe
<1>3. \A u \in DOMAIN made' : u \in DOMAIN made /\ u # f /\ made'[u] = made[u]
  BY <1>2 DEF Restrict
<1>4. Types'
  BY <1>2, <1>3 DEF IInv, Types
<1>5. DiskInv'
  <2>1. CASE f = IndexFile
    <3>1. index' = Missing BY <1>2, <2>1
    <3>2. <<>> \in Seq(Word) OBVIOUS
    <3>3. Missing # <<>> BY <3>2 DEF NoneOfThese
    <3>4. QED BY <3>1, <3>3 DEF DiskInv, Whole
  <2>2. CASE f # IndexFile
    BY <1>1, <1>2, <2>2, DiskKept
  <2>3. QED BY <2>1, <2>2
<1>6. DOMAIN made' \subseteq todo'[p] /\ (index' # Missing => IndexFile \in todo'[p])
  BY <1>1, <1>2, <1>3
<1>7. ProcessInv(p)'
  BY <1>1, <1>2, <1>6 DEF ProcessInv, NothingLoaded
<1>8. QED BY <1>4, <1>5, <1>7, AloneNext

(* The directory is empty, and ids begin with 1 again.                     *)
LEMMA WipeDoneKeeps ==
  ASSUME OneProcess, IInv, NEW p \in Process, WipeDone(p)
  PROVE  IInv'
<1>1. pc[p] = "wiping" /\ NothingLoaded(p) /\ p \notin writers
      /\ DOMAIN made = {} /\ index = Missing
  BY DEF IInv, ProcessInv, WipeDone
<1>2. /\ Types' /\ pc'[p] = "ready"
      /\ table'[p] = EmptyTable /\ count'[p] = 0 /\ writers' = writers
      /\ DOMAIN made' = {} /\ index' = Missing
  BY <1>1 DEF IInv, Types, WipeDone, memory, NothingLoaded
<1>3. DiskInv'
  BY <1>1, DiskKept DEF WipeDone, memory
<1>4. GoodTable(table[p], count[p])'
  BY <1>2, EmptyGood
<1>5. Counts(p)'
  BY <1>2, <1>4 DEF Counts, Kept, NothingLoaded
<1>6. ProcessInv(p)'
  BY <1>1, <1>2, <1>5 DEF ProcessInv
<1>7. QED BY <1>2, <1>3, <1>6, AloneNext

(* A good index becomes a good table; an empty one leaves no counter.      *)
LEMMA LoadKeeps ==
  ASSUME OneProcess, IInv, NEW p \in Process, Load(p)
  PROVE  IInv'
<1>1. pc[p] = "off" /\ p \notin writers /\ index # Missing
  BY DEF IInv, ProcessInv, Load
<1>2. /\ Types' /\ pc'[p] = "ready" /\ writers' = writers /\ index' = index /\ made' = made
      /\ table'[p] = Loaded(index) /\ crashes' = crashes
      /\ count'[p] = IF index = <<>> THEN NoCounter ELSE index[1]
  BY DEF IInv, Types, Load
<1>3. DiskInv'
  BY <1>1, DiskKept DEF Load
<1>4. CASE index = <<>>
  <2>1. crashes > 0 BY <1>1, <1>4, NotSaving
  <2>2. NoCount(p)' BY <1>2, <1>4, <2>1, LoadedEmpty DEF NoCount
  <2>3. QED BY <1>1, <1>2, <1>3, <2>2, AloneNext DEF ProcessInv
<1>5. CASE index # <<>>
  <2>1. GoodTable(Loaded(index), index[1]) /\ Kept(Loaded(index))
    BY <1>1, <1>5 DEF IInv, DiskInv, Whole
  <2>2. GoodTable(table[p], count[p])' BY <1>2, <1>5, <2>1
  <2>3. Kept(table[p])' BY <1>2, <2>1 DEF Kept
  <2>4. (Whole /\ index[1] = count[p] /\ Loaded(index) = table[p])'
    BY <1>1, <1>2, <1>5 DEF Whole
  <2>5. Counts(p)' BY <1>2, <2>2, <2>3, <2>4 DEF Counts
  <2>6. QED BY <1>1, <1>2, <1>3, <2>5, AloneNext DEF ProcessInv
<1>6. QED BY <1>4, <1>5

(* A wipe that gives up leaves the index, or nothing that it named.        *)
LEMMA CannotWipeKeeps ==
  ASSUME OneProcess, IInv, NEW p \in Process, CannotWipe(p)
  PROVE  IInv'
<1>1. pc[p] # "saving" /\ index' = index /\ crashes' = crashes /\ made' = made /\ End(p)
  BY DEF CannotWipe
<1>2. DiskInv' /\ \A u \in DOMAIN made' : made'[u] \in Key
  BY <1>1, DiskKept
<1>3. ProcessInv(p)' /\ Types'
  BY <1>1, <1>2, Ended DEF IInv, Types
<1>4. QED BY <1>2, <1>3, AloneNext

(* An end between two rules, or one without an id.                         *)
LEMMA FinishKeeps ==
  ASSUME OneProcess, IInv, NEW p \in Process, Finish(p) \/ \E k \in Key : NoId(p, k)
  PROVE  IInv'
<1>1. pc[p] # "saving" /\ index' = index /\ crashes' = crashes /\ made' = made /\ End(p)
  BY DEF Finish, NoId
<1>2. DiskInv' /\ \A u \in DOMAIN made' : made'[u] \in Key
  BY <1>1, DiskKept
<1>3. ProcessInv(p)' /\ Types'
  BY <1>1, <1>2, Ended DEF IInv, Types
<1>4. QED BY <1>2, <1>3, AloneNext

(* The outputs of a failed rule are removed.                               *)
LEMMA FailKeeps ==
  ASSUME OneProcess, IInv, NEW p \in Process, Fail(p)
  PROVE  IInv'
<1>1. pc[p] # "saving" /\ index' = index /\ crashes' = crashes /\ End(p)
      /\ \E f : made' = Restrict(made, DOMAIN made \ {f})
  BY DEF Fail
<1>2. DiskInv' /\ \A u \in DOMAIN made' : made'[u] \in Key
  BY <1>1, DiskKept
<1>3. ProcessInv(p)' /\ Types'
  BY <1>1, <1>2, Ended DEF IInv, Types
<1>4. QED BY <1>2, <1>3, AloneNext

(* Only while it has no count is a process without a good table.           *)
LEMMA CountsWhen ==
  ASSUME IInv, NEW p \in Process,
         pc[p] \in {"saving", "build"} \/ (pc[p] = "ready" /\ count[p] # NoCounter)
         \/ (pc[p] = "ready" /\ DOMAIN table[p] # {})
  PROVE  Counts(p) /\ (p \in writers <=> pc[p] = "saving")
<1>1. NoCount(p) \/ Counts(p)
  BY DEF IInv, ProcessInv
<1>2. DOMAIN EmptyTable = {}
  BY DEF EmptyTable
<1>3. ~NoCount(p)
  BY <1>2 DEF NoCount
<1>4. QED BY <1>1, <1>3 DEF IInv, ProcessInv

(* A key of the table keeps its id.                                        *)
LEMMA KnownKeyKeeps ==
  ASSUME OneProcess, IInv, NEW p \in Process, NEW k \in Key, KnownKey(p, k)
  PROVE  IInv'
<1>1. pc[p] = "ready" /\ LinesOf[k] \in DOMAIN table[p]
  BY DEF KnownKey, Reach
<1>2. Counts(p) /\ p \notin writers
  BY <1>1, CountsWhen
<1>3. /\ Types' /\ pc'[p] = "build" /\ table' = table /\ count' = count /\ writers' = writers
      /\ index' = index /\ made' = made /\ node'[p] = k /\ crashes' = crashes
  BY DEF IInv, Types, KnownKey, Reach
<1>4. DiskInv'
  BY <1>1, <1>3, DiskKept
<1>5. Text(p)' \in DOMAIN table'[p]
  BY <1>1, <1>3 DEF Text
<1>6. Counts(p)'
  BY <1>1, <1>2, <1>3, <1>5 DEF Counts, Kept, Whole, NothingLoaded
<1>7. ProcessInv(p)'
  BY <1>2, <1>3, <1>6 DEF ProcessInv
<1>8. QED BY <1>3, <1>4, <1>7, AloneNext

(* The next id is nobody's; the index is empty until it is saved.          *)
LEMMA NewKeyKeeps ==
  ASSUME OneProcess, OneLine, NoneOfThese, IInv, NEW p \in Process, NEW k \in Key, NewKey(p, k)
  PROVE  IInv'
<1>1. pc[p] = "ready" /\ count[p] # NoCounter /\ count[p] < MaxId /\ LinesOf[k] \notin DOMAIN table[p]
  BY DEF NewKey, Reach
<1>2. Counts(p)
  BY <1>1, CountsWhen
<1> DEFINE t == Assign(table[p], LinesOf[k], count[p] + 1)
<1>3. /\ Types' /\ pc'[p] = "saving" /\ table'[p] = t /\ count'[p] = count[p] + 1
      /\ p \in writers' /\ index' = <<>> /\ made' = made /\ node'[p] = k
  BY DEF IInv, Types, NewKey, Reach
<1>4. PICK l \in Line : LinesOf[k] = <<l>>
  <2>1. LinesOf[k] \in Seq(Line) /\ Len(LinesOf[k]) = 1
    BY KeyAssumption DEF OneLine
  <2>2. QED BY <2>1
<1>5. /\ GoodTable(t, count[p] + 1) /\ LinesOf[k] \in DOMAIN t
      /\ \A x \in DOMAIN table[p] : x \in DOMAIN t /\ t[x] = table[p][x]
  <2>1. GoodTable(table[p], count[p]) BY <1>2 DEF Counts
  <2>2. QED BY <1>1, <1>4, <2>1, Extended
<1> HIDE DEF t
<1>6. \A u \in DOMAIN made' : LinesOf[made'[u]] \in DOMAIN t /\ t[LinesOf[made'[u]]] = u
  BY <1>2, <1>3, <1>5 DEF Counts, Kept
<1>7. DiskInv'
  BY <1>3 DEF DiskInv, Whole
<1>8. Text(p)' \in DOMAIN table'[p]
  BY <1>3, <1>5 DEF Text
<1>9. GoodTable(table[p], count[p])' /\ Kept(table[p])'
  BY <1>3, <1>5, <1>6 DEF Kept
<1>10. Counts(p)'
  BY <1>3, <1>8, <1>9 DEF Counts
<1>11. ProcessInv(p)'
  BY <1>3, <1>10 DEF ProcessInv
<1>12. QED BY <1>3, <1>7, <1>11, AloneNext

(* The index is the table again.                                           *)
LEMMA SaveKeeps ==
  ASSUME OneProcess, NoneOfThese, IInv, NEW p \in Process, Save(p)
  PROVE  IInv'
<1>1. pc[p] = "saving"
  BY DEF Save
<1>2. Counts(p) /\ p \in writers
  BY <1>1, CountsWhen
<1>3. GoodTable(table[p], count[p]) /\ index = <<>>
  BY <1>1, <1>2 DEF Counts
<1>4. PICK order \in SetToSeqs(DOMAIN table[p]) :
         index' = Over(Saved(count[p], table[p], order), <<>>)
  BY <1>2, <1>3 DEF Save
<1>5. /\ Saved(count[p], table[p], order) \in Seq(Word)
      /\ Len(Saved(count[p], table[p], order)) \in 1..(2 * MaxId + 1)
      /\ Saved(count[p], table[p], order)[1] = count[p]
      /\ Loaded(Saved(count[p], table[p], order)) = table[p]
  BY <1>3, SavedLoaded
<1>6. index' = Saved(count[p], table[p], order)
  BY <1>4, <1>5, OverEmpty
<1>7. index' \in Seq(Word) /\ index' # <<>> /\ index'[1] = count[p] /\ Loaded(index') = table[p]
  <2>1. index' \in Seq(Word) /\ Len(index') >= 1
    BY <1>5, <1>6
  <2>2. index' # <<>>
    BY <2>1
  <2>3. QED BY <1>5, <1>6, <2>1, <2>2
<1>8. index' # Missing
  BY <1>7 DEF NoneOfThese
<1>9. /\ Types' /\ pc'[p] = "build" /\ table' = table /\ count' = count /\ node' = node
      /\ made' = made /\ p \notin writers'
  BY DEF IInv, Types, Save
<1>10. GoodTable(table[p], count[p])' /\ Kept(table[p])'
  BY <1>2, <1>9 DEF Counts, Kept
<1>11. Whole'
  BY <1>7, <1>8 DEF Whole
<1>12. Loaded(index)' = table'[p] /\ index'[1] = count'[p]
  BY <1>7, <1>9
<1>13. DiskInv'
  <2>1. GoodTable(Loaded(index), index[1])' BY <1>10, <1>12
  <2>2. Kept(Loaded(index))' BY <1>10, <1>12 DEF Kept
  <2>3. QED BY <1>7, <2>1, <2>2 DEF DiskInv
<1>14. Counts(p)'
  <2>1. Text(p)' \in DOMAIN table'[p]
    BY <1>1, <1>2, <1>9 DEF Counts, Text
  <2>2. QED BY <1>9, <1>10, <1>11, <1>12, <2>1 DEF Counts
<1>15. ProcessInv(p)'
  BY <1>9, <1>14 DEF ProcessInv
<1>16. QED BY <1>9, <1>13, <1>15, AloneNext

(* A rule that is up to date changes nothing.                              *)
LEMMA SkipKeeps ==
  ASSUME OneProcess, IInv, NEW p \in Process, Skip(p)
  PROVE  IInv'
<1>1. pc[p] = "build"
  BY DEF Skip
<1>2. Counts(p) /\ p \notin writers
  BY <1>1, CountsWhen
<1>3. /\ Types' /\ pc'[p] = "ready" /\ table' = table /\ count' = count /\ writers' = writers
      /\ index' = index /\ made' = made /\ node' = node /\ crashes' = crashes
  BY DEF IInv, Types, Skip, memory
<1>4. DiskInv'
  BY <1>1, <1>3, DiskKept
<1>5. Counts(p)'
  BY <1>1, <1>2, <1>3 DEF Counts, Kept, Whole, NothingLoaded
<1>6. ProcessInv(p)'
  BY <1>2, <1>3, <1>5 DEF ProcessInv
<1>7. QED BY <1>3, <1>4, <1>6, AloneNext

(* The outputs are found under the id that the table and the index have.   *)
LEMMA MakeKeeps ==
  ASSUME OneProcess, NoneOfThese, IInv, NEW p \in Process, Make(p)
  PROVE  IInv'
<1>1. pc[p] = "build"
  BY DEF Make
<1>2. Counts(p) /\ p \notin writers /\ node[p] \in Key
  BY <1>1, CountsWhen DEF IInv, Types
<1>3. /\ pc' \in [Process -> {"off", "wiping", "ready", "saving", "build"}]
      /\ pc'[p] = "ready" /\ table' = table /\ count' = count /\ writers' = writers
      /\ index' = index /\ node' = node /\ crashes' = crashes /\ todo' = todo
      /\ made' = Assign(made, table[p][Text(p)], node[p])
  BY DEF IInv, Types, Make, memory
<1>4. Text(p) = LinesOf[node[p]] /\ Text(p) \in DOMAIN table[p]
  BY <1>1, <1>2 DEF Counts, Text
<1>5. \A u \in DOMAIN made' : \/ u = table[p][Text(p)] /\ made'[u] = node[p]
                              \/ u \in DOMAIN made /\ made'[u] = made[u]
  BY <1>3 DEF Assign
<1>6. Types'
  <2>1. \A u \in DOMAIN made' : made'[u] \in Key BY <1>2, <1>5 DEF IInv, Types
  <2>2. QED BY <1>3, <2>1 DEF IInv, Types
<1>7. Kept(table[p])'
  BY <1>2, <1>3, <1>4, <1>5 DEF Counts, Kept
<1>8. Counts(p)'
  BY <1>1, <1>2, <1>3, <1>7 DEF Counts, Whole, NothingLoaded
<1>9. DiskInv'
  <2>1. CASE index = Missing
    <3>1. ~Whole' /\ index' # <<>>
      <4>1. <<>> \in Seq(Word) OBVIOUS
      <4>2. Missing # <<>> BY <4>1 DEF NoneOfThese
      <4>3. QED BY <1>3, <2>1, <4>2 DEF Whole
    <3>2. QED BY <3>1 DEF DiskInv
  <2>2. CASE Whole /\ index[1] = count[p] /\ Loaded(index) = table[p]
    <3>1. GoodTable(Loaded(index), index[1])' BY <1>2, <1>3, <2>2 DEF Counts
    <3>2. Kept(Loaded(index))' BY <1>3, <1>7, <2>2 DEF Kept
    <3>3. QED BY <1>3, <2>2, <3>1, <3>2 DEF DiskInv, Whole
  <2>3. QED BY <1>1, <1>2, <2>1, <2>2 DEF Counts
<1>10. ProcessInv(p)'
  BY <1>2, <1>3, <1>8 DEF ProcessInv
<1>11. QED BY <1>6, <1>9, <1>10, AloneNext

(* A kill while the index is written leaves an empty file.                 *)
LEMMA CrashKeeps ==
  ASSUME OneProcess, NotCutShort, NoneOfThese, IInv, NEW p \in Process, Crash(p)
  PROVE  IInv'
<1>1. crashes' = crashes + 1 /\ crashes < MaxCrashes /\ End(p) /\ made' = made
  BY DEF Crash
<1>2. /\ crashes \in Nat /\ crashes' > 0 /\ crashes' \in 0..MaxCrashes
      /\ MaxCrashes # 0
  BY <1>1, BoundAssumption DEF IInv, Types
<1>0. 2 * MaxId < Buffer
  BY <1>2 DEF NotCutShort
<1>3. ProcessInv(p)' /\ Types'
  BY <1>1, <1>2, Ended DEF IInv, Types
<1>4. DiskInv'
  <2>1. CASE pc[p] = "saving"
    <3>1. Counts(p) /\ p \in writers BY <2>1, CountsWhen
    <3>2. GoodTable(table[p], count[p]) /\ index = <<>> BY <2>1, <3>1 DEF Counts
    <3>3. PICK order \in SetToSeqs(DOMAIN table[p]) :
             \E lines \in CutShort(Saved(count[p], table[p], order)) : index' = Over(lines, <<>>)
      BY <2>1, <3>1, <3>2 DEF Crash
    <3>4. /\ Saved(count[p], table[p], order) \in Seq(Word)
          /\ Len(Saved(count[p], table[p], order)) \in 1..(2 * MaxId + 1)
      BY <3>2, SavedLoaded
    <3>5. CutShort(Saved(count[p], table[p], order)) = {<<>>}
      BY <1>0, <3>4, CutShortEmpty
    <3>6. index' = Over(<<>>, <<>>)
      BY <3>3, <3>5
    <3>7. index' = <<>>
      <4>1. <<>> \in Seq(Word) OBVIOUS
      <4>2. QED BY <3>6, <4>1, OverEmpty
    <3>8. QED BY <1>2, <3>7 DEF DiskInv, Whole
  <2>2. CASE pc[p] # "saving"
    <3>1. index' = index BY <2>2 DEF Crash
    <3>2. Kept(Loaded(index)) => Kept(Loaded(index))' BY <1>1, <3>1 DEF Kept
    <3>3. QED BY <1>2, <3>1, <3>2 DEF IInv, DiskInv, Whole
  <2>3. QED BY <2>1, <2>2
<1>5. QED BY <1>3, <1>4, AloneNext

(* A lost index: the next run wipes the cache.                             *)
LEMMA LoseIndexKeeps ==
  ASSUME NoneOfThese, IInv, LoseIndex
  PROVE  IInv'
<1>1. /\ \A p \in Process : pc[p] = "off"
      /\ pc' = pc /\ table' = table /\ count' = count /\ node' = node /\ todo' = todo
      /\ writers' = writers /\ made' = made /\ crashes' = crashes /\ index' = Missing
  BY DEF LoseIndex, memory
<1>2. Types'
  BY <1>1 DEF IInv, Types
<1>3. DiskInv'
  <2>1. <<>> \in Seq(Word) OBVIOUS
  <2>2. Missing # <<>> BY <2>1 DEF NoneOfThese
  <2>3. QED BY <1>1, <2>2 DEF DiskInv, Whole
<1>4. ASSUME NEW p \in Process PROVE ProcessInv(p)'
  BY <1>1 DEF IInv, ProcessInv, NothingLoaded
<1>5. QED BY <1>2, <1>3, <1>4 DEF IInv

-----------------------------------------------------------------------------
(* An empty directory, and no process.                                     *)
LEMMA InitIInv ==
  ASSUME NoneOfThese, Init
  PROVE  IInv
<1>1. DOMAIN EmptyTable = {}
  BY DEF EmptyTable
<1>2. Missing # <<>>
  <2>1. <<>> \in Seq(Word) OBVIOUS
  <2>2. QED BY <2>1 DEF NoneOfThese
<1>3. Types
  BY <1>1, BoundAssumption DEF Init, Types
<1>4. DiskInv
  BY <1>2 DEF Init, DiskInv, Whole
<1>5. ASSUME NEW p \in Process PROVE ProcessInv(p)
  BY DEF Init, ProcessInv, NothingLoaded
<1>6. QED BY <1>3, <1>4, <1>5 DEF IInv

(* A stuttering step.                                                      *)
LEMMA StutterIInv ==
  ASSUME IInv, UNCHANGED vars
  PROVE  IInv'
<1>1. Types' /\ DiskInv'
  BY DEF IInv, Types, DiskInv, Whole, Kept, vars, memory
<1>2. ASSUME NEW p \in Process PROVE ProcessInv(p)'
  BY DEF IInv, ProcessInv, NothingLoaded, NoCount, Counts, Kept, Whole, Text, vars, memory
<1>3. QED BY <1>1, <1>2 DEF IInv

(* Every step keeps the invariant.                                         *)
LEMMA NextIInv ==
  ASSUME OneProcess, OneLine, NotCutShort, NoneOfThese, IInv, [Next]_vars
  PROVE  IInv'
<1>1. CASE UNCHANGED vars
  BY <1>1, StutterIInv
<1>2. CASE LoseIndex
  BY <1>2, LoseIndexKeeps
<1>3. ASSUME NEW p \in Process,
             \/ \E purge \in BOOLEAN : StartWipe(p, purge)
             \/ \E f \in todo[p] : Wipe(p, f)
             \/ \E k \in Key : KnownKey(p, k) \/ NewKey(p, k) \/ NoId(p, k)
             \/ CannotWipe(p) \/ WipeDone(p) \/ Load(p) \/ Save(p)
             \/ Skip(p) \/ Make(p) \/ Fail(p) \/ Finish(p)
             \/ Crash(p)
      PROVE  IInv'
  <2>1. ASSUME NEW purge \in BOOLEAN, StartWipe(p, purge) PROVE IInv'
    BY <2>1, StartWipeKeeps
  <2>2. ASSUME NEW f \in todo[p], Wipe(p, f) PROVE IInv'
    BY <2>2, WipeKeeps
  <2>3. ASSUME NEW k \in Key, KnownKey(p, k) PROVE IInv'
    BY <2>3, KnownKeyKeeps
  <2>4. ASSUME NEW k \in Key, NewKey(p, k) PROVE IInv'
    BY <2>4, NewKeyKeeps
  <2>5. CASE Finish(p) \/ \E k \in Key : NoId(p, k)
    BY <2>5, FinishKeeps
  <2>6. CASE CannotWipe(p) BY <2>6, CannotWipeKeeps
  <2>7. CASE WipeDone(p) BY <2>7, WipeDoneKeeps
  <2>8. CASE Load(p) BY <2>8, LoadKeeps
  <2>9. CASE Save(p) BY <2>9, SaveKeeps
  <2>10. CASE Skip(p) BY <2>10, SkipKeeps
  <2>11. CASE Make(p) BY <2>11, MakeKeeps
  <2>12. CASE Fail(p) BY <2>12, FailKeeps
  <2>13. CASE Crash(p) BY <2>13, CrashKeeps
  <2>14. QED BY <1>3, <2>1, <2>2, <2>3, <2>4, <2>5, <2>6, <2>7, <2>8, <2>9, <2>10, <2>11, <2>12, <2>13
<1>4. QED BY <1>1, <1>2, <1>3 DEF Next

-----------------------------------------------------------------------------
(* A table gives no two keys the same id, and the ids on disk are the ones *)
(* their keys have in every table.                                         *)
LEMMA IInvUniqueIds ==
  ASSUME OneProcess, IInv
  PROVE  UniqueIds
<1>1. ASSUME NEW p \in Process, NEW x \in DOMAIN table[p] PROVE Counts(p)
  <2>1. DOMAIN EmptyTable = {} BY DEF EmptyTable
  <2>2. pc[p] \in {"off", "wiping", "ready", "saving", "build"} BY DEF IInv, Types
  <2>3. pc[p] \notin {"off", "wiping"} BY <2>1 DEF IInv, ProcessInv, NothingLoaded
  <2>4. QED BY <2>2, <2>3, CountsWhen
<1>2. ASSUME NEW p \in Process, NEW j \in Key, NEW k \in Key,
             LinesOf[j] \in DOMAIN table[p], LinesOf[k] \in DOMAIN table[p],
             table[p][LinesOf[j]] = table[p][LinesOf[k]]
      PROVE  j = k
  <2>1. GoodTable(table[p], count[p]) BY <1>1, <1>2 DEF Counts
  <2>2. LinesOf[j] = LinesOf[k] BY <1>2, <2>1 DEF GoodTable
  <2>3. QED BY <2>2, KeyAssumption
<1>3. ASSUME NEW p \in Process, NEW j \in Key, NEW u \in DOMAIN made,
             LinesOf[j] \in DOMAIN table[p], table[p][LinesOf[j]] = u
      PROVE  j = made[u]
  <2>1. Kept(table[p]) BY <1>1, <1>3 DEF Counts
  <2>2. made[u] \in Key BY DEF IInv, Types
  <2>3. LinesOf[made[u]] \in DOMAIN table[p] /\ table[p][LinesOf[made[u]]] = u
    BY <2>1 DEF Kept
  <2>4. QED BY <1>2, <1>3, <2>2, <2>3
<1>4. ASSUME NEW j \in Key, NEW k \in Key, NEW u \in Word, Owns(j, u), Owns(k, u)
      PROVE  j = k
  <2>1. CASE u \in DOMAIN made /\ made[u] = j
    BY <1>3, <1>4, <2>1 DEF Owns
  <2>2. CASE u \in DOMAIN made /\ made[u] = k
    BY <1>3, <1>4, <2>2 DEF Owns
  <2>3. CASE ~(u \in DOMAIN made /\ made[u] = j) /\ ~(u \in DOMAIN made /\ made[u] = k)
    <3>1. PICK p \in Process : LinesOf[j] \in DOMAIN table[p] /\ table[p][LinesOf[j]] = u
      BY <1>4, <2>3 DEF Owns
    <3>2. PICK q \in Process : LinesOf[k] \in DOMAIN table[q] /\ table[q][LinesOf[k]] = u
      BY <1>4, <2>3 DEF Owns
    <3>3. p = q BY DEF OneProcess
    <3>4. QED BY <1>2, <3>1, <3>2, <3>3
  <2>4. QED BY <2>1, <2>2, <2>3
<1>5. QED BY <1>4 DEF UniqueIds

(* A whole index knows what is made; without a kill there is a counter.    *)
LEMMA IInvNothingForgotten ==
  ASSUME NoneOfThese, IInv
  PROVE  NothingForgotten
<1>1. FoundAgain
  <2>1. CASE Whole
    <3>1. Kept(Loaded(index)) BY <2>1 DEF IInv, DiskInv
    <3>2. QED BY <3>1 DEF FoundAgain, Kept
  <2>2. CASE ~Whole BY <2>2 DEF FoundAgain, Whole
  <2>3. QED BY <2>1, <2>2
<1>2. ASSUME crashes = 0, NEW p \in Process PROVE count[p] # NoCounter
  <2>1. CASE NothingLoaded(p)
    BY <2>1 DEF NothingLoaded, NoneOfThese
  <2>2. CASE Counts(p)
    <3>1. count[p] \in Nat BY <2>2, BoundAssumption DEF Counts, GoodTable, Id
    <3>2. QED BY <3>1 DEF NoneOfThese
  <2>3. CASE NoCount(p)
    BY <1>2, <2>3 DEF NoCount
  <2>4. pc[p] \in {"off", "wiping", "ready", "saving", "build"} BY DEF IInv, Types
  <2>5. QED BY <2>1, <2>2, <2>3, <2>4 DEF IInv, ProcessInv
<1>3. QED BY <1>1, <1>2 DEF NothingForgotten, AlwaysCounts

(* "Work out the unique ID" (pm.lua, 1400): for any commands of one line,  *)
(* any number of ids, runs, kills, purges and lost indexes, no two rules   *)
(* come to one id while one pm at a time works in the directory and, if it *)
(* may be killed, the index fits into one stdio buffer.                    *)
THEOREM UniqueIdsHold ==
  ASSUME OneProcess, OneLine, NotCutShort, NoneOfThese
  PROVE  Spec => []UniqueIds
<1>1. Init => IInv
  BY InitIInv
<1>2. IInv /\ [Next]_vars => IInv'
  BY NextIInv
<1>3. IInv => UniqueIds
  BY IInvUniqueIds
<1>4. QED BY <1>1, <1>2, <1>3, PTL DEF Spec

(* Under the same conditions load_intermediate_cache (400-421) finds every *)
(* output that save_intermediate_cache (384-398) has named, unless a kill  *)
(* emptied the index; and only after a kill is the counter nil.            *)
THEOREM NothingIsForgotten ==
  ASSUME OneProcess, OneLine, NotCutShort, NoneOfThese
  PROVE  Spec => []NothingForgotten
<1>1. Init => IInv
  BY InitIInv
<1>2. IInv /\ [Next]_vars => IInv'
  BY NextIInv
<1>3. IInv => NothingForgotten
  BY IInvNothingForgotten
<1>4. QED BY <1>1, <1>2, <1>3, PTL DEF Spec
=============================================================================
