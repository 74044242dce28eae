--------------------------- MODULE LuaHeapProofs ----------------------------
(***************************************************************************)
(* The properties of the collector of LuaHeap, for any objects and any     *)
(* number of collections, one in the other.                                *)
(***************************************************************************)
EXTENDS LuaHeapInvariant, SequenceTheorems, FiniteSetTheorems, WellFoundedInduction, TLAPS

-----------------------------------------------------------------------------
(* Lists.                                                                      *)

\* A set of numbers has a least one.
LEMMA Least ==
    ASSUME NEW N \in SUBSET Nat, N # {}
    PROVE  \E n \in N : \A m \in N : n <= m
<1>1. PICK n \in N : \A m \in N : <<m, n>> \notin OpToRel(<, Nat)
  BY NatLessThanWellFounded, WFMin, Zenon
<1>2. \A m \in N : ~(m < n)
  BY <1>1 DEF OpToRel
<1>3. QED BY <1>2

\* The elements of a list with one more at its end.
LEMMA ElementsAppend ==
    ASSUME NEW X, NEW s \in Seq(X), NEW x \in X
    PROVE  Append(s, x) \in Seq(X) /\ Elements(Append(s, x)) = Elements(s) \cup {x}
<1> DEFINE a == Append(s, x)
<1>1. /\ a \in Seq(X) /\ Len(s) \in Nat /\ DOMAIN s = 1..Len(s) /\ DOMAIN a = 1..(Len(s) + 1)
      /\ a[Len(s) + 1] = x /\ \A i \in 1..Len(s) : a[i] = s[i]
  OBVIOUS
<1> HIDE DEF a
<1>2. \A i \in 1..(Len(s) + 1) : i \in 1..Len(s) \/ i = Len(s) + 1
  BY <1>1
<1>3. Len(s) + 1 \in 1..(Len(s) + 1) /\ \A i \in 1..Len(s) : i \in 1..(Len(s) + 1)
  BY <1>1
<1>4. Elements(a) = Elements(s) \cup {x}
  BY <1>1, <1>2, <1>3 DEF Elements
<1>5. QED BY <1>1, <1>4 DEF a

\* The elements of two lists, one behind the other.
LEMMA ElementsConcat ==
    ASSUME NEW X, NEW s \in Seq(X), NEW t \in Seq(X)
    PROVE  /\ s \o t \in Seq(X) /\ Elements(s \o t) = Elements(s) \cup Elements(t)
           /\ Distinct(s) /\ Distinct(t) /\ Elements(s) \cap Elements(t) = {} => Distinct(s \o t)
<1> DEFINE c == s \o t
<1>1. /\ c \in Seq(X) /\ Len(c) = Len(s) + Len(t)
      /\ \A i \in 1..(Len(s) + Len(t)) : c[i] = IF i <= Len(s) THEN s[i] ELSE t[i - Len(s)]
  BY ConcatProperties
<1> HIDE DEF c
<1>2. /\ Len(s) \in Nat /\ Len(t) \in Nat /\ DOMAIN c = 1..(Len(s) + Len(t))
      /\ DOMAIN s = 1..Len(s) /\ DOMAIN t = 1..Len(t)
  BY <1>1, LenProperties
<1>3. \A i \in 1..(Len(s) + Len(t)) :
          \/ i \in 1..Len(s) /\ c[i] = s[i]
          \/ i \notin 1..Len(s) /\ i - Len(s) \in 1..Len(t) /\ c[i] = t[i - Len(s)]
  BY <1>1, <1>2
<1>4. /\ \A i \in 1..Len(s) : i \in 1..(Len(s) + Len(t)) /\ c[i] = s[i]
      /\ \A i \in 1..Len(t) : i + Len(s) \in 1..(Len(s) + Len(t)) /\ c[i + Len(s)] = t[i]
  <2>1. \A i \in 1..Len(s) : i \in 1..(Len(s) + Len(t)) /\ i <= Len(s)
    BY <1>2
  <2>2. \A i \in 1..Len(t) : i + Len(s) \in 1..(Len(s) + Len(t)) /\ ~(i + Len(s) <= Len(s)) /\ (i + Len(s)) - Len(s) = i
    BY <1>2
  <2>3. QED BY <1>1, <2>1, <2>2
<1>5. Elements(c) \subseteq Elements(s) \cup Elements(t)
  BY <1>2, <1>3 DEF Elements
<1>6. Elements(s) \cup Elements(t) \subseteq Elements(c)
  BY <1>2, <1>4 DEF Elements
<1>7. ASSUME Distinct(s), Distinct(t), Elements(s) \cap Elements(t) = {}
      PROVE  Distinct(c)
  <2>1. SUFFICES ASSUME NEW i \in 1..(Len(s) + Len(t)), NEW j \in 1..(Len(s) + Len(t)), c[i] = c[j]
                 PROVE  i = j
    BY <1>2 DEF Distinct
  <2>2. /\ i \in 1..Len(s) => c[i] = s[i] /\ c[i] \in Elements(s)
        /\ j \in 1..Len(s) => c[j] = s[j] /\ c[j] \in Elements(s)
    BY <1>2, <1>3 DEF Elements
  <2>3. /\ i \notin 1..Len(s) => i - Len(s) \in 1..Len(t) /\ c[i] = t[i - Len(s)] /\ c[i] \in Elements(t)
        /\ j \notin 1..Len(s) => j - Len(s) \in 1..Len(t) /\ c[j] = t[j - Len(s)] /\ c[j] \in Elements(t)
    BY <1>2, <1>3 DEF Elements
  <2>4. CASE i \in 1..Len(s) /\ j \in 1..Len(s)
    BY <1>2, <1>7, <2>1, <2>2, <2>4 DEF Distinct
  <2>5. CASE i \notin 1..Len(s) /\ j \notin 1..Len(s)
    <3>1. i - Len(s) = j - Len(s)
      BY <1>2, <1>7, <2>1, <2>3, <2>5 DEF Distinct
    <3>2. QED BY <1>2, <3>1
  <2>6. QED BY <1>7, <2>1, <2>2, <2>3, <2>4, <2>5
<1>8. QED BY <1>1, <1>5, <1>6, <1>7 DEF c

\* Among, step by step: w[n] is what there is among the first n.
Filters(w, s, S, N) ==
    w = [n \in 0..N |-> IF n = 0 THEN << >> ELSE IF s[n] \in S THEN Append(w[n - 1], s[n]) ELSE w[n - 1]]

LEMMA FilterPoints ==
    ASSUME NEW w, NEW s, NEW S, NEW N \in Nat
    PROVE  Filters(w, s, S, N) <=>
               /\ w = [n \in 0..N |-> w[n]] /\ w[0] = << >>
               /\ \A n \in 1..N : w[n] = IF s[n] \in S THEN Append(w[n - 1], s[n]) ELSE w[n - 1]
<1>1. 0 \in 0..N /\ \A n \in 1..N : n \in 0..N /\ n # 0
  OBVIOUS
<1>2. \A n \in 0..N : n = 0 \/ n \in 1..N
  OBVIOUS
<1>3. ASSUME Filters(w, s, S, N)
      PROVE  /\ w = [n \in 0..N |-> w[n]] /\ w[0] = << >>
             /\ \A n \in 1..N : w[n] = IF s[n] \in S THEN Append(w[n - 1], s[n]) ELSE w[n - 1]
  <2>1. w = [n \in 0..N |-> IF n = 0 THEN << >> ELSE IF s[n] \in S THEN Append(w[n - 1], s[n]) ELSE w[n - 1]]
    BY <1>3 DEF Filters
  <2>2. \A n \in 0..N : w[n] = IF n = 0 THEN << >> ELSE IF s[n] \in S THEN Append(w[n - 1], s[n]) ELSE w[n - 1]
    BY <2>1, Zenon
  <2>3. w = [n \in 0..N |-> w[n]]
    BY <2>1, Zenon
  <2>4. QED BY <1>1, <2>2, <2>3, Zenon
<1>4. ASSUME /\ w = [n \in 0..N |-> w[n]] /\ w[0] = << >>
             /\ \A n \in 1..N : w[n] = IF s[n] \in S THEN Append(w[n - 1], s[n]) ELSE w[n - 1]
      PROVE  Filters(w, s, S, N)
  <2>1. \A n \in 0..N : w[n] = IF n = 0 THEN << >> ELSE IF s[n] \in S THEN Append(w[n - 1], s[n]) ELSE w[n - 1]
    BY <1>1, <1>2, <1>4, Zenon
  <2>2. QED BY <1>4, <2>1, Zenon DEF Filters
<1>5. QED BY <1>3, <1>4

\* There is such a function, for every length.
LEMMA CanFilter ==
    ASSUME NEW s, NEW S, NEW N \in Nat
    PROVE  \E w : Filters(w, s, S, N)
<1> DEFINE T == {n \in Nat : ~\E w : Filters(w, s, S, n)}
<1>1. SUFFICES ASSUME T # {} PROVE FALSE
  OBVIOUS
<1>2. PICK n \in T : \A m \in T : n <= m
  <2>1. T \in SUBSET Nat
    OBVIOUS
  <2> HIDE DEF T
  <2>2. QED BY <1>1, <2>1, Least
<1>3. n # 0
  <2> DEFINE w == [k \in 0..0 |-> << >>]
  <2>1. w = [k \in 0..0 |-> w[k]] /\ w[0] = << >> /\ 1..0 = {}
    OBVIOUS
  <2> HIDE DEF w
  <2>2. Filters(w, s, S, 0)
    BY <2>1, FilterPoints
  <2>3. QED BY <1>2, <2>2
<1>4. n \in Nat /\ n - 1 \in Nat /\ n - 1 \notin T
  <2>1. n \in Nat /\ n - 1 \in Nat /\ ~(n <= n - 1)
    BY <1>2, <1>3
  <2> HIDE DEF T
  <2>2. QED BY <1>2, <2>1
<1>5. PICK w : Filters(w, s, S, n - 1)
  BY <1>4
<1>6. /\ w[0] = << >>
      /\ \A k \in 1..(n - 1) : w[k] = IF s[k] \in S THEN Append(w[k - 1], s[k]) ELSE w[k - 1]
  BY <1>4, <1>5, FilterPoints
<1> DEFINE last == IF s[n] \in S THEN Append(w[n - 1], s[n]) ELSE w[n - 1]
           v == [k \in 0..n |-> IF k = n THEN last ELSE w[k]]
<1>7. v[0] = << >> /\ v = [k \in 0..n |-> v[k]]
  BY <1>3, <1>4, <1>6
<1>8. ASSUME NEW k \in 1..n
      PROVE  v[k] = IF s[k] \in S THEN Append(v[k - 1], s[k]) ELSE v[k - 1]
  <2> HIDE DEF last
  <2>1. k \in 0..n /\ k - 1 \in 0..n /\ v[k - 1] = w[k - 1]
    BY <1>4
  <2>2. CASE k = n
    BY <1>4, <2>1, <2>2 DEF last
  <2>3. CASE k # n
    <3>1. k \in 1..(n - 1) /\ v[k] = w[k]
      BY <1>4, <2>1, <2>3
    <3>2. QED BY <1>6, <2>1, <3>1
  <2>4. QED BY <2>2, <2>3
<1>9. Filters(v, s, S, n)
  <2> HIDE DEF v
  <2>1. QED BY <1>4, <1>7, <1>8, FilterPoints
<1>10. QED BY <1>2, <1>9

\* Among keeps the members of the set, once each.
LEMMA AmongIs ==
    ASSUME NEW X, NEW s \in Seq(X), NEW S
    PROVE  /\ Among(s, S) \in Seq(X)
           /\ Elements(Among(s, S)) = Elements(s) \cap S
           /\ Distinct(s) => Distinct(Among(s, S))
<1>1. Len(s) \in Nat /\ DOMAIN s = 1..Len(s) /\ \A n \in 1..Len(s) : s[n] \in X
  BY LenProperties, ElementOfSeq
<1>2. PICK w : Filters(w, s, S, Len(s)) /\ Among(s, S) = w[Len(s)]
  <2> DEFINE w == CHOOSE f : Filters(f, s, S, Len(s))
  <2>1. Filters(w, s, S, Len(s))
    BY <1>1, CanFilter
  <2>2. Among(s, S) = w[Len(s)]
    BY DEF Among, Filters
  <2>3. QED BY <2>1, <2>2
<1>3. /\ w[0] = << >>
      /\ \A n \in 1..Len(s) : w[n] = IF s[n] \in S THEN Append(w[n - 1], s[n]) ELSE w[n - 1]
  BY <1>1, <1>2, FilterPoints
<1> DEFINE Good(n) == /\ w[n] \in Seq(X)
                      /\ Elements(w[n]) = {s[i] : i \in 1..n} \cap S
                      /\ Distinct(s) => Distinct(w[n])
           T == {n \in Nat : n <= Len(s) /\ ~Good(n)}
<1>4. ASSUME NEW n \in T PROVE \E m \in T : ~(n <= m)
  <2>1. n # 0
    <3>1. w[0] \in Seq(X) /\ DOMAIN w[0] = {} /\ 1..0 = {}
      BY <1>3
    <3>2. Good(0)
      BY <3>1 DEF Elements, Distinct
    <3>3. QED BY <3>2
  <2>2. n \in 1..Len(s) /\ n - 1 \in Nat /\ n - 1 <= Len(s) /\ ~(n <= n - 1) /\ ~Good(n)
    BY <1>1, <2>1
  <2>3. SUFFICES ASSUME Good(n - 1) PROVE Good(n)
    BY <2>2
  <2>4. {s[i] : i \in 1..n} = {s[i] : i \in 1..(n - 1)} \cup {s[n]}
    <3>1. \A i \in 1..n : i = n \/ i \in 1..(n - 1)
      BY <2>2
    <3>2. n \in 1..n /\ \A i \in 1..(n - 1) : i \in 1..n
      BY <2>2
    <3>3. QED BY <3>1, <3>2
  <2> DEFINE p == w[n - 1]
  <2>5. p \in Seq(X) /\ Elements(p) = {s[i] : i \in 1..(n - 1)} \cap S /\ (Distinct(s) => Distinct(p))
    BY <2>3
  <2>6. w[n] = IF s[n] \in S THEN Append(p, s[n]) ELSE p
    BY <1>3, <2>2
  <2> HIDE DEF p
  <2>7. CASE s[n] \in S
    <3>1. Append(p, s[n]) \in Seq(X) /\ Elements(Append(p, s[n])) = Elements(p) \cup {s[n]}
      BY <1>1, <2>2, <2>5, ElementsAppend
    <3>2. ASSUME Distinct(s) PROVE Distinct(Append(p, s[n]))
      <4>1. s[n] \notin Elements(p)
        <5>1. SUFFICES ASSUME NEW i \in 1..(n - 1), s[i] = s[n] PROVE FALSE
          BY <2>5
        <5>2. i \in 1..Len(s) /\ i # n
          BY <1>1, <2>2
        <5>3. QED BY <1>1, <2>2, <3>2, <5>1, <5>2 DEF Distinct
      <4> DEFINE a == Append(p, s[n])
      <4>2. /\ Len(p) \in Nat /\ DOMAIN p = 1..Len(p) /\ DOMAIN a = 1..(Len(p) + 1)
            /\ a[Len(p) + 1] = s[n] /\ \A i \in 1..Len(p) : a[i] = p[i]
        BY <1>1, <2>2, <2>5
      <4> HIDE DEF a
      <4>3. \A i \in 1..(Len(p) + 1) : i \in 1..Len(p) \/ i = Len(p) + 1
        BY <4>2
      <4>4. \A i \in 1..Len(p) : a[i] # s[n]
        BY <4>1, <4>2 DEF Elements
      <4>5. \A i, j \in 1..Len(p) : p[i] = p[j] => i = j
        BY <2>5, <3>2, <4>2 DEF Distinct
      <4>6. Distinct(a)
        BY <4>2, <4>3, <4>4, <4>5 DEF Distinct
      <4>7. QED BY <4>6 DEF a
    <3>3. QED BY <2>4, <2>5, <2>6, <2>7, <3>1, <3>2
  <2>8. CASE s[n] \notin S
    BY <2>4, <2>5, <2>6, <2>8
  <2>9. QED BY <2>7, <2>8
<1>5. T = {}
  <2>1. T \in SUBSET Nat
    OBVIOUS
  <2> HIDE DEF T
  <2>2. QED BY <1>4, <2>1, Least
<1>6. Good(Len(s))
  <2>1. Len(s) \in Nat /\ Len(s) <= Len(s)
    BY <1>1
  <2> HIDE DEF Good
  <2>2. QED BY <1>5, <2>1
<1>7. Elements(s) = {s[i] : i \in 1..Len(s)}
  BY <1>1 DEF Elements
<1>8. QED BY <1>2, <1>6, <1>7

\* The set of a list that SetToSeq makes of a finite set.
LEMMA SetToSeqIs ==
    ASSUME NEW X, NEW S \in SUBSET X, IsFiniteSet(S)
    PROVE  SetToSeq(S) \in Seq(X) /\ Elements(SetToSeq(S)) = S
<1> DEFINE n == Cardinality(S)
           f == SetToSeq(S)
<1>1. n \in Nat /\ ExistsBijection(1..n, S)
  BY FS_CardinalityType
<1>2. \E g \in [1..n -> S] : IsInjective(g)
  <2>1. PICK g \in Bijection(1..n, S) : TRUE
    BY <1>1 DEF ExistsBijection
  <2>2. g \in [1..n -> S] /\ \A i, j \in 1..n : g[i] = g[j] => i = j
    BY <2>1 DEF Bijection, Injection, IsInjective
  <2>3. QED BY <2>2 DEF IsInjective
<1>3. f \in [1..n -> S] /\ IsInjective(f)
  BY <1>2 DEF SetToSeq
<1>4. f \in Injection(1..n, S)
  BY <1>3 DEF IsInjective, Injection
<1>5. IsFiniteSet(1..n) /\ Cardinality(1..n) = n
  BY <1>1, FS_Interval
<1>6. f \in Surjection(1..n, S)
  BY <1>4, <1>5, FS_Injection
<1>7. \A x \in S : \E i \in 1..n : f[i] = x
  BY <1>6 DEF Surjection
<1> HIDE DEF f, n
<1>8. f \in Seq(X) /\ DOMAIN f = 1..n
  BY <1>1, <1>3
<1>9. Elements(f) = S
  BY <1>3, <1>7, <1>8 DEF Elements
<1>10. QED BY <1>8, <1>9 DEF f

-----------------------------------------------------------------------------
(* What one comes to.                                                          *)

More(next, T) == T \cup UNION {next[x] : x \in T}
Follows(f, next) == f = [T \in SUBSET (DOMAIN next) |-> IF More(next, T) = T THEN T ELSE f[More(next, T)]]
\* C has S, and whatever one comes to from it.
Closes(next, S, C) == S \subseteq C /\ \A x \in C : next[x] \subseteq C
LeastFrom(next, S) == {x \in DOMAIN next : \A C \in SUBSET (DOMAIN next) : Closes(next, S, C) => x \in C}

LEMMA LeastFromIs ==
    ASSUME NEW next, \A x \in DOMAIN next : next[x] \subseteq DOMAIN next, NEW S \in SUBSET (DOMAIN next)
    PROVE  /\ LeastFrom(next, S) \in SUBSET (DOMAIN next)
           /\ Closes(next, S, LeastFrom(next, S))
           /\ More(next, S) \in SUBSET (DOMAIN next)
           /\ LeastFrom(next, S) = IF More(next, S) = S THEN S ELSE LeastFrom(next, More(next, S))
<1>1. Closes(next, S, LeastFrom(next, S))
  BY DEF Closes, LeastFrom
<1>2. More(next, S) \in SUBSET (DOMAIN next)
  BY DEF More
<1>3. CASE More(next, S) = S
  <2>1. Closes(next, S, S)
    BY <1>3 DEF More, Closes
  <2>2. LeastFrom(next, S) \subseteq S
    BY <2>1 DEF LeastFrom
  <2>3. S \subseteq LeastFrom(next, S)
    BY <1>1 DEF Closes
  <2>4. QED BY <1>1, <1>2, <1>3, <2>2, <2>3
<1>4. \A C \in SUBSET (DOMAIN next) : Closes(next, S, C) <=> Closes(next, More(next, S), C)
  BY DEF Closes, More
<1>5. LeastFrom(next, S) = LeastFrom(next, More(next, S))
  BY <1>4 DEF LeastFrom
<1>6. QED BY <1>1, <1>2, <1>3, <1>5 DEF LeastFrom

\* Following next by one step after the other gives the least closed set.
LEMMA FollowsLeast ==
    ASSUME NEW next, IsFiniteSet(DOMAIN next), \A x \in DOMAIN next : next[x] \subseteq DOMAIN next,
           NEW f, Follows(f, next), NEW S \in SUBSET (DOMAIN next)
    PROVE  f[S] = LeastFrom(next, S)
<1> DEFINE X == DOMAIN next
           bad == {U \in {X \ T : T \in SUBSET X} : f[X \ U] # LeastFrom(next, X \ U)}
<1>1. \A T \in SUBSET X : f[T] = IF More(next, T) = T THEN T ELSE f[More(next, T)]
  BY Zenon DEF Follows
<1>2. SUFFICES ASSUME f[S] # LeastFrom(next, S) PROVE FALSE
  OBVIOUS
<1>3. X \ S \in bad
  <2>1. X \ (X \ S) = S
    OBVIOUS
  <2>2. QED BY <1>2, <2>1
<1>4. bad \subseteq FiniteSubsetsOf(X)
  BY FS_FiniteSubsetsOfFinite
<1>5. PICK U \in bad : \A V \in bad : ~(<<V, U>> \in StrictSubsetOrdering(X))
  <2> HIDE DEF bad, X
  <2>1. QED BY <1>3, <1>4, FS_StrictSubsetOrderingWellFounded, WFMin, Zenon
<1> DEFINE T == X \ U
<1>6. T \in SUBSET X /\ f[T] # LeastFrom(next, T) /\ U = X \ T
  BY <1>5
<1>7. /\ More(next, T) \in SUBSET X
      /\ LeastFrom(next, T) = IF More(next, T) = T THEN T ELSE LeastFrom(next, More(next, T))
  <2> HIDE DEF T
  <2>1. QED BY <1>6, LeastFromIs
<1> DEFINE M == More(next, T)
<1>8. M # T /\ f[M] # LeastFrom(next, M)
  BY <1>1, <1>6, <1>7
<1>9. T \subseteq M
  BY DEF More
<1>10. X \ M \in bad
  <2> HIDE DEF M, T
  <2>1. X \ (X \ M) = M
    BY <1>7 DEF M
  <2>2. QED BY <1>7, <1>8, <2>1 DEF M
<1>11. <<X \ M, U>> \in StrictSubsetOrdering(X)
  <2> HIDE DEF M, T
  <2>1. X \ M \subseteq U /\ X \ M # U /\ U \in SUBSET X
    BY <1>6, <1>7, <1>8, <1>9 DEF M
  <2>2. QED BY <2>1 DEF StrictSubsetOrdering
<1>12. QED BY <1>5, <1>10, <1>11

\* From is the least set that is closed.
LEMMA FromIs ==
    ASSUME NEW next, IsFiniteSet(DOMAIN next), \A x \in DOMAIN next : next[x] \subseteq DOMAIN next,
           NEW S \in SUBSET (DOMAIN next)
    PROVE  /\ From(next, S) \in SUBSET (DOMAIN next)
           /\ S \subseteq From(next, S) /\ \A x \in From(next, S) : next[x] \subseteq From(next, S)
           /\ \A C \in SUBSET (DOMAIN next) :
                  S \subseteq C /\ (\A x \in C : next[x] \subseteq C) => From(next, S) \subseteq C
<1> DEFINE least == [T \in SUBSET (DOMAIN next) |-> LeastFrom(next, T)]
<1>1. \A T \in SUBSET (DOMAIN next) : /\ More(next, T) \in SUBSET (DOMAIN next)
                                    /\ LeastFrom(next, T) = IF More(next, T) = T THEN T ELSE LeastFrom(next, More(next, T))
  BY LeastFromIs
<1>2. Follows(least, next)
  <2>1. \A T \in SUBSET (DOMAIN next) : least[T] = IF More(next, T) = T THEN T ELSE least[More(next, T)]
    BY <1>1
  <2>2. least = [T \in SUBSET (DOMAIN next) |-> least[T]]
    OBVIOUS
  <2> HIDE DEF least
  <2>3. QED BY <2>1, <2>2, Zenon DEF Follows
<1> DEFINE from == CHOOSE f : Follows(f, next)
<1>3. Follows(from, next)
  BY <1>2
<1>4. From(next, S) = from[S]
  BY DEF From, Follows, More
<1> HIDE DEF from, least
<1>5. From(next, S) = LeastFrom(next, S)
  BY <1>3, <1>4, FollowsLeast
<1>6. LeastFrom(next, S) \in SUBSET (DOMAIN next) /\ Closes(next, S, LeastFrom(next, S))
  BY LeastFromIs
<1>7. \A C \in SUBSET (DOMAIN next) : Closes(next, S, C) => LeastFrom(next, S) \subseteq C
  BY DEF LeastFrom
<1>8. QED BY <1>5, <1>6, <1>7 DEF Closes

-----------------------------------------------------------------------------
(* Objects.                                                                    *)

\* Addresses have one kind, and nil is none.
LEMMA Kinds ==
    /\ Tables \cap Udatas = {} /\ Tables \cap Coroutines = {} /\ Tables \cap Closures = {}
    /\ Tables \cap Upvals = {} /\ Tables \cap Strings = {} /\ Udatas \cap Coroutines = {}
    /\ Udatas \cap Closures = {} /\ Udatas \cap Upvals = {} /\ Udatas \cap Strings = {}
    /\ Coroutines \cap Closures = {} /\ Coroutines \cap Upvals = {} /\ Coroutines \cap Strings = {}
    /\ Closures \cap Upvals = {} /\ Closures \cap Strings = {} /\ Upvals \cap Strings = {}
    /\ Nil \notin Things /\ Dead \notin Things /\ Main \notin Things
    /\ IsFiniteSet(Things) /\ IsFiniteSet(Objects) /\ IsFiniteSet(Upvals)
    /\ Nil # Dead /\ Nil # Main
<1> DEFINE kinds == <<Tables, Udatas, Coroutines, Closures, Upvals, Strings>>
<1>1. /\ \A i, j \in DOMAIN kinds : i # j => kinds[i] \cap kinds[j] = {}
      /\ \A i \in DOMAIN kinds : IsFiniteSet(kinds[i]) /\ {Nil, Dead, Main} \cap kinds[i] = {}
  BY HeapKinds
<1>2. /\ DOMAIN kinds = 1..6 /\ kinds[1] = Tables /\ kinds[2] = Udatas /\ kinds[3] = Coroutines
      /\ kinds[4] = Closures /\ kinds[5] = Upvals /\ kinds[6] = Strings
  OBVIOUS
<1> HIDE DEF kinds
<1>3. /\ 1 \in DOMAIN kinds /\ 2 \in DOMAIN kinds /\ 3 \in DOMAIN kinds
      /\ 4 \in DOMAIN kinds /\ 5 \in DOMAIN kinds /\ 6 \in DOMAIN kinds
  BY <1>2
<1>4. /\ Tables \cap Udatas = {} /\ Tables \cap Coroutines = {} /\ Tables \cap Closures = {}
      /\ Tables \cap Upvals = {} /\ Tables \cap Strings = {}
  BY <1>1, <1>2, <1>3
<1>5. /\ Udatas \cap Coroutines = {}
      /\ Udatas \cap Closures = {} /\ Udatas \cap Upvals = {} /\ Udatas \cap Strings = {}
  BY <1>1, <1>2, <1>3
<1>6. /\ Coroutines \cap Closures = {} /\ Coroutines \cap Upvals = {} /\ Coroutines \cap Strings = {}
      /\ Closures \cap Upvals = {} /\ Closures \cap Strings = {} /\ Upvals \cap Strings = {}
  BY <1>1, <1>2, <1>3
<1>7. /\ IsFiniteSet(Tables) /\ IsFiniteSet(Udatas) /\ IsFiniteSet(Coroutines) /\ IsFiniteSet(Closures)
      /\ IsFiniteSet(Upvals) /\ IsFiniteSet(Strings)
  BY <1>1, <1>2, <1>3
<1>8. /\ {Nil, Dead, Main} \cap Tables = {} /\ {Nil, Dead, Main} \cap Udatas = {}
      /\ {Nil, Dead, Main} \cap Coroutines = {} /\ {Nil, Dead, Main} \cap Closures = {}
      /\ {Nil, Dead, Main} \cap Upvals = {} /\ {Nil, Dead, Main} \cap Strings = {}
  BY <1>1, <1>2, <1>3
<1>9. Nil \notin Things /\ Dead \notin Things /\ Main \notin Things
  BY <1>8 DEF Things, Objects
<1>10. IsFiniteSet(Objects) /\ IsFiniteSet(Things)
  <2>1. IsFiniteSet(Tables \cup Udatas)
    BY <1>7, FS_Union
  <2>2. IsFiniteSet(Tables \cup Udatas \cup Coroutines)
    BY <1>7, <2>1, FS_Union
  <2>3. IsFiniteSet(Tables \cup Udatas \cup Coroutines \cup Closures)
    BY <1>7, <2>2, FS_Union
  <2>4. IsFiniteSet(Objects)
    BY <1>7, <2>3, FS_Union DEF Objects
  <2>5. QED BY <1>7, <2>4, FS_Union DEF Things
<1>11. Nil # Dead /\ Nil # Main
  BY DEF Nil, Dead, Main
<1>12. QED BY <1>4, <1>5, <1>6, <1>7, <1>9, <1>10, <1>11

\* The fields of a heap.
LEMMA Fields ==
    ASSUME NEW g \in Heap
    PROVE  /\ g.node \in [Tables -> Node] /\ g.mode \in [Tables -> SUBSET {"k", "v"}]
           /\ g.bits \in [Tables -> SUBSET {"k", "v"}] /\ g.meta \in [Udatas -> Tables \cup {Nil}]
           /\ g.unfinalized \subseteq Udatas /\ g.slot \in [Threads -> Objects \cup {Nil}]
           /\ g.upval \in [Closures -> Upvals \cup {Nil}]
           /\ g.uv \in [Upvals -> [open : {Main, Nil}, value : Objects \cup {Nil}]]
           /\ g.top \in Objects \cup {Nil} /\ g.strt \subseteq Strings
           /\ g.rootgc \in Seq(Things \ (Udatas \cup Strings)) /\ g.rootudata \in Seq(Udatas)
           /\ g.tmudata \in Seq(Udatas) /\ g.marked \subseteq Udatas /\ g.ok \in BOOLEAN
  BY DEF Heap

\* What a thing holds, by its kind.
LEMMA HoldsIs ==
    ASSUME NEW g, NEW x \in Things
    PROVE  /\ x \in Tables => Holds(g, x) = (IF g.node[x].val = Nil THEN {} ELSE {g.node[x].key, g.node[x].val}) \ {Nil}
           /\ x \in Udatas => Holds(g, x) = {g.meta[x]} \ {Nil}
           /\ x \in Coroutines => Holds(g, x) = {g.slot[x]} \ {Nil}
           /\ x \in Closures => Holds(g, x) = (IF g.upval[x] = Nil THEN {} ELSE {g.upval[x], ValueOf(g, g.upval[x])}) \ {Nil}
           /\ x \in Strings \cup Upvals => Holds(g, x) = {}
<1> USE Kinds
<1>1. ASSUME x \in Tables PROVE Holds(g, x) = (IF g.node[x].val = Nil THEN {} ELSE {g.node[x].key, g.node[x].val}) \ {Nil}
  BY <1>1 DEF Holds
<1>2. ASSUME x \in Udatas PROVE Holds(g, x) = {g.meta[x]} \ {Nil}
  BY <1>2 DEF Holds
<1>3. ASSUME x \in Coroutines PROVE Holds(g, x) = {g.slot[x]} \ {Nil}
  BY <1>3 DEF Holds
<1>4. ASSUME x \in Closures
      PROVE  Holds(g, x) = (IF g.upval[x] = Nil THEN {} ELSE {g.upval[x], ValueOf(g, g.upval[x])}) \ {Nil}
  BY <1>4 DEF Holds
<1>5. ASSUME x \in Strings \cup Upvals PROVE Holds(g, x) = {}
  BY <1>5 DEF Holds
<1>6. QED BY <1>1, <1>2, <1>3, <1>4, <1>5

\* What a traversal marks, by the kind of the object.
LEMMA TraverseIs ==
    ASSUME NEW g, NEW x \in Objects
    PROVE  /\ x \in Tables => traverse(g, x) = traversetable(g, x)
           /\ x \in Udatas => traverse(g, x) = {g.meta[x]}
           /\ x \in Coroutines => traverse(g, x) = {g.slot[x]}
           /\ x \in Closures => traverse(g, x) = traverseclosure(g, x)
           /\ x \in Strings => traverse(g, x) = {}
<1> USE Kinds
<1>1. ASSUME x \in Tables PROVE traverse(g, x) = traversetable(g, x)
  BY <1>1 DEF traverse
<1>2. ASSUME x \in Udatas PROVE traverse(g, x) = {g.meta[x]}
  BY <1>2 DEF traverse
<1>3. ASSUME x \in Coroutines PROVE traverse(g, x) = {g.slot[x]}
  BY <1>3 DEF traverse
<1>4. ASSUME x \in Closures PROVE traverse(g, x) = traverseclosure(g, x)
  BY <1>4 DEF traverse
<1>5. ASSUME x \in Strings PROVE traverse(g, x) = {}
  BY <1>5 DEF traverse
<1>6. QED BY <1>1, <1>2, <1>3, <1>4, <1>5

\* Elements of a list are of its type.
LEMMA ElementsIn ==
    ASSUME NEW X, NEW s \in Seq(X)
    PROVE  Elements(s) \subseteq X
<1>1. DOMAIN s = 1..Len(s) /\ \A n \in 1..Len(s) : s[n] \in X
  BY LenProperties, ElementOfSeq
<1>2. QED BY <1>1 DEF Elements

\* What is allocated, by its kind.
LEMMA AllocatedIs ==
    ASSUME NEW g \in Heap
    PROVE  /\ allocated(g) \subseteq Things
           /\ \A x \in Udatas : x \in allocated(g) <=> x \in Elements(g.rootudata) \cup Elements(g.tmudata)
           /\ \A x \in Strings : x \in allocated(g) <=> x \in g.strt
           /\ \A x \in Things \ (Udatas \cup Strings) : x \in allocated(g) <=> x \in Elements(g.rootgc)
<1>1. Elements(g.rootgc) \subseteq Things \ (Udatas \cup Strings)
  BY Fields, ElementsIn
<1>2. Elements(g.rootudata) \subseteq Udatas /\ Elements(g.tmudata) \subseteq Udatas /\ g.strt \subseteq Strings
  BY Fields, ElementsIn
<1>3. QED BY <1>1, <1>2, Kinds DEF allocated, Things, Objects

\* What a thing holds are things.
LEMMA HoldsThings ==
    ASSUME NEW g \in Heap, NEW x \in Things
    PROVE  Holds(g, x) \subseteq Things
<1>1. CASE x \in Tables
  <2>1. g.node[x] \in Node
    BY <1>1, Fields
  <2>2. QED BY <1>1, <2>1, HoldsIs DEF Node, Things
<1>2. CASE x \in Udatas
  BY <1>2, HoldsIs, Fields DEF Things, Objects
<1>3. CASE x \in Coroutines
  BY <1>3, HoldsIs, Fields DEF Things, Threads
<1>4. CASE x \in Closures
  <2>1. \A v \in Upvals : ValueOf(g, v) \in Objects \cup {Nil}
    <3>1. TAKE v \in Upvals
    <3>2. g.uv[v].open \in {Main, Nil} /\ g.uv[v].value \in Objects \cup {Nil} /\ g.slot[Main] \in Objects \cup {Nil}
      BY Fields DEF Threads
    <3>3. QED BY <3>2 DEF ValueOf
  <2>2. QED BY <1>4, <2>1, HoldsIs, Fields DEF Things
<1>5. CASE x \in Strings \cup Upvals
  BY <1>5, HoldsIs
<1>6. QED BY <1>1, <1>2, <1>3, <1>4, <1>5 DEF Things, Objects

\* A is closed under what things hold.
ClosedIn(g, A) == A \subseteq Things /\ \A x \in A : Holds(g, x) \subseteq A

\* Closed gives the least closed set.
LEMMA ClosedIs ==
    ASSUME NEW g \in Heap, NEW S \in SUBSET Things
    PROVE  /\ ClosedIn(g, Closed(g, S)) /\ S \subseteq Closed(g, S)
           /\ \A A : ClosedIn(g, A) /\ S \subseteq A => Closed(g, S) \subseteq A
<1> DEFINE next == [x \in Things |-> Holds(g, x)]
<1>1. DOMAIN next = Things /\ \A x \in Things : next[x] = Holds(g, x)
  OBVIOUS
<1>2. Closed(g, S) = From(next, S)
  BY DEF Closed
<1> HIDE DEF next
<1>3. /\ From(next, S) \in SUBSET Things
      /\ S \subseteq From(next, S) /\ \A x \in From(next, S) : next[x] \subseteq From(next, S)
      /\ \A C \in SUBSET Things : S \subseteq C /\ (\A x \in C : next[x] \subseteq C) => From(next, S) \subseteq C
  BY <1>1, HoldsThings, FromIs, Kinds
<1>4. QED BY <1>1, <1>2, <1>3 DEF ClosedIn

\* A is a set that has all that must not be freed, and of which nothing was freed.
Safe(g, R, A) ==
    ClosedIn(g, A) /\ Start(g, R) \subseteq A /\ (\A x \in A : AliveIn(g, x)) /\ KeysKept(g, A)

LEMMA SafeIs ==
    ASSUME NEW g \in Heap, NEW R \in SUBSET (Objects \cup {Nil})
    PROVE  /\ KeptOK(g, R) => Safe(g, R, Kept(g, R))
           /\ \A A : Safe(g, R, A) => KeptOK(g, R) /\ Kept(g, R) \subseteq A
<1>1. Start(g, R) \in SUBSET Things
  <2>1. Elements(g.tmudata) \subseteq Udatas
    BY Fields, ElementsIn
  <2>2. QED BY <2>1, Fields DEF Start, Things, Objects
<1>2. /\ ClosedIn(g, Kept(g, R)) /\ Start(g, R) \subseteq Kept(g, R)
      /\ \A A : ClosedIn(g, A) /\ Start(g, R) \subseteq A => Kept(g, R) \subseteq A
  BY <1>1, ClosedIs DEF Kept
<1>3. KeptOK(g, R) => Safe(g, R, Kept(g, R))
  BY <1>2, Zenon DEF KeptOK, Safe
<1>4. ASSUME NEW A, Safe(g, R, A) PROVE KeptOK(g, R) /\ Kept(g, R) \subseteq A
  <2>1. ClosedIn(g, A) /\ Start(g, R) \subseteq A /\ (\A x \in A : AliveIn(g, x)) /\ KeysKept(g, A)
    BY <1>4, Zenon DEF Safe
  <2>2. Kept(g, R) \subseteq A
    BY <1>2, <2>1, Zenon
  <2>3. \A x \in Kept(g, R) : AliveIn(g, x)
    BY <2>1, <2>2, Zenon
  <2> DEFINE B == Kept(g, R)
  <2> HIDE DEF B
  <2>4. B \subseteq A
    BY <2>2, Zenon DEF B
  <2>5. KeysKept(g, B)
    BY <2>1, <2>4 DEF KeysKept
  <2>6. QED BY <2>2, <2>3, <2>5, Zenon DEF KeptOK, B
<1>5. QED BY <1>3, <1>4

-----------------------------------------------------------------------------
(* Marking and clearing.                                                       *)

Marks == [marked : SUBSET Objects, tmark : SUBSET Objects, uvmarked : SUBSET Upvals,
          bits : [Tables -> SUBSET {"k", "v"}], wk : SUBSET Tables, wv : SUBSET Tables, wkv : SUBSET Tables]

\* A traversal p from the marks m: what it met is marked, and so is all that it marks.
Traverses(g, m, met, p) ==
    /\ p \in Marks /\ m.tmark \subseteq met
    /\ p.marked = m.marked \cup met /\ p.tmark = {}
    /\ \A o \in met : traverse(g, o) \cap Objects \subseteq p.marked
    /\ \A C \in SUBSET Objects :
           m.tmark \subseteq C /\ (\A o \in C : (traverse(g, o) \cap Objects) \ m.marked \subseteq C) => met \subseteq C
    /\ p.uvmarked = m.uvmarked \cup {v \in Upvals : g.uv[v].open = Nil /\ \E f \in met \cap Closures : g.upval[f] = v}
    /\ p.bits = [t \in Tables |-> IF t \in met /\ g.mode[t] # {} THEN g.mode[t] ELSE m.bits[t]]
    /\ p.wk = m.wk \cup {t \in met \cap Tables : g.mode[t] = {"k"}}
    /\ p.wv = m.wv \cup {t \in met \cap Tables : g.mode[t] = {"v"}}
    /\ p.wkv = m.wkv \cup {t \in met \cap Tables : g.mode[t] = {"k", "v"}}

\* The marks after a traversal that met the objects met.
Propagated(m, g, met) ==
    [m EXCEPT !.marked = m.marked \cup met, !.tmark = {},
              !.uvmarked = m.uvmarked \cup {v \in Upvals : g.uv[v].open = Nil /\ \E f \in met \cap Closures : g.upval[f] = v},
              !.bits = [t \in Tables |-> IF t \in met /\ g.mode[t] # {} THEN g.mode[t] ELSE m.bits[t]],
              !.wk = m.wk \cup {t \in met \cap Tables : g.mode[t] = {"k"}},
              !.wv = m.wv \cup {t \in met \cap Tables : g.mode[t] = {"v"}},
              !.wkv = m.wkv \cup {t \in met \cap Tables : g.mode[t] = {"k", "v"}}]

LEMMA PropagatedIs ==
    ASSUME NEW g, NEW m
    PROVE  propagatemarks(m, g)
               = Propagated(m, g, From([o \in Objects |-> (traverse(g, o) \cap Objects) \ m.marked], m.tmark))
  BY Zenon DEF propagatemarks, Propagated

LEMMA PropagateIs ==
    ASSUME NEW g \in Heap, NEW m \in Marks
    PROVE  \E met \in SUBSET Objects : Traverses(g, m, met, propagatemarks(m, g))
<1> DEFINE next == [o \in Objects |-> (traverse(g, o) \cap Objects) \ m.marked]
           met == From(next, m.tmark)
           p == propagatemarks(m, g)
<1>1. met \in SUBSET Objects /\ m.tmark \subseteq met /\ (\A o \in met : next[o] \subseteq met)
      /\ \A C \in SUBSET Objects : m.tmark \subseteq C /\ (\A o \in C : next[o] \subseteq C) => met \subseteq C
  <2>1. DOMAIN next = Objects /\ (\A o \in Objects : next[o] \subseteq Objects) /\ m.tmark \in SUBSET Objects
    BY DEF Marks
  <2> HIDE DEF next
  <2>2. QED BY <2>1, FromIs, Kinds
<1>2. \A o \in Objects : next[o] = (traverse(g, o) \cap Objects) \ m.marked
  OBVIOUS
<1>3. p = Propagated(m, g, met)
  BY PropagatedIs, Zenon
<1> HIDE DEF next, met, p
<1> DEFINE uvm == {v \in Upvals : g.uv[v].open = Nil /\ \E f \in met \cap Closures : g.upval[f] = v}
           bts == [t \in Tables |-> IF t \in met /\ g.mode[t] # {} THEN g.mode[t] ELSE m.bits[t]]
           In(modes) == {t \in met \cap Tables : g.mode[t] = modes}
<1>4. p = [m EXCEPT !.marked = m.marked \cup met, !.tmark = {}, !.uvmarked = m.uvmarked \cup uvm, !.bits = bts,
                    !.wk = m.wk \cup In({"k"}), !.wv = m.wv \cup In({"v"}), !.wkv = m.wkv \cup In({"k", "v"})]
  BY <1>3, Zenon DEF Propagated
<1>5. uvm \subseteq Upvals /\ bts \in [Tables -> SUBSET {"k", "v"}] /\ \A modes : In(modes) \subseteq Tables
  BY Fields DEF Marks
<1> HIDE DEF uvm, bts, In
<1>6. /\ p.marked = m.marked \cup met /\ p.tmark = {} /\ p.uvmarked = m.uvmarked \cup uvm /\ p.bits = bts
      /\ p.wk = m.wk \cup In({"k"}) /\ p.wv = m.wv \cup In({"v"}) /\ p.wkv = m.wkv \cup In({"k", "v"})
      /\ p \in Marks
  BY <1>1, <1>4, <1>5 DEF Marks
<1>7. \A o \in met : traverse(g, o) \cap Objects \subseteq p.marked
  BY <1>1, <1>2, <1>6
<1>8. \A C \in SUBSET Objects :
          m.tmark \subseteq C /\ (\A o \in C : (traverse(g, o) \cap Objects) \ m.marked \subseteq C) => met \subseteq C
  BY <1>1, <1>2
<1>9. /\ p.uvmarked = m.uvmarked \cup {v \in Upvals : g.uv[v].open = Nil /\ \E f \in met \cap Closures : g.upval[f] = v}
      /\ p.bits = [t \in Tables |-> IF t \in met /\ g.mode[t] # {} THEN g.mode[t] ELSE m.bits[t]]
  BY <1>6, Zenon DEF uvm, bts
<1>10. /\ p.wk = m.wk \cup {t \in met \cap Tables : g.mode[t] = {"k"}}
       /\ p.wv = m.wv \cup {t \in met \cap Tables : g.mode[t] = {"v"}}
       /\ p.wkv = m.wkv \cup {t \in met \cap Tables : g.mode[t] = {"k", "v"}}
  BY <1>6, Zenon DEF In
<1>11. p.marked = m.marked \cup met /\ p.tmark = {} /\ p \in Marks /\ met \in SUBSET Objects /\ m.tmark \subseteq met
  BY <1>1, <1>6
<1>12. QED BY <1>7, <1>8, <1>9, <1>10, <1>11, Zenon DEF p, Traverses

\* All but the nodes, and what was looked at.
Rest(g) == <<g.mode, g.bits, g.meta, g.unfinalized, g.slot, g.upval, g.uv, g.top, g.strt, g.rootgc,
             g.rootudata, g.tmudata, g.marked>>

LEMMA RemoveIs ==
    ASSUME NEW n \in Node
    PROVE  removekey(n) \in Node /\ removekey(removekey(n)) = removekey(n)
           /\ removekey(n).val = Nil /\ removekey(n).key \notin Objects
  BY Kinds DEF removekey, Node, Things

\* Clearing removes the nodes of the tables whose key, or value, is not marked.
LEMMA ClearIs ==
    ASSUME NEW g \in Heap, NEW m \in Marks, NEW look, DOMAIN look \subseteq Tables
    PROVE  \E g2 \in Heap, m2 \in Marks :
               /\ cleartables([g |-> g, m |-> m], look) = [g |-> g2, m |-> m2]
               /\ Rest(g2) = Rest(g)
               /\ \A t \in Tables : g2.node[t] = IF t \in DOMAIN look /\ Weak(m, look[t]) THEN removekey(g.node[t])
                                                                                 ELSE g.node[t]
               /\ g2.ok = (g.ok /\ Elements(look) \cap Objects \subseteq allocated(g))
               /\ m2 = [m EXCEPT !.marked = m.marked \cup (Elements(look) \cap Strings)]
<1> DEFINE x == [g |-> g, m |-> m]
           seen == Elements(look) \cap Objects
           gone == {t \in DOMAIN look : Weak(m, look[t])}
           node == [t \in Tables |-> IF t \in gone THEN removekey(g.node[t]) ELSE g.node[t]]
           ok == g.ok /\ seen \subseteq allocated(g)
           g2 == [g EXCEPT !.node = node, !.ok = ok]
           m2 == [m EXCEPT !.marked = m.marked \cup (seen \cap Strings)]
<1>1. cleartables(x, look) = [g |-> g2, m |-> m2]
  <2>1. x.g = g /\ x.m = m
    OBVIOUS
  <2>2. QED BY <2>1, Zenon DEF cleartables
<1>2. node \in [Tables -> Node]
  BY Fields, RemoveIs
<1>3. ok \in BOOLEAN /\ seen \cap Strings \subseteq Objects
  BY DEF Objects
<1>4. \A t \in Tables : node[t] = IF t \in DOMAIN look /\ Weak(m, look[t]) THEN removekey(g.node[t]) ELSE g.node[t]
  OBVIOUS
<1>5. seen \cap Strings = Elements(look) \cap Strings
  BY DEF Objects
<1> HIDE DEF node, ok, seen, x
<1>6. g2 \in Heap /\ g2.node = node /\ g2.ok = ok /\ Rest(g2) = Rest(g)
  BY <1>2, <1>3 DEF Heap, Rest
<1>7. m2 \in Marks
  BY <1>3 DEF Marks
<1>8. m2 = [m EXCEPT !.marked = m.marked \cup (Elements(look) \cap Strings)]
  BY <1>5
<1>9. g2.ok = (g.ok /\ Elements(look) \cap Objects \subseteq allocated(g))
  BY <1>6 DEF ok, seen
<1> HIDE DEF g2, m2
<1>10. QED BY <1>1, <1>4, <1>6, <1>7, <1>8, <1>9 DEF x

\* Unmarked userdata that are not finalized are set aside, or finalized.
LEMMA SeparateIs ==
    ASSUME NEW g \in Heap, ListsOK(g), NEW marked
    PROVE  LET s == luaC_separateudata(g, marked)
               dead == (Elements(g.rootudata) \cap g.unfinalized) \ marked
               take == {u \in dead : g.meta[u] # Nil}
           IN /\ s \in Heap /\ ListsOK(s)
              /\ s = [g EXCEPT !.rootudata = s.rootudata, !.tmudata = s.tmudata, !.unfinalized = s.unfinalized]
              /\ Elements(s.rootudata) = Elements(g.rootudata) \ take
              /\ Elements(s.tmudata) = Elements(g.tmudata) \cup take
              /\ s.unfinalized = g.unfinalized \ (dead \ take)
              /\ allocated(s) = allocated(g)
<1> DEFINE s == luaC_separateudata(g, marked)
           dead == (Elements(g.rootudata) \cap g.unfinalized) \ marked
           take == {u \in dead : g.meta[u] # Nil}
           stay == Among(g.rootudata, Udatas \ take)
           go   == Among(g.rootudata, take)
           unf  == g.unfinalized \ (dead \ take)
<1>1. /\ stay \in Seq(Udatas) /\ Elements(stay) = Elements(g.rootudata) \cap (Udatas \ take) /\ Distinct(stay)
      /\ go \in Seq(Udatas) /\ Elements(go) = Elements(g.rootudata) \cap take /\ Distinct(go)
  BY Fields, AmongIs DEF ListsOK
<1>2. take \subseteq Elements(g.rootudata) /\ Elements(g.rootudata) \subseteq Udatas /\ Elements(g.tmudata) \subseteq Udatas
  BY Fields, ElementsIn
<1>3. Elements(stay) = Elements(g.rootudata) \ take /\ Elements(go) = take
  BY <1>1, <1>2
<1>4. s = [g EXCEPT !.rootudata = stay, !.tmudata = go \o g.tmudata, !.unfinalized = unf]
  BY Zenon DEF luaC_separateudata
<1>5. unf \subseteq Udatas
  BY Fields
<1> HIDE DEF stay, go, take, unf, s, dead
<1>6. /\ go \o g.tmudata \in Seq(Udatas) /\ Elements(go \o g.tmudata) = take \cup Elements(g.tmudata)
      /\ Distinct(go \o g.tmudata)
  <2>1. g.tmudata \in Seq(Udatas) /\ Distinct(g.tmudata) /\ Elements(go) \cap Elements(g.tmudata) = {}
    BY <1>2, <1>3, Fields DEF ListsOK
  <2>2. QED BY <1>1, <1>3, <2>1, ElementsConcat
<1> DEFINE tmu == go \o g.tmudata
<1> HIDE DEF tmu
<1>7. s = [g EXCEPT !.rootudata = stay, !.tmudata = tmu, !.unfinalized = unf] /\ tmu \in Seq(Udatas)
      /\ Elements(tmu) = take \cup Elements(g.tmudata) /\ Distinct(tmu)
  BY <1>4, <1>6 DEF tmu
<1>8. s \in Heap /\ s.rootudata = stay /\ s.tmudata = tmu /\ s.unfinalized = unf
      /\ s.marked = g.marked /\ s.strt = g.strt /\ s.rootgc = g.rootgc
  BY <1>1, <1>5, <1>7 DEF Heap
<1>9. ListsOK(s)
  BY <1>1, <1>2, <1>3, <1>7, <1>8 DEF ListsOK
<1>10. allocated(s) = allocated(g)
  BY <1>2, <1>3, <1>7, <1>8 DEF allocated
<1>11. QED BY <1>3, <1>7, <1>8, <1>9, <1>10 DEF s, unf, dead, take

\* All that tables in S are cleared for is allocated.
Looks(g, S) ==
    \A t \in S : /\ g.node[t].val \in Objects => g.node[t].val \in allocated(g)
                 /\ "k" \in g.mode[t] /\ g.node[t].key \in Objects => g.node[t].key \in allocated(g)

\* A string that a clearing can see in a weak table.
InNode(g, t, o) == (o = g.node[t].key /\ "k" \in g.mode[t]) \/ o = g.node[t].val

\* What clearing weak tables in S, once or more often, comes to: some nodes are removed,
\* and strings that are in them are marked.
Clears(g, m, g2, m2, S) ==
    /\ g2 \in Heap /\ m2 \in Marks /\ Rest(g2) = Rest(g)
    /\ m.marked \subseteq m2.marked /\ m2 = [m EXCEPT !.marked = m2.marked]
    /\ \A t \in Tables : \/ g2.node[t] = g.node[t]
                         \/ /\ t \in S /\ g2.node[t] = removekey(g.node[t])
                            /\ g.node[t].key \notin Strings \/ g.node[t].val # Nil
    /\ \A o \in m2.marked \ m.marked : o \in Strings /\ \E t \in S : InNode(g, t, o)
    /\ Looks(g, S) /\ g.ok => Looks(g2, S) /\ g2.ok

\* What is the same in Rest.
LEMMA RestIs ==
    ASSUME NEW g, NEW g2, Rest(g2) = Rest(g)
    PROVE  /\ g2.mode = g.mode /\ g2.bits = g.bits /\ g2.meta = g.meta /\ g2.unfinalized = g.unfinalized
           /\ g2.slot = g.slot /\ g2.upval = g.upval /\ g2.uv = g.uv /\ g2.top = g.top /\ g2.strt = g.strt
           /\ g2.rootgc = g.rootgc /\ g2.rootudata = g.rootudata /\ g2.tmudata = g.tmudata /\ g2.marked = g.marked
           /\ allocated(g2) = allocated(g)
<1>1. /\ g2.mode = g.mode /\ g2.bits = g.bits /\ g2.meta = g.meta /\ g2.unfinalized = g.unfinalized
      /\ g2.slot = g.slot /\ g2.upval = g.upval /\ g2.uv = g.uv /\ g2.top = g.top /\ g2.strt = g.strt
      /\ g2.rootgc = g.rootgc /\ g2.rootudata = g.rootudata /\ g2.tmudata = g.tmudata /\ g2.marked = g.marked
  BY DEF Rest
<1>2. QED BY <1>1 DEF allocated

\* One clearing.
ClearsFor(g, m, look, g2, m2, S) ==
    /\ cleartables([g |-> g, m |-> m], look) = [g |-> g2, m |-> m2]
    /\ Clears(g, m, g2, m2, S)
    /\ \A t \in DOMAIN look : g2.node[t] = removekey(g.node[t])
                              \/ (g2.node[t] = g.node[t] /\ (look[t] \in Objects => look[t] \in m2.marked))

LEMMA ClearsOnce ==
    ASSUME NEW g \in Heap, NEW m \in Marks, NEW S \in SUBSET Tables, NEW look, DOMAIN look \subseteq S,
           \A t \in DOMAIN look : look[t] = g.node[t].val \/ (look[t] = g.node[t].key /\ "k" \in g.mode[t])
    PROVE  \E g2 \in Heap, m2 \in Marks : ClearsFor(g, m, look, g2, m2, S)
<1>1. PICK g2 \in Heap, m2 \in Marks :
          /\ cleartables([g |-> g, m |-> m], look) = [g |-> g2, m |-> m2]
          /\ Rest(g2) = Rest(g)
          /\ \A t \in Tables : g2.node[t] = IF t \in DOMAIN look /\ Weak(m, look[t]) THEN removekey(g.node[t])
                                                                            ELSE g.node[t]
          /\ g2.ok = (g.ok /\ Elements(look) \cap Objects \subseteq allocated(g))
          /\ m2 = [m EXCEPT !.marked = m.marked \cup (Elements(look) \cap Strings)]
  BY ClearIs
<1>2. m2.marked = m.marked \cup (Elements(look) \cap Strings)
  BY <1>1 DEF Marks
<1>3. m.marked \subseteq m2.marked /\ m2 = [m EXCEPT !.marked = m2.marked]
  BY <1>1, <1>2
<1>4. \A t \in Tables : \/ g2.node[t] = g.node[t]
                        \/ /\ t \in S /\ g2.node[t] = removekey(g.node[t])
                           /\ g.node[t].key \notin Strings \/ g.node[t].val # Nil
  <2>1. TAKE t \in Tables
  <2>2. SUFFICES ASSUME t \in DOMAIN look, Weak(m, look[t])
                 PROVE  g.node[t].key \notin Strings \/ g.node[t].val # Nil
    BY <1>1
  <2>3. look[t] \in Objects \ Strings /\ Nil \notin Objects
    BY <2>2, Kinds DEF Weak, Things
  <2>4. QED BY <2>2, <2>3
<1>5. \A o \in m2.marked \ m.marked : o \in Strings /\ \E t \in S : InNode(g, t, o)
  BY <1>2 DEF Elements, InNode
<1>6. ASSUME Looks(g, S), g.ok PROVE Looks(g2, S) /\ g2.ok
  <2>1. allocated(g2) = allocated(g) /\ g2.mode = g.mode
    BY <1>1, RestIs
  <2>2. \A t \in S : g2.node[t] = g.node[t] \/ (g2.node[t].key \notin Objects /\ g2.node[t].val \notin Objects)
    <3>1. TAKE t \in S
    <3>2. g.node[t] \in Node /\ Nil \notin Objects
      BY Fields, Kinds DEF Things
    <3>3. QED BY <1>1, <3>2, RemoveIs
  <2>3. Looks(g2, S)
    BY <1>6, <2>1, <2>2 DEF Looks
  <2>4. Elements(look) \cap Objects \subseteq allocated(g)
    BY <1>6 DEF Looks, Elements
  <2>5. QED BY <1>1, <1>6, <2>3, <2>4
<1>7. \A t \in DOMAIN look : g2.node[t] = removekey(g.node[t])
                             \/ (g2.node[t] = g.node[t] /\ (look[t] \in Objects => look[t] \in m2.marked))
  <2>1. TAKE t \in DOMAIN look
  <2>2. CASE Weak(m, look[t])
    BY <1>1, <2>2
  <2>3. CASE ~Weak(m, look[t])
    <3>1. g2.node[t] = g.node[t]
      BY <1>1, <2>3
    <3>2. look[t] \in Objects => look[t] \in Strings \/ look[t] \in m.marked
      BY <2>3 DEF Weak
    <3>3. look[t] \in Elements(look)
      BY DEF Elements
    <3>4. QED BY <1>2, <3>1, <3>2, <3>3
  <2>4. QED BY <2>2, <2>3
<1>8. Clears(g, m, g2, m2, S)
  BY <1>1, <1>3, <1>4, <1>5, <1>6 DEF Clears
<1>9. QED BY <1>1, <1>7, <1>8 DEF ClearsFor

\* Clearing keys leaves no key that is not marked, and clearing values no such value.
NoKeys(g, m, T)   == \A t \in T : g.node[t].key \in Objects => g.node[t].key \in m.marked
NoValues(g, m, T) == \A t \in T : g.node[t].val # Nil => g.node[t].val \in m.marked

LEMMA KeysCleared ==
    ASSUME NEW g \in Heap, NEW m \in Marks, NEW S \in SUBSET Tables, NEW T \in SUBSET S,
           \A t \in T : "k" \in g.mode[t]
    PROVE  \E g2 \in Heap, m2 \in Marks : /\ cleartablekeys([g |-> g, m |-> m], T) = [g |-> g2, m |-> m2]
                                         /\ Clears(g, m, g2, m2, S) /\ NoKeys(g2, m2, T)
<1> DEFINE look == [t \in T |-> g.node[t].key]
<1>1. DOMAIN look = T /\ \A t \in T : look[t] = g.node[t].key
  OBVIOUS
<1>2. cleartablekeys([g |-> g, m |-> m], T) = cleartables([g |-> g, m |-> m], look)
  BY DEF cleartablekeys
<1> HIDE DEF look
<1>3. PICK g2 \in Heap, m2 \in Marks : ClearsFor(g, m, look, g2, m2, S)
  <2>1. DOMAIN look \subseteq S /\ \A t \in DOMAIN look : look[t] = g.node[t].key /\ "k" \in g.mode[t]
    BY <1>1
  <2>2. QED BY <2>1, ClearsOnce
<1>4. ASSUME NEW t \in T PROVE g2.node[t].key \in Objects => g2.node[t].key \in m2.marked
  <2>1. g.node[t] \in Node
    BY Fields
  <2>2. removekey(g.node[t]).key \notin Objects
    BY <2>1, RemoveIs
  <2>3. g2.node[t] = removekey(g.node[t])
        \/ (g2.node[t] = g.node[t] /\ (g.node[t].key \in Objects => g.node[t].key \in m2.marked))
    BY <1>1, <1>3 DEF ClearsFor
  <2>4. QED BY <2>2, <2>3
<1>5. cleartablekeys([g |-> g, m |-> m], T) = [g |-> g2, m |-> m2] /\ Clears(g, m, g2, m2, S)
  BY <1>2, <1>3 DEF ClearsFor
<1>6. QED BY <1>4, <1>5 DEF NoKeys

LEMMA ValuesCleared ==
    ASSUME NEW g \in Heap, NEW m \in Marks, NEW S \in SUBSET Tables, NEW T \in SUBSET S
    PROVE  \E g2 \in Heap, m2 \in Marks : /\ cleartablevalues([g |-> g, m |-> m], T) = [g |-> g2, m |-> m2]
                                         /\ Clears(g, m, g2, m2, S) /\ NoValues(g2, m2, T)
<1> DEFINE look == [t \in T |-> g.node[t].val]
<1>1. DOMAIN look = T /\ \A t \in T : look[t] = g.node[t].val
  OBVIOUS
<1>2. cleartablevalues([g |-> g, m |-> m], T) = cleartables([g |-> g, m |-> m], look)
  BY DEF cleartablevalues
<1> HIDE DEF look
<1>3. PICK g2 \in Heap, m2 \in Marks : ClearsFor(g, m, look, g2, m2, S)
  <2>1. DOMAIN look \subseteq S /\ \A t \in DOMAIN look : look[t] = g.node[t].val
    BY <1>1
  <2>2. QED BY <2>1, ClearsOnce
<1>4. ASSUME NEW t \in T PROVE g2.node[t].val # Nil => g2.node[t].val \in m2.marked
  <2>1. g.node[t] \in Node /\ (g.node[t].val # Nil => g.node[t].val \in Objects)
    BY Fields DEF Node
  <2>2. removekey(g.node[t]).val = Nil
    BY <2>1, RemoveIs
  <2>3. g2.node[t] = removekey(g.node[t])
        \/ (g2.node[t] = g.node[t] /\ (g.node[t].val \in Objects => g.node[t].val \in m2.marked))
    BY <1>1, <1>3 DEF ClearsFor
  <2>4. QED BY <2>1, <2>2, <2>3
<1>5. cleartablevalues([g |-> g, m |-> m], T) = [g |-> g2, m |-> m2] /\ Clears(g, m, g2, m2, S)
  BY <1>2, <1>3 DEF ClearsFor
<1>6. QED BY <1>4, <1>5 DEF NoValues

\* Keys and values that are marked or removed stay so.
LEMMA ClearsKeeps ==
    ASSUME NEW g \in Heap, NEW m, NEW g2, NEW m2, NEW S, Clears(g, m, g2, m2, S), NEW t \in Tables
    PROVE  /\ (g.node[t].key \in Objects => g.node[t].key \in m.marked)
                  => (g2.node[t].key \in Objects => g2.node[t].key \in m2.marked)
           /\ (g.node[t].val # Nil => g.node[t].val \in m.marked)
                  => (g2.node[t].val # Nil => g2.node[t].val \in m2.marked)
           /\ g2.node[t].val # Nil => g2.node[t] = g.node[t]
           /\ t \notin S => g2.node[t] = g.node[t]
           /\ g2.node[t] = g.node[t] \/ g2.node[t] = removekey(g.node[t])
<1>1. g.node[t] \in Node
  BY Fields
<1>2. m.marked \subseteq m2.marked /\ (g2.node[t] = g.node[t] \/ (t \in S /\ g2.node[t] = removekey(g.node[t])))
  BY DEF Clears
<1>3. QED BY <1>1, <1>2, RemoveIs

\* One clearing after the other.
LEMMA ClearsThen ==
    ASSUME NEW g1 \in Heap, NEW m1 \in Marks, NEW g2 \in Heap, NEW m2 \in Marks, NEW g3, NEW m3,
           NEW S \in SUBSET Tables, Clears(g1, m1, g2, m2, S), Clears(g2, m2, g3, m3, S)
    PROVE  Clears(g1, m1, g3, m3, S)
<1>1. g3 \in Heap /\ m3 \in Marks /\ Rest(g3) = Rest(g1) /\ m1.marked \subseteq m3.marked
      /\ (Looks(g1, S) /\ g1.ok => Looks(g3, S) /\ g3.ok)
  BY DEF Clears
<1>2. m3 = [m1 EXCEPT !.marked = m3.marked]
  <2>1. m2 = [m1 EXCEPT !.marked = m2.marked] /\ m3 = [m2 EXCEPT !.marked = m3.marked]
    BY DEF Clears
  <2>2. QED BY <2>1, <1>1 DEF Marks
<1>3. ASSUME NEW t \in Tables
      PROVE  \/ g3.node[t] = g1.node[t]
             \/ /\ t \in S /\ g3.node[t] = removekey(g1.node[t])
                /\ g1.node[t].key \notin Strings \/ g1.node[t].val # Nil
  <2>1. /\ g2.node[t] = g1.node[t] \/ (t \in S /\ g2.node[t] = removekey(g1.node[t])
                                       /\ (g1.node[t].key \notin Strings \/ g1.node[t].val # Nil))
        /\ g3.node[t] = g2.node[t] \/ (t \in S /\ g3.node[t] = removekey(g2.node[t])
                                       /\ (g2.node[t].key \notin Strings \/ g2.node[t].val # Nil))
    BY DEF Clears
  <2>2. g1.node[t] \in Node
    BY Fields
  <2>3. QED BY <2>1, <2>2, RemoveIs
<1>4. ASSUME NEW o \in m3.marked \ m1.marked
      PROVE  o \in Strings /\ \E t \in S : InNode(g1, t, o)
  <2>1. CASE o \in m2.marked
    BY <1>4, <2>1 DEF Clears
  <2>2. CASE o \notin m2.marked
    <3>1. PICK t \in S : o \in Strings /\ InNode(g2, t, o)
      BY <1>4, <2>2 DEF Clears
    <3>2. o \in Objects /\ g1.node[t] \in Node /\ Nil \notin Objects
      BY <3>1, Fields, Kinds DEF Objects, Things
    <3>3. g2.node[t] = g1.node[t]
      <4>1. g2.node[t] = g1.node[t] \/ g2.node[t] = removekey(g1.node[t])
        BY DEF Clears
      <4>2. o = g2.node[t].key \/ o = g2.node[t].val
        BY <3>1 DEF InNode
      <4>3. QED BY <3>2, <4>1, <4>2, RemoveIs
    <3>4. g2.mode = g1.mode
      BY RestIs DEF Clears
    <3>5. QED BY <3>1, <3>3, <3>4 DEF InNode
  <2>3. QED BY <2>1, <2>2
<1>5. QED BY <1>1, <1>2, <1>3, <1>4 DEF Clears

-----------------------------------------------------------------------------
(* What a collection marks.                                                    *)

\* All that the things in met hold is marked, but for what weak tables hold weakly.
Passed(g, met, m) ==
    /\ \A t \in met \cap Tables : g.node[t].val # Nil =>
           /\ "k" \notin g.mode[t] => g.node[t].key \in m.marked
           /\ "v" \notin g.mode[t] => g.node[t].val \in m.marked
    /\ \A u \in met \cap Udatas : g.meta[u] \in m.marked \cup {Nil}
    /\ \A c \in met \cap Coroutines : g.slot[c] \in m.marked \cup {Nil}
    /\ \A f \in met \cap Closures : \A v \in Upvals :
           g.upval[f] = v /\ g.uv[v].open = Nil => v \in m.uvmarked /\ g.uv[v].value \in m.marked \cup {Nil}

LEMMA PassIs ==
    ASSUME NEW g \in Heap, NEW m \in Marks, NEW met \in SUBSET Objects, NEW p, Traverses(g, m, met, p)
    PROVE  Passed(g, met, p)
<1>1. \A o \in met : traverse(g, o) \cap Objects \subseteq p.marked
  BY DEF Traverses
<1>2. ASSUME NEW t \in met \cap Tables, g.node[t].val # Nil
      PROVE  /\ "k" \notin g.mode[t] => g.node[t].key \in p.marked
             /\ "v" \notin g.mode[t] => g.node[t].val \in p.marked
  <2>1. g.node[t].key \in Objects /\ g.node[t].val \in Objects
    BY <1>2, Fields DEF Node
  <2>2. traverse(g, t) = traversetable(g, t)
    BY TraverseIs
  <2>3. /\ "k" \notin g.mode[t] => g.node[t].key \in traversetable(g, t)
        /\ "v" \notin g.mode[t] => g.node[t].val \in traversetable(g, t)
    BY <1>2 DEF traversetable
  <2>4. QED BY <1>1, <2>1, <2>2, <2>3
<1>3. ASSUME NEW u \in met \cap Udatas PROVE g.meta[u] \in p.marked \cup {Nil}
  <2>1. g.meta[u] \in Objects \cup {Nil}
    BY Fields DEF Objects
  <2>2. QED BY <1>1, <2>1, TraverseIs
<1>4. ASSUME NEW c \in met \cap Coroutines PROVE g.slot[c] \in p.marked \cup {Nil}
  <2>1. g.slot[c] \in Objects \cup {Nil}
    BY Fields DEF Threads
  <2>2. QED BY <1>1, <2>1, TraverseIs
<1>5. ASSUME NEW f \in met \cap Closures, NEW v \in Upvals, g.upval[f] = v, g.uv[v].open = Nil
      PROVE  v \in p.uvmarked /\ g.uv[v].value \in p.marked \cup {Nil}
  <2>1. g.uv[v].value \in Objects \cup {Nil}
    BY Fields
  <2>2. traverse(g, f) = traverseclosure(g, f)
    BY TraverseIs
  <2>3. g.uv[v].value \in traverseclosure(g, f)
    BY <1>5 DEF traverseclosure
  <2>4. v \in p.uvmarked
    BY <1>5 DEF Traverses
  <2>5. QED BY <1>1, <2>1, <2>2, <2>3, <2>4
<1>6. QED BY <1>2, <1>3, <1>4, <1>5 DEF Passed

\* The same heap, but for the nodes and for what is set aside.
Same(g, g2) ==
    /\ g2.mode = g.mode /\ g2.meta = g.meta /\ g2.slot = g.slot /\ g2.upval = g.upval /\ g2.uv = g.uv
    /\ g2.top = g.top /\ g2.strt = g.strt /\ g2.rootgc = g.rootgc /\ g2.marked = g.marked
    /\ allocated(g2) = allocated(g)

\* A traversal stays in what things hold, also when nodes have been removed.
LEMMA ReachedIs ==
    ASSUME NEW g \in Heap, NEW m \in Marks, NEW met \in SUBSET Objects, NEW p, Traverses(g, m, met, p),
           NEW g0 \in Heap, Same(g0, g), \A t \in Tables : g.node[t].val # Nil => g.node[t] = g0.node[t],
           NEW C, ClosedIn(g0, C), m.tmark \subseteq C
    PROVE  met \subseteq C
<1>1. ASSUME NEW o \in C \cap Objects PROVE traverse(g, o) \cap Objects \subseteq Holds(g0, o)
  <2>1. Nil \notin Objects /\ o \in Things
    BY Kinds DEF Things
  <2>2. CASE o \in Tables
    <3>1. traverse(g, o) = traversetable(g, o)
      BY <2>2, TraverseIs
    <3>2. g.node[o].val # Nil => g.node[o] = g0.node[o]
      BY <2>2
    <3>3. traversetable(g, o) \subseteq IF g0.node[o].val = Nil THEN {} ELSE {g0.node[o].key, g0.node[o].val}
      BY <3>2 DEF traversetable
    <3>4. QED BY <2>1, <2>2, <3>1, <3>3, HoldsIs
  <2>3. CASE o \in Udatas
    BY <2>1, <2>3, TraverseIs, HoldsIs DEF Same
  <2>4. CASE o \in Coroutines
    BY <2>1, <2>4, TraverseIs, HoldsIs DEF Same
  <2>5. CASE o \in Closures
    <3>1. traverse(g, o) = traverseclosure(g, o)
      BY <2>5, TraverseIs
    <3>2. Nil \notin Upvals
      BY Kinds DEF Things
    <3>3. \A x \in traverseclosure(g, o) : g0.upval[o] # Nil /\ x = ValueOf(g0, g0.upval[o])
      BY <3>2 DEF traverseclosure, ValueOf, Same
    <3>4. Holds(g0, o) = (IF g0.upval[o] = Nil THEN {} ELSE {g0.upval[o], ValueOf(g0, g0.upval[o])}) \ {Nil}
      BY <2>1, <2>5, HoldsIs
    <3>5. QED BY <2>1, <3>1, <3>3, <3>4
  <2>6. CASE o \in Strings
    BY <2>6, TraverseIs
  <2>7. QED BY <2>2, <2>3, <2>4, <2>5, <2>6 DEF Objects
<1>2. \A o \in C \cap Objects : (traverse(g, o) \cap Objects) \ m.marked \subseteq C \cap Objects
  BY <1>1 DEF ClosedIn
<1>3. m.tmark \subseteq C \cap Objects
  BY DEF Marks
<1>4. C \cap Objects \in SUBSET Objects
  OBVIOUS
<1>5. QED BY <1>2, <1>3, <1>4 DEF Traverses

\* What is cleared stays so.
LEMMA ClearedStays ==
    ASSUME NEW g \in Heap, NEW m, NEW g2, NEW m2, NEW S, NEW T \in SUBSET Tables, Clears(g, m, g2, m2, S)
    PROVE  (NoKeys(g, m, T) => NoKeys(g2, m2, T)) /\ (NoValues(g, m, T) => NoValues(g2, m2, T))
<1>1. \A t \in T : /\ (g.node[t].key \in Objects => g.node[t].key \in m.marked)
                         => (g2.node[t].key \in Objects => g2.node[t].key \in m2.marked)
                   /\ (g.node[t].val # Nil => g.node[t].val \in m.marked)
                         => (g2.node[t].val # Nil => g2.node[t].val \in m2.marked)
  BY ClearsKeeps
<1>2. QED BY <1>1 DEF NoKeys, NoValues

\* The clearing of weak tables after the second traversal.
LEMMA ClearAll ==
    ASSUME NEW g \in Heap, NEW m \in Marks, NEW S \in SUBSET Tables,
           NEW A \in SUBSET S, NEW B \in SUBSET S, NEW V \in SUBSET S, NEW W \in SUBSET S,
           \A t \in A \cup B \cup W : "k" \in g.mode[t]
    PROVE  \E g2 \in Heap, m2 \in Marks :
               /\ cleartablevalues(cleartablekeys(cleartablevalues(cleartablekeys(cleartablekeys(
                      [g |-> g, m |-> m], A), B), V), W), W) = [g |-> g2, m |-> m2]
               /\ Clears(g, m, g2, m2, S) /\ NoKeys(g2, m2, A \cup B \cup W) /\ NoValues(g2, m2, V \cup W)
<1>1. PICK g3 \in Heap, m3 \in Marks : /\ cleartablekeys([g |-> g, m |-> m], A) = [g |-> g3, m |-> m3]
                                       /\ Clears(g, m, g3, m3, S) /\ NoKeys(g3, m3, A)
  BY KeysCleared
<1>2. g3.mode = g.mode
  BY <1>1, RestIs DEF Clears
<1>3. PICK g4 \in Heap, m4 \in Marks : /\ cleartablekeys([g |-> g3, m |-> m3], B) = [g |-> g4, m |-> m4]
                                       /\ Clears(g3, m3, g4, m4, S) /\ NoKeys(g4, m4, B)
  BY <1>2, KeysCleared
<1>4. PICK g5 \in Heap, m5 \in Marks : /\ cleartablevalues([g |-> g4, m |-> m4], V) = [g |-> g5, m |-> m5]
                                       /\ Clears(g4, m4, g5, m5, S) /\ NoValues(g5, m5, V)
  BY ValuesCleared
<1>5. g5.mode = g.mode
  <2>1. g4.mode = g3.mode /\ g5.mode = g4.mode
    BY <1>3, <1>4, RestIs DEF Clears
  <2>2. QED BY <1>2, <2>1
<1>6. PICK g6 \in Heap, m6 \in Marks : /\ cleartablekeys([g |-> g5, m |-> m5], W) = [g |-> g6, m |-> m6]
                                       /\ Clears(g5, m5, g6, m6, S) /\ NoKeys(g6, m6, W)
  BY <1>5, KeysCleared
<1>7. PICK g7 \in Heap, m7 \in Marks : /\ cleartablevalues([g |-> g6, m |-> m6], W) = [g |-> g7, m |-> m7]
                                       /\ Clears(g6, m6, g7, m7, S) /\ NoValues(g7, m7, W)
  BY ValuesCleared
<1>8. cleartablevalues(cleartablekeys(cleartablevalues(cleartablekeys(cleartablekeys(
          [g |-> g, m |-> m], A), B), V), W), W) = [g |-> g7, m |-> m7]
  BY <1>1, <1>3, <1>4, <1>6, <1>7, Zenon
<1>9. Clears(g, m, g7, m7, S)
  <2>1. Clears(g, m, g4, m4, S)
    BY <1>1, <1>3, ClearsThen
  <2>2. Clears(g, m, g5, m5, S)
    BY <1>4, <2>1, ClearsThen
  <2>3. Clears(g, m, g6, m6, S)
    BY <1>6, <2>2, ClearsThen
  <2>4. QED BY <1>7, <2>3, ClearsThen
<1>10. /\ NoKeys(g7, m7, A) /\ NoKeys(g7, m7, B) /\ NoKeys(g7, m7, W)
       /\ NoValues(g7, m7, V) /\ NoValues(g7, m7, W)
  <2>1. A \in SUBSET Tables /\ B \in SUBSET Tables /\ V \in SUBSET Tables /\ W \in SUBSET Tables
    OBVIOUS
  <2>2. NoKeys(g4, m4, A)
    BY <1>1, <1>3, <2>1, ClearedStays
  <2>3. NoKeys(g5, m5, A) /\ NoKeys(g5, m5, B)
    BY <1>3, <1>4, <2>1, <2>2, ClearedStays
  <2>4. NoKeys(g6, m6, A) /\ NoKeys(g6, m6, B) /\ NoValues(g6, m6, V)
    BY <1>4, <1>6, <2>1, <2>3, ClearedStays
  <2>5. QED BY <1>6, <1>7, <2>1, <2>4, ClearedStays
<1>11. NoKeys(g7, m7, A \cup B \cup W) /\ NoValues(g7, m7, V \cup W)
  BY <1>10 DEF NoKeys, NoValues
<1>12. QED BY <1>8, <1>9, <1>11

\* Tables may be looked at that were not cleared.
LEMMA ClearsMore ==
    ASSUME NEW g \in Heap, NEW m, NEW g2, NEW m2, NEW S, NEW T \in SUBSET Tables, S \subseteq T, Clears(g, m, g2, m2, S)
    PROVE  Clears(g, m, g2, m2, T)
<1>1. ASSUME Looks(g, T), g.ok PROVE Looks(g2, T) /\ g2.ok
  <2>1. Looks(g, S)
    BY <1>1 DEF Looks
  <2>2. g2.ok /\ allocated(g2) = allocated(g) /\ g2.mode = g.mode
    BY <1>1, <2>1, RestIs DEF Clears
  <2>3. \A t \in T : g2.node[t] = g.node[t] \/ (g2.node[t].key \notin Objects /\ g2.node[t].val \notin Objects)
    <3>1. TAKE t \in T
    <3>2. g.node[t] \in Node /\ Nil \notin Objects
      BY Fields, Kinds DEF Things
    <3>3. g2.node[t] = g.node[t] \/ g2.node[t] = removekey(g.node[t])
      BY ClearsKeeps
    <3>4. QED BY <3>2, <3>3, RemoveIs
  <2>4. QED BY <1>1, <2>2, <2>3 DEF Looks
<1>2. QED BY <1>1 DEF Clears

\* What a traversal has marked stays marked.
LEMMA PassedStays ==
    ASSUME NEW g \in Heap, NEW m \in Marks, NEW g2 \in Heap, NEW m2 \in Marks, NEW met \in SUBSET Objects,
           Passed(g, met, m), Same(g, g2), m.marked \subseteq m2.marked, m.uvmarked \subseteq m2.uvmarked,
           \A t \in Tables : g2.node[t].val # Nil => g2.node[t] = g.node[t]
    PROVE  Passed(g2, met, m2)
<1>1. \A t \in met \cap Tables : g2.node[t].val # Nil =>
           /\ "k" \notin g2.mode[t] => g2.node[t].key \in m2.marked
           /\ "v" \notin g2.mode[t] => g2.node[t].val \in m2.marked
  BY DEF Passed, Same
<1>2. /\ \A u \in met \cap Udatas : g2.meta[u] \in m2.marked \cup {Nil}
      /\ \A c \in met \cap Coroutines : g2.slot[c] \in m2.marked \cup {Nil}
  BY DEF Passed, Same
<1>3. \A f \in met \cap Closures : \A v \in Upvals :
          g2.upval[f] = v /\ g2.uv[v].open = Nil => v \in m2.uvmarked /\ g2.uv[v].value \in m2.marked \cup {Nil}
  BY DEF Passed, Same
<1>4. QED BY <1>1, <1>2, <1>3 DEF Passed

-----------------------------------------------------------------------------
(* A collection marks what can be reached, sets userdata aside, marks again, and clears weak tables. *)

Weaks(g, met) == {t \in met \cap Tables : g.mode[t] # {}}

\* Of the userdata that are not in K, those with a gc tag method are set aside in g2.
SetAside(g, K, g2) ==
    LET dead == (Elements(g.rootudata) \cap g.unfinalized) \ K
        take == {u \in dead : g.meta[u] # Nil}
    IN /\ ListsOK(g2) /\ Elements(g2.rootudata) = Elements(g.rootudata) \ take
       /\ Elements(g2.tmudata) = Elements(g.tmudata) \cup take
       /\ g2.unfinalized = g.unfinalized \ (dead \ take)

\* Nodes of tables in S were removed.
Removed(g, g2, S) ==
    \A t \in Tables : \/ g2.node[t] = g.node[t]
                      \/ /\ t \in S /\ g2.node[t] = removekey(g.node[t])
                         /\ g.node[t].key \notin Strings \/ g.node[t].val # Nil

\* Besides what was met, strings in weak tables are marked.
Sources(g, met, m) ==
    \A o \in m.marked : \/ o \in met \cup Fixed
                        \/ o \in Strings /\ \E t \in Weaks(g, met) : InNode(g, t, o)

\* From the heap g with the roots R to g2 and the marks m: met1 is what the first traversal
\* met, K what was marked when userdata were set aside, and met what both traversals met.
Marked(g, R, met1, K, met, g2, m) ==
    /\ Same(g, g2) /\ SetAside(g, K, g2) /\ Removed(g, g2, Weaks(g, met))
    /\ met1 \subseteq met /\ met1 \subseteq K /\ K \subseteq m.marked /\ met \subseteq m.marked
    /\ g.marked \cup Fixed \subseteq K
    /\ K \subseteq met1 \cup g.marked \cup Strings /\ Elements(g2.tmudata) \subseteq met
    /\ R \cap Objects \subseteq met1 \cup g.marked \cup Fixed
    /\ \A o \in met1 : traverse(g, o) \cap Objects \subseteq met1 \cup g.marked \cup Fixed
    /\ \A C : ClosedIn(g, C) /\ R \cap Objects \subseteq C /\ Elements(g2.tmudata) \subseteq C => met \subseteq C
    /\ g2.bits = [t \in Tables |-> IF t \in Weaks(g, met) THEN g.mode[t] ELSE g.bits[t]]
    /\ m.uvmarked = {v \in Upvals : g.uv[v].open = Nil /\ \E f \in met \cap Closures : g.upval[f] = v}
    /\ Passed(g2, met, m) /\ Sources(g, met, m)
    /\ NoKeys(g2, m, {t \in met \cap Tables : "k" \in g.mode[t]})
    /\ NoValues(g2, m, {t \in met \cap Tables : "v" \in g.mode[t]})
    /\ \A t \in met1 \cap Tables : "v" \in g.mode[t] => g2.node[t].val \in K \cup {Nil}
    /\ Looks(g, Weaks(g, met)) /\ g.ok => g2.ok

LEMMA ModeIs ==
    ASSUME NEW g \in Heap, NEW t \in Tables
    PROVE  /\ "k" \in g.mode[t] <=> g.mode[t] = {"k"} \/ g.mode[t] = {"k", "v"}
           /\ "v" \in g.mode[t] <=> g.mode[t] = {"v"} \/ g.mode[t] = {"k", "v"}
           /\ g.mode[t] # {} <=> g.mode[t] = {"k"} \/ g.mode[t] = {"v"} \/ g.mode[t] = {"k", "v"}
<1>1. g.mode[t] \in SUBSET {"k", "v"} /\ "k" # "v"
  BY Fields
<1> DEFINE M == g.mode[t]
<1>2. M \in SUBSET {"k", "v"} /\ "k" # "v"
  BY <1>1
<1> HIDE DEF M
<1>3. CASE "k" \in M /\ "v" \in M
  <2>1. M = {"k", "v"}
    BY <1>2, <1>3
  <2>2. QED BY <1>2, <2>1 DEF M
<1>4. CASE "k" \in M /\ "v" \notin M
  <2>1. M = {"k"}
    BY <1>2, <1>4
  <2>2. QED BY <1>2, <2>1 DEF M
<1>5. CASE "k" \notin M /\ "v" \in M
  <2>1. M = {"v"}
    BY <1>2, <1>5
  <2>2. QED BY <1>2, <2>1 DEF M
<1>6. CASE "k" \notin M /\ "v" \notin M
  <2>1. M = {}
    BY <1>2, <1>6
  <2>2. QED BY <1>2, <2>1 DEF M
<1>7. QED BY <1>3, <1>4, <1>5, <1>6

\* The marks before the first traversal.
LEMMA StartIs ==
    ASSUME NEW g \in Heap, NEW R \in SUBSET (Objects \cup {Nil})
    PROVE  LET m == markobject([marked |-> g.marked \cup Fixed, tmark |-> {}, uvmarked |-> {}, bits |-> g.bits,
                                wk |-> {}, wv |-> {}, wkv |-> {}], R)
           IN /\ m \in Marks /\ m.marked = g.marked \cup Fixed \cup m.tmark
              /\ m.tmark = (R \cap Objects) \ (g.marked \cup Fixed) /\ m.uvmarked = {} /\ m.bits = g.bits
              /\ m.wk = {} /\ m.wv = {} /\ m.wkv = {}
<1> DEFINE new == (R \cap Objects) \ (g.marked \cup Fixed)
           start == [marked |-> g.marked \cup Fixed, tmark |-> {}, uvmarked |-> {}, bits |-> g.bits,
                     wk |-> {}, wv |-> {}, wkv |-> {}]
           m == markobject(start, R)
<1>1. g.marked \cup Fixed \subseteq Objects /\ g.bits \in [Tables -> SUBSET {"k", "v"}]
  <2>1. Fixed \subseteq Strings
    BY HeapConstants
  <2>2. QED BY <2>1, Fields DEF Objects
<1>2. m = [start EXCEPT !.marked = start.marked \cup ((R \cap Objects) \ start.marked),
                        !.tmark = start.tmark \cup ((R \cap Objects) \ start.marked)]
  BY Zenon DEF markobject
<1>3. /\ start \in Marks /\ start.marked = g.marked \cup Fixed /\ start.tmark = {} /\ start.uvmarked = {}
      /\ start.bits = g.bits /\ start.wk = {} /\ start.wv = {} /\ start.wkv = {}
  BY <1>1 DEF Marks
<1> HIDE DEF m, start, new
<1>4. new \subseteq Objects /\ new = (R \cap Objects) \ start.marked
  BY <1>3 DEF new
<1>5. m = [start EXCEPT !.marked = start.marked \cup new, !.tmark = start.tmark \cup new]
  BY <1>2, <1>4
<1>6. /\ m \in Marks /\ m.marked = start.marked \cup new /\ m.tmark = start.tmark \cup new
      /\ m.uvmarked = start.uvmarked /\ m.bits = start.bits /\ m.wk = start.wk /\ m.wv = start.wv /\ m.wkv = start.wkv
  BY <1>3, <1>4, <1>5 DEF Marks
<1>7. /\ m \in Marks /\ m.marked = g.marked \cup Fixed \cup m.tmark
      /\ m.tmark = (R \cap Objects) \ (g.marked \cup Fixed) /\ m.uvmarked = {} /\ m.bits = g.bits
      /\ m.wk = {} /\ m.wv = {} /\ m.wkv = {}
  BY <1>3, <1>6 DEF new
<1>8. QED BY <1>7, Zenon DEF m, start

\* The marks before the second traversal.
LEMMA SecondIs ==
    ASSUME NEW m \in Marks, NEW tmu \in SUBSET Objects
    PROVE  LET m2 == [m EXCEPT !.marked = @ \cup tmu, !.tmark = tmu, !.wkv = {}, !.wv = {}]
           IN /\ m2 \in Marks /\ m2.marked = m.marked \cup tmu /\ m2.tmark = tmu
              /\ m2.uvmarked = m.uvmarked /\ m2.bits = m.bits /\ m2.wk = m.wk /\ m2.wv = {} /\ m2.wkv = {}
  BY DEF Marks

\* What is the same when the bits of tables are written.
LEMMA BitsWritten ==
    ASSUME NEW g \in Heap, NEW bits \in [Tables -> SUBSET {"k", "v"}], NEW g2, g2 = [g EXCEPT !.bits = bits]
    PROVE  /\ g2 \in Heap /\ g2.bits = bits /\ g2.node = g.node /\ g2.ok = g.ok /\ g2.mode = g.mode
           /\ g2.meta = g.meta /\ g2.unfinalized = g.unfinalized /\ g2.slot = g.slot /\ g2.upval = g.upval
           /\ g2.uv = g.uv /\ g2.top = g.top /\ g2.strt = g.strt /\ g2.rootgc = g.rootgc
           /\ g2.rootudata = g.rootudata /\ g2.tmudata = g.tmudata /\ g2.marked = g.marked
           /\ allocated(g2) = allocated(g)
<1>1. /\ g2 \in Heap /\ g2.bits = bits /\ g2.node = g.node /\ g2.ok = g.ok /\ g2.mode = g.mode
      /\ g2.meta = g.meta /\ g2.unfinalized = g.unfinalized /\ g2.slot = g.slot /\ g2.upval = g.upval
      /\ g2.uv = g.uv /\ g2.top = g.top /\ g2.strt = g.strt /\ g2.rootgc = g.rootgc
      /\ g2.rootudata = g.rootudata /\ g2.tmudata = g.tmudata /\ g2.marked = g.marked
  BY DEF Heap
<1>2. QED BY <1>1 DEF allocated

\* What is the same when userdata are set aside.
LEMMA Separated ==
    ASSUME NEW g \in Heap, ListsOK(g), NEW K
    PROVE  LET g2 == luaC_separateudata(g, K)
           IN /\ g2 \in Heap /\ Same(g, g2) /\ SetAside(g, K, g2)
              /\ g2.node = g.node /\ g2.ok = g.ok /\ g2.bits = g.bits
<1> DEFINE g2 == luaC_separateudata(g, K)
           dead == (Elements(g.rootudata) \cap g.unfinalized) \ K
           take == {u \in dead : g.meta[u] # Nil}
<1>1. /\ g2 \in Heap /\ ListsOK(g2)
      /\ g2 = [g EXCEPT !.rootudata = g2.rootudata, !.tmudata = g2.tmudata, !.unfinalized = g2.unfinalized]
      /\ Elements(g2.rootudata) = Elements(g.rootudata) \ take
      /\ Elements(g2.tmudata) = Elements(g.tmudata) \cup take
      /\ g2.unfinalized = g.unfinalized \ (dead \ take)
      /\ allocated(g2) = allocated(g)
  BY SeparateIs
<1>2. SetAside(g, K, g2)
  <2> HIDE DEF g2
  <2>1. QED BY <1>1, Zenon DEF SetAside, dead, take
<1> HIDE DEF g2
<1>3. /\ g2.mode = g.mode /\ g2.meta = g.meta /\ g2.slot = g.slot /\ g2.upval = g.upval /\ g2.uv = g.uv
      /\ g2.top = g.top /\ g2.strt = g.strt /\ g2.rootgc = g.rootgc /\ g2.marked = g.marked
      /\ g2.node = g.node /\ g2.ok = g.ok /\ g2.bits = g.bits
  BY <1>1 DEF Heap
<1>4. Same(g, g2)
  BY <1>1, <1>3 DEF Same
<1>5. QED BY <1>1, <1>2, <1>3, <1>4 DEF g2

LEMMA MarkIs ==
    ASSUME NEW g \in Heap, ListsOK(g), Roots(g) \in SUBSET (Objects \cup {Nil})
    PROVE  \E gf \in Heap, m \in Marks : \E met1, K, met \in SUBSET Objects :
               mark(g) = [g |-> gf, m |-> m] /\ Marked(g, Roots(g), met1, K, met, gf, m)
<1> DEFINE R   == Roots(g)
           m0  == markobject([marked |-> g.marked \cup Fixed, tmark |-> {}, uvmarked |-> {}, bits |-> g.bits,
                              wk |-> {}, wv |-> {}, wkv |-> {}], R)
           m1  == propagatemarks(m0, g)
           x1  == cleartablevalues([g |-> g, m |-> m1], m1.wkv \cup m1.wv)
           g2  == luaC_separateudata(x1.g, x1.m.marked)
           tmu == Elements(g2.tmudata)
           m2  == [x1.m EXCEPT !.marked = @ \cup tmu, !.tmark = tmu, !.wkv = {}, !.wv = {}]
           m3  == propagatemarks(m2, g2)
           x6  == cleartablevalues(cleartablekeys(cleartablevalues(cleartablekeys(cleartablekeys(
                      [g |-> g2, m |-> m3], m1.wkv), m3.wk), m3.wv), m3.wkv), m3.wkv)
<1>1. mark(g) = [g |-> [x6.g EXCEPT !.bits = m3.bits], m |-> x6.m]
  BY Zenon DEF mark
<1>2. /\ m0 \in Marks /\ m0.marked = g.marked \cup Fixed \cup m0.tmark
      /\ m0.tmark = (R \cap Objects) \ (g.marked \cup Fixed) /\ m0.uvmarked = {} /\ m0.bits = g.bits
      /\ m0.wk = {} /\ m0.wv = {} /\ m0.wkv = {}
  BY StartIs, Zenon
<1> HIDE DEF m0
<1>3. PICK met1 \in SUBSET Objects : Traverses(g, m0, met1, m1)
  BY <1>2, PropagateIs
<1> DEFINE Uvs(met) == {v \in Upvals : g.uv[v].open = Nil /\ \E f \in met \cap Closures : g.upval[f] = v}
           Bits(met) == [t \in Tables |-> IF t \in Weaks(g, met) THEN g.mode[t] ELSE g.bits[t]]
           With(met, modes) == {t \in met \cap Tables : g.mode[t] = modes}
<1>4. /\ m1 \in Marks /\ m1.marked = g.marked \cup Fixed \cup met1 /\ m1.uvmarked = Uvs(met1)
      /\ m1.wk = With(met1, {"k"}) /\ m1.wv = With(met1, {"v"}) /\ m1.wkv = With(met1, {"k", "v"})
  <2> HIDE DEF m1
  <2>1. QED BY <1>2, <1>3 DEF Traverses
<1>5. m1.bits = Bits(met1)
  <2> HIDE DEF m1
  <2>1. m1.bits = [t \in Tables |-> IF t \in met1 /\ g.mode[t] # {} THEN g.mode[t] ELSE m0.bits[t]]
    BY <1>3 DEF Traverses
  <2>2. QED BY <1>2, <2>1 DEF Weaks
<1> HIDE DEF m1, Uvs, Bits
<1> DEFINE S1 == Weaks(g, met1)
<1>6. /\ S1 \in SUBSET Tables /\ m1.wkv \cup m1.wv \in SUBSET S1 /\ m1.wkv \cup m1.wv \cup m1.wk \in SUBSET S1
      /\ \A t \in met1 \cap Tables : "v" \in g.mode[t] => t \in m1.wkv \cup m1.wv
  BY <1>4, ModeIs DEF Weaks
<1>7. PICK g1 \in Heap, n1 \in Marks : /\ x1 = [g |-> g1, m |-> n1]
                                       /\ Clears(g, m1, g1, n1, S1) /\ NoValues(g1, n1, m1.wkv \cup m1.wv)
  <2> HIDE DEF S1
  <2>1. QED BY <1>4, <1>6, ValuesCleared
<1> HIDE DEF x1, S1
<1>8. x1.g = g1 /\ x1.m = n1
  BY <1>7
<1> DEFINE K == n1.marked
<1>9. g2 = luaC_separateudata(g1, K) /\ m2 = [n1 EXCEPT !.marked = @ \cup tmu, !.tmark = tmu, !.wkv = {}, !.wv = {}]
  BY <1>8
<1>10. /\ Rest(g1) = Rest(g) /\ allocated(g1) = allocated(g) /\ g1.mode = g.mode /\ g1.bits = g.bits /\ g1.meta = g.meta
       /\ g1.unfinalized = g.unfinalized /\ g1.slot = g.slot /\ g1.upval = g.upval /\ g1.uv = g.uv
       /\ g1.top = g.top /\ g1.strt = g.strt /\ g1.rootgc = g.rootgc /\ g1.rootudata = g.rootudata
       /\ g1.tmudata = g.tmudata /\ g1.marked = g.marked
  BY <1>7, RestIs DEF Clears
<1>11. ListsOK(g1) /\ Same(g, g1)
  BY <1>10 DEF ListsOK, Same
<1> HIDE DEF m2
<1>12. /\ g2 \in Heap /\ Same(g1, g2) /\ SetAside(g1, K, g2)
       /\ g2.node = g1.node /\ g2.ok = g1.ok /\ g2.bits = g1.bits
  <2> HIDE DEF g2
  <2>1. QED BY <1>9, <1>11, Separated
<1> HIDE DEF g2, tmu
<1>13. Same(g, g2)
  BY <1>11, <1>12 DEF Same
<1>14. SetAside(g, K, g2)
  BY <1>10, <1>12 DEF SetAside
<1>15. tmu \in SUBSET Objects
  BY <1>12, Fields, ElementsIn DEF tmu, Objects
<1>16. /\ m2 \in Marks /\ m2.marked = K \cup tmu /\ m2.tmark = tmu
       /\ m2.uvmarked = n1.uvmarked /\ m2.bits = n1.bits /\ m2.wk = n1.wk /\ m2.wv = {} /\ m2.wkv = {}
  BY <1>9, <1>15, SecondIs, Zenon
<1>17. n1.uvmarked = m1.uvmarked /\ n1.bits = m1.bits /\ n1.wk = m1.wk /\ m1.marked \subseteq K
  BY <1>4, <1>7 DEF Clears, Marks
<1>18. PICK met2 \in SUBSET Objects : Traverses(g2, m2, met2, m3)
  BY <1>12, <1>16, PropagateIs
<1> DEFINE met == met1 \cup met2
           S == Weaks(g, met)
<1>19. /\ m3 \in Marks /\ m3.marked = K \cup met2 /\ tmu \subseteq met2
       /\ m3.wk = With(met, {"k"}) /\ m3.wv = With(met2, {"v"}) /\ m3.wkv = With(met2, {"k", "v"})
  <2> HIDE DEF m3, K
  <2>1. g2.mode = g.mode
    BY <1>13 DEF Same
  <2>2. /\ m3 \in Marks /\ tmu \subseteq met2 /\ m3.marked = K \cup tmu \cup met2
        /\ m3.wk = m1.wk \cup {t \in met2 \cap Tables : g2.mode[t] = {"k"}}
        /\ m3.wv = {t \in met2 \cap Tables : g2.mode[t] = {"v"}}
        /\ m3.wkv = {t \in met2 \cap Tables : g2.mode[t] = {"k", "v"}}
    BY <1>16, <1>17, <1>18 DEF Traverses
  <2>3. QED BY <1>4, <2>1, <2>2
<1>20. m3.uvmarked = Uvs(met)
  <2> HIDE DEF m3, K
  <2>1. g2.uv = g.uv /\ g2.upval = g.upval
    BY <1>13 DEF Same
  <2>2. m3.uvmarked = Uvs(met1) \cup {v \in Upvals : g2.uv[v].open = Nil /\ \E f \in met2 \cap Closures : g2.upval[f] = v}
    BY <1>4, <1>16, <1>17, <1>18 DEF Traverses
  <2>3. QED BY <2>1, <2>2 DEF Uvs
<1>21. m3.bits = Bits(met)
  <2> HIDE DEF m3, K
  <2>1. g2.mode = g.mode
    BY <1>13 DEF Same
  <2>2. m3.bits = [t \in Tables |-> IF t \in met2 /\ g2.mode[t] # {} THEN g2.mode[t] ELSE m2.bits[t]]
    BY <1>18 DEF Traverses
  <2>3. m2.bits = Bits(met1)
    BY <1>5, <1>16, <1>17
  <2>4. QED BY <2>1, <2>2, <2>3 DEF Bits, Weaks
<1> HIDE DEF m3
<1>22. /\ S \in SUBSET Tables /\ S1 \subseteq S
       /\ m1.wkv \in SUBSET S /\ m3.wk \in SUBSET S /\ m3.wv \in SUBSET S /\ m3.wkv \in SUBSET S
       /\ \A t \in m1.wkv \cup m3.wk \cup m3.wkv : "k" \in g.mode[t]
       /\ \A t \in met \cap Tables : "k" \in g.mode[t] => t \in m1.wkv \cup m3.wk \cup m3.wkv
       /\ \A t \in met \cap Tables : "v" \in g.mode[t] => t \in m1.wkv \cup m1.wv \cup m3.wv \cup m3.wkv
  BY <1>4, <1>19, ModeIs DEF Weaks, S1
<1> HIDE DEF With, S
<1>23. \A t \in m1.wkv \cup m3.wk \cup m3.wkv : "k" \in g2.mode[t]
  BY <1>13, <1>22 DEF Same
<1>24. PICK g6 \in Heap, m6 \in Marks :
           /\ x6 = [g |-> g6, m |-> m6] /\ Clears(g2, m3, g6, m6, S)
           /\ NoKeys(g6, m6, m1.wkv \cup m3.wk \cup m3.wkv) /\ NoValues(g6, m6, m3.wv \cup m3.wkv)
  <2>1. m3 \in Marks /\ g2 \in Heap
    BY <1>12, <1>19
  <2>2. QED BY <1>22, <1>23, <2>1, ClearAll
<1> HIDE DEF x6
<1> DEFINE gf == [g6 EXCEPT !.bits = m3.bits]
<1>25. mark(g) = [g |-> gf, m |-> m6]
  BY <1>1, <1>24
<1>26. m3.bits \in [Tables -> SUBSET {"k", "v"}]
  BY <1>19 DEF Marks
<1>27. gf = [g6 EXCEPT !.bits = m3.bits]
  OBVIOUS
<1> HIDE DEF gf
<1>28. /\ gf \in Heap /\ gf.bits = m3.bits /\ gf.node = g6.node /\ gf.ok = g6.ok /\ gf.mode = g6.mode
       /\ gf.meta = g6.meta /\ gf.unfinalized = g6.unfinalized /\ gf.slot = g6.slot /\ gf.upval = g6.upval
       /\ gf.uv = g6.uv /\ gf.top = g6.top /\ gf.strt = g6.strt /\ gf.rootgc = g6.rootgc
       /\ gf.rootudata = g6.rootudata /\ gf.tmudata = g6.tmudata /\ gf.marked = g6.marked
       /\ allocated(gf) = allocated(g6)
  BY <1>26, <1>27, BitsWritten
<1>29. /\ g6.mode = g2.mode /\ g6.meta = g2.meta /\ g6.unfinalized = g2.unfinalized
       /\ g6.slot = g2.slot /\ g6.upval = g2.upval /\ g6.uv = g2.uv /\ g6.top = g2.top /\ g6.strt = g2.strt
       /\ g6.rootgc = g2.rootgc /\ g6.rootudata = g2.rootudata /\ g6.tmudata = g2.tmudata /\ g6.marked = g2.marked
       /\ allocated(g6) = allocated(g2)
  <2>1. Rest(g6) = Rest(g2)
    BY <1>24 DEF Clears
  <2>2. QED BY <2>1, RestIs
<1>30. Same(g2, gf) /\ Same(g1, gf) /\ Same(g, gf)
  <2>1. Same(g2, gf)
    BY <1>28, <1>29 DEF Same
  <2>2. Same(g1, gf)
    BY <1>12, <2>1 DEF Same
  <2>3. QED BY <1>13, <2>1, <2>2 DEF Same
<1>31. SetAside(g, K, gf)
  <2>1. gf.rootudata = g2.rootudata /\ gf.tmudata = g2.tmudata /\ gf.unfinalized = g2.unfinalized
    BY <1>28, <1>29
  <2>2. ListsOK(gf)
    BY <1>14, <1>30, <2>1 DEF SetAside, ListsOK, Same
  <2> HIDE DEF K
  <2>3. QED BY <1>14, <2>1, <2>2 DEF SetAside
<1>32. Clears(g, m1, g1, n1, S)
  BY <1>7, <1>22, ClearsMore
<1>33. Removed(g, gf, S)
  <2>1. SUFFICES ASSUME NEW t \in Tables
                 PROVE  \/ gf.node[t] = g.node[t]
                        \/ /\ t \in S /\ gf.node[t] = removekey(g.node[t])
                           /\ g.node[t].key \notin Strings \/ g.node[t].val # Nil
    BY DEF Removed
  <2>2. \/ g1.node[t] = g.node[t]
        \/ /\ t \in S /\ g1.node[t] = removekey(g.node[t])
           /\ g.node[t].key \notin Strings \/ g.node[t].val # Nil
    BY <1>32 DEF Clears
  <2>3. \/ gf.node[t] = g1.node[t]
        \/ /\ t \in S /\ gf.node[t] = removekey(g1.node[t])
           /\ g1.node[t].key \notin Strings \/ g1.node[t].val # Nil
    BY <1>12, <1>24, <1>28 DEF Clears
  <2>4. g.node[t] \in Node
    BY Fields
  <2>5. QED BY <2>2, <2>3, <2>4, RemoveIs
<1>34. \A t \in Tables : /\ gf.node[t].val # Nil => gf.node[t] = g.node[t] /\ gf.node[t] = g1.node[t] /\ gf.node[t] = g2.node[t]
                         /\ g2.node[t].val # Nil => g2.node[t] = g.node[t]
  <2>1. TAKE t \in Tables
  <2>2. (g1.node[t].val # Nil => g1.node[t] = g.node[t]) /\ (gf.node[t].val # Nil => gf.node[t] = g2.node[t])
    BY <1>12, <1>24, <1>28, <1>32, ClearsKeeps
  <2>3. QED BY <1>12, <2>2
<1>35. /\ met1 \subseteq met /\ met1 \subseteq K /\ K \subseteq m6.marked /\ met \subseteq m6.marked
       /\ m3.marked \subseteq m6.marked /\ m1.marked \subseteq m6.marked
       /\ m6.uvmarked = m3.uvmarked /\ m1.uvmarked \subseteq m6.uvmarked
  <2>1. m6.uvmarked = m3.uvmarked /\ m3.marked \subseteq m6.marked
    BY <1>19, <1>24 DEF Clears, Marks
  <2>2. Uvs(met1) \subseteq Uvs(met)
    BY DEF Uvs
  <2> HIDE DEF K
  <2>3. QED BY <1>4, <1>17, <1>19, <1>20, <2>1, <2>2
<1>36. g.marked \cup Fixed \subseteq K
  <2> HIDE DEF K
  <2>1. QED BY <1>4, <1>17
<1>37. g.marked \subseteq tmu /\ Elements(gf.tmudata) = tmu /\ Elements(gf.tmudata) \subseteq met
  <2>1. g.marked \subseteq Elements(g.tmudata)
    BY DEF ListsOK
  <2>2. Elements(g.tmudata) \subseteq tmu
    BY <1>14 DEF SetAside, tmu
  <2>3. gf.tmudata = g2.tmudata
    BY <1>28, <1>29
  <2>4. QED BY <1>19, <2>1, <2>2, <2>3 DEF tmu
<1>38. K \subseteq met1 \cup g.marked \cup Strings
  <2>1. \A o \in K \ m1.marked : o \in Strings
    BY <1>32 DEF Clears
  <2>2. Fixed \subseteq Strings
    BY HeapConstants
  <2> HIDE DEF K
  <2>3. QED BY <1>4, <2>1, <2>2
<1>39. R \cap Objects \subseteq met1 \cup g.marked \cup Fixed
  <2>1. m0.tmark \subseteq met1
    BY <1>3 DEF Traverses
  <2> HIDE DEF R
  <2>2. QED BY <1>2, <2>1
<1>40. \A o \in met1 : traverse(g, o) \cap Objects \subseteq met1 \cup g.marked \cup Fixed
  BY <1>3, <1>4 DEF Traverses
<1>41. ASSUME NEW C, ClosedIn(g, C), R \cap Objects \subseteq C, Elements(gf.tmudata) \subseteq C PROVE met \subseteq C
  <2>1. m0.tmark \subseteq C
    BY <1>2, <1>41
  <2>2. Same(g, g) /\ \A t \in Tables : g.node[t].val # Nil => g.node[t] = g.node[t]
    BY DEF Same
  <2>3. met1 \subseteq C
    BY <1>2, <1>3, <1>41, <2>1, <2>2, ReachedIs
  <2>4. m2.tmark \subseteq C
    BY <1>16, <1>37, <1>41
  <2>5. \A t \in Tables : g2.node[t].val # Nil => g2.node[t] = g.node[t]
    BY <1>34
  <2>6. met2 \subseteq C
    BY <1>12, <1>13, <1>16, <1>18, <1>41, <2>4, <2>5, ReachedIs
  <2>7. QED BY <2>3, <2>6
<1>42. gf.bits = [t \in Tables |-> IF t \in S THEN g.mode[t] ELSE g.bits[t]]
  BY <1>21, <1>28 DEF Bits, S
<1>43. m6.uvmarked = {v \in Upvals : g.uv[v].open = Nil /\ \E f \in met \cap Closures : g.upval[f] = v}
  BY <1>20, <1>35 DEF Uvs
<1>44. Passed(gf, met, m6)
  <2>1. Passed(g, met1, m1) /\ Passed(g2, met2, m3)
    BY <1>2, <1>3, <1>12, <1>16, <1>18, PassIs
  <2>2. /\ \A t \in Tables : gf.node[t].val # Nil => gf.node[t] = g.node[t]
        /\ \A t \in Tables : gf.node[t].val # Nil => gf.node[t] = g2.node[t]
    BY <1>34
  <2>3. Passed(gf, met1, m6)
    BY <1>4, <1>28, <1>30, <1>35, <2>1, <2>2, PassedStays
  <2>4. Passed(gf, met2, m6)
    <3>1. m3.uvmarked \subseteq m6.uvmarked
      BY <1>35
    <3>2. QED BY <1>12, <1>19, <1>28, <1>30, <1>35, <2>1, <2>2, <3>1, PassedStays
  <2>5. QED BY <2>3, <2>4 DEF Passed
<1>45. Sources(g, met, m6)
  <2>1. SUFFICES ASSUME NEW o \in m6.marked, o \notin met \cup Fixed
                 PROVE  o \in Strings /\ \E t \in S : InNode(g, t, o)
    BY DEF Sources, S
  <2>2. CASE o \in m3.marked
    <3>1. o \in K /\ o \notin m1.marked
      <4> HIDE DEF K
      <4>1. QED BY <1>4, <1>19, <1>37, <2>1, <2>2
    <3>2. QED BY <1>32, <3>1 DEF Clears
  <2>3. CASE o \notin m3.marked
    <3>1. PICK t \in S : o \in Strings /\ InNode(g2, t, o)
      BY <1>24, <2>3 DEF Clears
    <3>2. o \in Objects /\ Nil \notin Objects /\ t \in Tables /\ g.node[t] \in Node
      BY <1>22, <3>1, Fields, Kinds DEF Objects, Things
    <3>3. g1.node[t] = g.node[t] \/ g1.node[t] = removekey(g.node[t])
      BY <1>32, <3>2 DEF Clears
    <3>4. g2.node[t] = g.node[t]
      <4>1. o = g2.node[t].key \/ o = g2.node[t].val
        BY <3>1 DEF InNode
      <4>2. QED BY <1>12, <3>2, <3>3, <4>1, RemoveIs
    <3>5. g2.mode = g.mode
      BY <1>13 DEF Same
    <3>6. QED BY <3>1, <3>4, <3>5 DEF InNode
  <2>4. QED BY <2>2, <2>3
<1>46. NoKeys(gf, m6, {t \in met \cap Tables : "k" \in g.mode[t]})
  BY <1>22, <1>24, <1>28 DEF NoKeys
<1>47. \A t \in met1 \cap Tables : "v" \in g.mode[t] => gf.node[t].val \in K \cup {Nil}
  <2>1. ASSUME NEW t \in met1 \cap Tables, "v" \in g.mode[t] PROVE gf.node[t].val \in K \cup {Nil}
    <3>1. t \in m1.wkv \cup m1.wv
      BY <1>6, <2>1
    <3>2. g1.node[t].val # Nil => g1.node[t].val \in K
      BY <1>7, <3>1 DEF NoValues
    <3> HIDE DEF K
    <3>3. QED BY <1>34, <3>2
  <2>2. QED BY <2>1
<1>48. NoValues(gf, m6, {t \in met \cap Tables : "v" \in g.mode[t]})
  <2>1. ASSUME NEW t \in met \cap Tables, "v" \in g.mode[t], gf.node[t].val # Nil PROVE gf.node[t].val \in m6.marked
    <3>1. CASE t \in met1
      BY <1>35, <1>47, <2>1, <3>1
    <3>2. CASE t \in m3.wv \cup m3.wkv
      BY <1>24, <1>28, <2>1, <3>2 DEF NoValues
    <3>3. t \in met1 \/ t \in m3.wv \cup m3.wkv
      BY <1>4, <1>22, <2>1 DEF With
    <3>4. QED BY <3>1, <3>2, <3>3
  <2>2. QED BY <2>1 DEF NoValues
<1>49. ASSUME Looks(g, S), g.ok PROVE gf.ok
  <2>1. Looks(g1, S) /\ g1.ok
    BY <1>32, <1>49 DEF Clears
  <2>2. Looks(g2, S) /\ g2.ok
    BY <1>12, <2>1 DEF Looks, Same
  <2>3. QED BY <1>24, <1>28, <2>2 DEF Clears
<1> HIDE DEF met, K, R
<1>50. Marked(g, R, met1, K, met, gf, m6)
  BY <1>30, <1>31, <1>33, <1>35, <1>37, <1>38, <1>39, <1>40, <1>41, <1>42, <1>43, <1>44, <1>45, <1>46, <1>47,
     <1>48, <1>49, <1>36, Zenon DEF Marked, S
<1>51. K \in SUBSET Objects /\ met \in SUBSET Objects /\ gf \in Heap
  BY <1>28 DEF K, met, Marks
<1>52. QED BY <1>25, <1>50, <1>51 DEF R

-----------------------------------------------------------------------------
(* What is swept.                                                              *)

LEMMA EmptyIs ==
    ASSUME NEW X, NEW s \in Seq(X), Elements(s) = {}
    PROVE  s = << >>
<1>1. Len(s) \in Nat /\ DOMAIN s = 1..Len(s)
  BY LenProperties
<1>2. Len(s) = 0
  <2>1. SUFFICES ASSUME Len(s) # 0 PROVE FALSE
    OBVIOUS
  <2>2. 1 \in DOMAIN s
    BY <1>1, <2>1
  <2>3. QED BY <2>2 DEF Elements
<1>3. QED BY <1>2, EmptySeq

\* What is among the first n is a list.
LEMMA FiltersSeq ==
    ASSUME NEW X, NEW s \in Seq(X), NEW S, NEW w, Filters(w, s, S, Len(s))
    PROVE  \A n \in 0..Len(s) : w[n] \in Seq(X)
<1>1. Len(s) \in Nat /\ DOMAIN s = 1..Len(s) /\ \A n \in 1..Len(s) : s[n] \in X
  BY LenProperties, ElementOfSeq
<1>2. /\ w[0] = << >>
      /\ \A n \in 1..Len(s) : w[n] = IF s[n] \in S THEN Append(w[n - 1], s[n]) ELSE w[n - 1]
  BY <1>1, FilterPoints
<1> DEFINE T == {n \in Nat : n <= Len(s) /\ w[n] \notin Seq(X)}
<1>3. ASSUME NEW n \in T PROVE \E m \in T : ~(n <= m)
  <2>1. n \in Nat /\ n <= Len(s) /\ w[n] \notin Seq(X)
    OBVIOUS
  <2>2. n # 0
    <3>1. w[0] \in Seq(X)
      BY <1>2, EmptySeq
    <3>2. QED BY <2>1, <3>1
  <2>3. n \in 1..Len(s) /\ n - 1 \in Nat /\ n - 1 <= Len(s) /\ ~(n <= n - 1)
    BY <1>1, <2>1, <2>2
  <2>4. w[n - 1] \notin Seq(X)
    <3>1. SUFFICES ASSUME w[n - 1] \in Seq(X) PROVE w[n] \in Seq(X)
      BY <2>1
    <3>2. Append(w[n - 1], s[n]) \in Seq(X)
      BY <1>1, <2>3, <3>1, ElementsAppend
    <3>3. QED BY <1>2, <2>3, <3>1, <3>2
  <2>5. QED BY <2>3, <2>4
<1>4. T = {}
  <2>1. T \in SUBSET Nat
    OBVIOUS
  <2> HIDE DEF T
  <2>2. QED BY <1>3, <2>1, Least
<1>5. QED BY <1>1, <1>4

Sweeps(f, g, keep) ==
    f = [n \in 0..Len(g.rootgc) |->
            IF n = 0 THEN << >>
            ELSE LET done == f[n - 1]
                 IN IF g.rootgc[n] \in keep THEN Append(done, g.rootgc[n])
                    ELSE (IF done = << >> THEN Among(SetToSeq(OpenIn(g, g.rootgc[n])), keep)
                          ELSE SetToSeq(OpenIn(g, g.rootgc[n]))) \o done]

\* No thread that is freed has open upvalues: sweeping leaves what is kept.
LEMMA SweepsIs ==
    ASSUME NEW g \in Heap, NEW keep
    PROVE  LET swept == CHOOSE f : Sweeps(f, g, keep)
           IN swept[Len(g.rootgc)] = Among(g.rootgc, keep)
<1> DEFINE X == Things \ (Udatas \cup Strings)
           s == g.rootgc
           N == Len(s)
           w == CHOOSE f : Filters(f, s, keep, N)
<1>1. s \in Seq(X) /\ N \in Nat /\ \A n \in 1..N : s[n] \in X
  BY Fields, LenProperties, ElementOfSeq
<1>2. Among(s, keep) = w[N]
  BY DEF Among, Filters
<1> HIDE DEF s, N, X
<1>3. Filters(w, s, keep, N)
  BY <1>1, CanFilter
<1> HIDE DEF w
<1>4. \A n \in 0..N : w[n] \in Seq(X)
  BY <1>1, <1>3, FiltersSeq DEF N
<1>5. /\ w = [n \in 0..N |-> w[n]] /\ w[0] = << >>
      /\ \A n \in 1..N : w[n] = IF s[n] \in keep THEN Append(w[n - 1], s[n]) ELSE w[n - 1]
  BY <1>1, <1>3, FilterPoints
<1> DEFINE up(n) == SetToSeq(OpenIn(g, s[n]))
           in(n) == Among(up(n), keep)
<1>6. \A n \in 1..N : up(n) = << >> /\ in(n) = << >>
  <2>1. TAKE n \in 1..N
  <2>2. OpenIn(g, s[n]) = {}
    <3>1. s[n] \in Things /\ Main \notin Things /\ Nil \notin Things
      BY <1>1, Kinds DEF X
    <3>2. \A v \in Upvals : g.uv[v].open \in {Main, Nil}
      BY Fields
    <3>3. QED BY <3>1, <3>2 DEF OpenIn
  <2>3. up(n) \in Seq(X) /\ Elements(up(n)) = {}
    <3>1. {} \in SUBSET X /\ IsFiniteSet({})
      BY FS_EmptySet
    <3>2. QED BY <2>2, <3>1, SetToSeqIs
  <2>4. up(n) = << >>
    BY <2>3, EmptyIs
  <2>5. in(n) \in Seq(X) /\ Elements(in(n)) = {}
    BY <2>3, AmongIs
  <2>6. QED BY <2>4, <2>5, EmptyIs
<1> DEFINE val(f, n) == IF n = 0 THEN << >>
                        ELSE LET done == f[n - 1]
                             IN IF s[n] \in keep THEN Append(done, s[n])
                                ELSE (IF done = << >> THEN in(n) ELSE up(n)) \o done
<1>7. ASSUME NEW f, NEW n \in 1..N, f[n - 1] = w[n - 1]
      PROVE  val(f, n) = w[n]
  <2>1. n # 0 /\ n - 1 \in 0..N
    BY <1>1
  <2>2. w[n - 1] \in Seq(X) /\ up(n) = << >> /\ in(n) = << >>
    BY <1>4, <1>6, <2>1
  <2> DEFINE d == w[n - 1]
  <2>3. << >> \o d = d
    <3>1. d \in Seq(X)
      BY <2>2
    <3> HIDE DEF d
    <3>2. QED BY <3>1
  <2>4. val(f, n) = IF s[n] \in keep THEN Append(d, s[n]) ELSE (IF d = << >> THEN in(n) ELSE up(n)) \o d
    <3> HIDE DEF in, up
    <3>1. QED BY <1>7, <2>1
  <2> HIDE DEF d, in, up, val
  <2>5. val(f, n) = IF s[n] \in keep THEN Append(d, s[n]) ELSE d
    BY <2>2, <2>3, <2>4
  <2>6. QED BY <1>5, <2>5 DEF d
<1>8. val(w, 0) = << >> /\ \A f : val(f, 0) = << >>
  OBVIOUS
<1>9. \A f : Sweeps(f, g, keep) <=> f = [n \in 0..N |-> val(f, n)]
  BY Zenon DEF Sweeps, N, s
<1> HIDE DEF val, up, in
<1>10. Sweeps(w, g, keep)
  <2>1. \A n \in 0..N : w[n] = val(w, n)
    <3>1. TAKE n \in 0..N
    <3>2. n = 0 \/ n \in 1..N
      BY <1>1
    <3>3. QED BY <1>5, <1>7, <1>8, <3>2
  <2>2. w = [n \in 0..N |-> val(w, n)]
    BY <1>5, <2>1, Zenon
  <2>3. QED BY <1>9, <2>2
<1> DEFINE f == CHOOSE f : Sweeps(f, g, keep)
<1>11. Sweeps(f, g, keep)
  BY <1>10
<1> HIDE DEF f
<1>12. \A n \in 0..N : f[n] = val(f, n)
  <2>1. f = [n \in 0..N |-> val(f, n)]
    BY <1>9, <1>11
  <2>2. QED BY <2>1, Zenon
<1> DEFINE T == {n \in Nat : n <= N /\ f[n] # w[n]}
<1>13. ASSUME NEW n \in T PROVE \E m \in T : ~(n <= m)
  <2>1. n # 0
    <3>1. 0 \in 0..N
      BY <1>1
    <3>2. f[0] = w[0]
      BY <1>5, <1>8, <1>12, <3>1
    <3>3. QED BY <3>2
  <2>2. n \in 1..N /\ n \in 0..N /\ n - 1 \in Nat /\ n - 1 <= N /\ ~(n <= n - 1) /\ f[n] # w[n]
    BY <1>1, <2>1
  <2>3. f[n - 1] # w[n - 1]
    BY <1>7, <1>12, <2>2
  <2>4. QED BY <2>2, <2>3
<1>14. T = {}
  <2>1. T \in SUBSET Nat
    OBVIOUS
  <2> HIDE DEF T
  <2>2. QED BY <1>13, <2>1, Least
<1>15. f[N] = w[N]
  BY <1>1, <1>14
<1>16. QED BY <1>2, <1>15 DEF f, N, s

Keep(g, m) == m.marked \cup m.uvmarked \cup {t \in Tables : g.bits[t] # {}} \cup g.unfinalized

\* The heap after a sweep.
Swept(g, keep, g2) ==
    /\ g2.node = g.node /\ g2.mode = g.mode /\ g2.bits = g.bits /\ g2.meta = g.meta
    /\ g2.unfinalized = g.unfinalized /\ g2.slot = g.slot /\ g2.upval = g.upval /\ g2.uv = g.uv
    /\ g2.top = g.top /\ g2.tmudata = g.tmudata /\ g2.ok = g.ok
    /\ Elements(g2.rootgc) = Elements(g.rootgc) \cap keep
    /\ Elements(g2.rootudata) = Elements(g.rootudata) \cap keep
    /\ g2.strt = g.strt \cap keep /\ g2.marked = Elements(g.tmudata)
    /\ Distinct(g.rootudata) => Distinct(g2.rootudata)

LEMMA SweepIs ==
    ASSUME NEW g \in Heap, NEW m
    PROVE  luaC_sweep([g |-> g, m |-> m]) \in Heap /\ Swept(g, Keep(g, m), luaC_sweep([g |-> g, m |-> m]))
<1> DEFINE keep == Keep(g, m)
           rest == Among(g.rootgc, keep)
           freed == (Elements(g.rootgc) \cap Coroutines) \ keep
           uv == [v \in Upvals |-> IF g.uv[v].open \in freed THEN [open |-> Nil, value |-> g.slot[g.uv[v].open]]
                                   ELSE g.uv[v]]
           s == sweeplist(g, keep)
           g2 == luaC_sweep([g |-> g, m |-> m])
<1>1. s = [g EXCEPT !.rootgc = rest, !.uv = uv]
  <2> HIDE DEF keep
  <2> DEFINE swept == CHOOSE f : Sweeps(f, g, keep)
  <2>1. swept[Len(g.rootgc)] = rest
    BY SweepsIs
  <2>2. s = [g EXCEPT !.rootgc = swept[Len(g.rootgc)], !.uv = uv]
    BY Zenon DEF sweeplist, Sweeps
  <2> HIDE DEF swept, rest, uv, s
  <2>3. QED BY <2>1, <2>2
<1>2. uv = g.uv
  <2>1. \A v \in Upvals : g.uv[v].open \notin freed
    <3>1. \A v \in Upvals : g.uv[v].open \in {Main, Nil}
      BY Fields
    <3>2. Main \notin Coroutines /\ Nil \notin Coroutines
      BY Kinds DEF Things, Objects
    <3>3. QED BY <3>1, <3>2
  <2> HIDE DEF freed
  <2>2. uv = [v \in Upvals |-> g.uv[v]]
    BY <2>1
  <2>3. g.uv = [v \in Upvals |-> g.uv[v]]
    BY Fields
  <2>4. QED BY <2>2, <2>3
<1>3. /\ rest \in Seq(Things \ (Udatas \cup Strings)) /\ Elements(rest) = Elements(g.rootgc) \cap keep
  BY Fields, AmongIs
<1> DEFINE stay == Among(g.rootudata, keep)
<1>4. stay \in Seq(Udatas) /\ Elements(stay) = Elements(g.rootudata) \cap keep /\ (Distinct(g.rootudata) => Distinct(stay))
  BY Fields, AmongIs
<1>5. Elements(g.tmudata) \subseteq Udatas
  BY Fields, ElementsIn
<1>6. g2 = [s EXCEPT !.rootudata = Among(s.rootudata, keep), !.strt = s.strt \cap keep, !.marked = Elements(g.tmudata)]
  BY Zenon DEF luaC_sweep, Keep
<1> HIDE DEF s, uv, rest, keep, g2
<1>7. /\ s \in Heap /\ s.node = g.node /\ s.mode = g.mode /\ s.bits = g.bits /\ s.meta = g.meta
      /\ s.unfinalized = g.unfinalized /\ s.slot = g.slot /\ s.upval = g.upval /\ s.uv = g.uv
      /\ s.top = g.top /\ s.tmudata = g.tmudata /\ s.ok = g.ok /\ s.rootgc = rest
      /\ s.rootudata = g.rootudata /\ s.strt = g.strt
  BY <1>1, <1>2, <1>3 DEF Heap
<1>8. g2 = [s EXCEPT !.rootudata = stay, !.strt = s.strt \cap keep, !.marked = Elements(g.tmudata)]
  BY <1>6, <1>7
<1> HIDE DEF stay
<1> DEFINE strt == s.strt \cap keep
           tmu == Elements(g.tmudata)
<1>9. strt \subseteq Strings /\ tmu \subseteq Udatas
  BY <1>5, <1>7, Fields
<1>10. g2 = [s EXCEPT !.rootudata = stay, !.strt = strt, !.marked = tmu]
  BY <1>8
<1>11. strt = g.strt \cap keep
  BY <1>7
<1> HIDE DEF strt, tmu
<1>12. /\ g2 \in Heap /\ g2.node = s.node /\ g2.mode = s.mode /\ g2.bits = s.bits /\ g2.meta = s.meta
       /\ g2.unfinalized = s.unfinalized /\ g2.slot = s.slot /\ g2.upval = s.upval /\ g2.uv = s.uv
       /\ g2.top = s.top /\ g2.tmudata = s.tmudata /\ g2.ok = s.ok /\ g2.rootgc = s.rootgc
       /\ g2.rootudata = stay /\ g2.strt = strt /\ g2.marked = tmu
  BY <1>4, <1>7, <1>9, <1>10 DEF Heap
<1>13. Swept(g, keep, g2)
  BY <1>3, <1>4, <1>7, <1>11, <1>12 DEF Swept, tmu
<1>14. QED BY <1>12, <1>13 DEF keep, g2

-----------------------------------------------------------------------------
(* A collection frees nothing that is still needed.                            *)

\* A string that a clearing sees in a table of a safe set is allocated.
LEMMA SafeLooks ==
    ASSUME NEW g \in Heap, NEW R, NEW A, Safe(g, R, A), NEW T \in SUBSET Tables, T \subseteq A
    PROVE  Looks(g, T) /\ \A t \in T : \A o \in Strings : InNode(g, t, o) => o \in allocated(g)
<1>1. ASSUME NEW t \in T
      PROVE  /\ g.node[t].val \in Objects => g.node[t].val \in allocated(g)
             /\ "k" \in g.mode[t] /\ g.node[t].key \in Objects => g.node[t].key \in allocated(g)
  <2>1. "k" \in g.mode[t] /\ g.node[t].key \in Objects => g.node[t].key \in allocated(g)
    BY DEF Safe, KeysKept
  <2>2. ASSUME g.node[t].val \in Objects PROVE g.node[t].val \in allocated(g)
    <3>1. t \in Things /\ Nil \notin Objects /\ Objects \cap Upvals = {}
      BY Kinds DEF Things, Objects
    <3>2. g.node[t].val \in Holds(g, t)
      BY <2>2, <3>1, HoldsIs
    <3>3. g.node[t].val \in A
      BY <3>2 DEF Safe, ClosedIn
    <3>4. AliveIn(g, g.node[t].val)
      BY <3>3 DEF Safe
    <3>5. QED BY <2>2, <3>1, <3>4 DEF AliveIn
  <2>3. QED BY <2>1, <2>2
<1>2. Looks(g, T)
  BY <1>1 DEF Looks
<1>3. ASSUME NEW t \in T, NEW o \in Strings, InNode(g, t, o) PROVE o \in allocated(g)
  <2>1. o \in Objects
    BY DEF Objects
  <2>2. QED BY <1>1, <1>3, <2>1 DEF InNode
<1>4. QED BY <1>2, <1>3

\* What is marked is allocated, if a safe set of what is allocated has it.
LEMMA MarkedAlive ==
    ASSUME NEW g \in Heap, ListsOK(g), NEW R \in SUBSET (Objects \cup {Nil}), NEW A, Safe(g, R, A), g.ok,
           NEW met1 \in SUBSET Objects, NEW K \in SUBSET Objects, NEW met \in SUBSET Objects,
           NEW gf \in Heap, NEW m \in Marks, Marked(g, R, met1, K, met, gf, m)
    PROVE  /\ met \subseteq A /\ m.marked \subseteq allocated(g) /\ m.uvmarked \subseteq allocated(g) /\ gf.ok
           /\ \A o \in m.marked : o \in met \cup Strings
<1>1. Nil \notin Objects /\ Nil \notin Upvals /\ Objects \cap Upvals = {}
  BY Kinds DEF Things, Objects
<1>2. met \subseteq A
  <2>1. ClosedIn(g, A) /\ Start(g, R) \subseteq A
    BY DEF Safe
  <2>2. R \cap Objects \subseteq A
    BY <1>1, <2>1 DEF Start
  <2>3. Elements(gf.tmudata) \subseteq A
    <3>1. Elements(gf.tmudata) \subseteq Elements(g.tmudata) \cup (Elements(g.rootudata) \cap g.unfinalized)
      BY DEF Marked, SetAside
    <3>2. Nil \notin Elements(gf.tmudata)
      BY <1>1, Fields, ElementsIn DEF Objects
    <3>3. QED BY <2>1, <3>1, <3>2 DEF Start
  <2>4. QED BY <2>1, <2>2, <2>3 DEF Marked
<1>3. \A x \in A : AliveIn(g, x)
  BY DEF Safe
<1>4. met \subseteq allocated(g)
  BY <1>1, <1>2, <1>3 DEF AliveIn
<1>5. Weaks(g, met) \in SUBSET Tables /\ Weaks(g, met) \subseteq A
  BY <1>2 DEF Weaks
<1>6. /\ Looks(g, Weaks(g, met))
      /\ \A t \in Weaks(g, met) : \A o \in Strings : InNode(g, t, o) => o \in allocated(g)
  BY <1>5, SafeLooks
<1>7. Fixed \subseteq allocated(g) /\ Fixed \subseteq Strings
  BY HeapConstants DEF ListsOK, allocated
<1>8. Sources(g, met, m)
  BY DEF Marked
<1>9. m.marked \subseteq allocated(g)
  BY <1>4, <1>6, <1>7, <1>8 DEF Sources
<1>10. \A o \in m.marked : o \in met \cup Strings
  BY <1>7, <1>8 DEF Sources
<1>11. ASSUME NEW v \in m.uvmarked PROVE v \in allocated(g)
  <2>1. PICK f \in met \cap Closures : v \in Upvals /\ g.upval[f] = v /\ g.uv[v].open = Nil
    BY DEF Marked
  <2>2. v \in Holds(g, f)
    <3>1. f \in Things
      BY DEF Things, Objects
    <3>2. QED BY <1>1, <2>1, <3>1, HoldsIs
  <2>3. v \in A
    BY <1>2, <2>2 DEF Safe, ClosedIn
  <2>4. QED BY <1>3, <2>1, <2>3 DEF AliveIn
<1>12. gf.ok
  BY <1>6 DEF Marked
<1>13. QED BY <1>2, <1>9, <1>10, <1>11, <1>12

\* What is allocated and kept stays allocated, and nothing else does.
LEMMA Survives ==
    ASSUME NEW g \in Heap, NEW gf \in Heap, NEW g2 \in Heap, NEW keep, allocated(gf) = allocated(g), Swept(gf, keep, g2)
    PROVE  /\ \A x \in allocated(g) : x \in keep => x \in allocated(g2)
           /\ \A x \in allocated(g2) : x \in allocated(g) /\ (x \in keep \/ x \in Elements(gf.tmudata))
  BY DEF allocated, Swept

\* What things hold is marked, when the things are.
LEMMA MarkedCloses ==
    ASSUME NEW g \in Heap, NEW R \in SUBSET (Objects \cup {Nil}), R = {g.top, g.slot[Main]} \cup Running,
           NEW met1 \in SUBSET Objects, NEW K \in SUBSET Objects, NEW met \in SUBSET Objects,
           NEW gf \in Heap, NEW m \in Marks, Marked(g, R, met1, K, met, gf, m),
           NEW g2 \in Heap, NEW keep, Swept(gf, keep, g2), NEW x \in met
    PROVE  Holds(g2, x) \subseteq m.marked \cup m.uvmarked \cup {v \in Upvals : g2.uv[v].open # Nil}
<1> DEFINE A2 == m.marked \cup m.uvmarked \cup {v \in Upvals : g2.uv[v].open # Nil}
<1>1. x \in Things /\ Nil \notin Objects /\ Nil \notin Upvals
  BY Kinds DEF Things
<1>2. /\ g2.node = gf.node /\ g2.meta = gf.meta /\ g2.slot = gf.slot /\ g2.upval = gf.upval /\ g2.uv = gf.uv
      /\ g2.mode = gf.mode
  BY DEF Swept
<1>3. Passed(gf, met, m)
  BY DEF Marked
<1>4. CASE x \in Tables
  <2>1. SUFFICES ASSUME gf.node[x].val # Nil PROVE gf.node[x].key \in m.marked /\ gf.node[x].val \in m.marked
    BY <1>1, <1>2, <1>4, HoldsIs
  <2>2. gf.mode = g.mode
    BY DEF Marked, Same
  <2>3. gf.node[x].key \in Objects
    BY <1>4, <2>1, Fields DEF Node
  <2>4. /\ "k" \notin g.mode[x] => gf.node[x].key \in m.marked
        /\ "v" \notin g.mode[x] => gf.node[x].val \in m.marked
    BY <1>3, <1>4, <2>1, <2>2 DEF Passed
  <2>5. "k" \in g.mode[x] => gf.node[x].key \in m.marked
    BY <1>4, <2>3 DEF Marked, NoKeys
  <2>6. "v" \in g.mode[x] => gf.node[x].val \in m.marked
    BY <1>4, <2>1 DEF Marked, NoValues
  <2>7. QED BY <2>4, <2>5, <2>6
<1>5. CASE x \in Udatas
  BY <1>1, <1>2, <1>3, <1>5, HoldsIs DEF Passed
<1>6. CASE x \in Coroutines
  BY <1>1, <1>2, <1>3, <1>6, HoldsIs DEF Passed
<1>7. CASE x \in Closures
  <2>1. SUFFICES ASSUME gf.upval[x] # Nil
                 PROVE  gf.upval[x] \in A2 /\ ValueOf(gf, gf.upval[x]) \in A2 \cup {Nil}
    <3>1. Holds(g2, x) = (IF gf.upval[x] = Nil THEN {} ELSE {gf.upval[x], ValueOf(g2, gf.upval[x])}) \ {Nil}
      BY <1>1, <1>2, <1>7, HoldsIs
    <3>2. ValueOf(g2, gf.upval[x]) = ValueOf(gf, gf.upval[x])
      BY <1>2 DEF ValueOf
    <3>3. QED BY <2>1, <3>1, <3>2
  <2>2. PICK v \in Upvals : gf.upval[x] = v
    BY <1>7, <2>1, Fields
  <2>3. CASE gf.uv[v].open = Nil
    BY <1>3, <1>7, <2>2, <2>3 DEF Passed, ValueOf
  <2>4. CASE gf.uv[v].open # Nil
    <3>1. gf.uv[v].open = Main
      BY <2>4, Fields
    <3>2. gf.slot[Main] \in R
      BY DEF Marked, Same
    <3>3. R \cap Objects \subseteq m.marked
      BY DEF Marked
    <3>4. gf.slot[Main] \in Objects \cup {Nil}
      BY Fields DEF Threads
    <3>5. v \in A2
      BY <1>2, <2>4
    <3>6. ValueOf(gf, v) = gf.slot[Main]
      BY <2>4, <3>1 DEF ValueOf
    <3>7. QED BY <2>2, <3>2, <3>3, <3>4, <3>5, <3>6
  <2>5. QED BY <2>3, <2>4
<1>8. CASE x \in Strings
  BY <1>1, <1>8, HoldsIs
<1>9. QED BY <1>4, <1>5, <1>6, <1>7, <1>8 DEF Objects

\* The heap g2 after a collection of g, with what was marked and met.
Collected(g, R, met1, K, met, gf, m, g2) ==
    /\ gf \in Heap /\ m \in Marks /\ met1 \in SUBSET Objects /\ K \in SUBSET Objects /\ met \in SUBSET Objects
    /\ Marked(g, R, met1, K, met, gf, m) /\ g2 \in Heap /\ Swept(gf, Keep(gf, m), g2)

LEMMA CollectionIs ==
    ASSUME NEW g \in Heap, ListsOK(g), Roots(g) \in SUBSET (Objects \cup {Nil})
    PROVE  \E met1, K, met, gf, m : Collected(g, Roots(g), met1, K, met, gf, m, luaC_sweep(mark(g)))
<1>1. PICK gf \in Heap, m \in Marks, met1 \in SUBSET Objects, K \in SUBSET Objects, met \in SUBSET Objects :
          mark(g) = [g |-> gf, m |-> m] /\ Marked(g, Roots(g), met1, K, met, gf, m)
  BY MarkIs
<1> DEFINE g2 == luaC_sweep(mark(g))
<1>2. g2 \in Heap /\ Swept(gf, Keep(gf, m), g2)
  BY <1>1, SweepIs
<1> HIDE DEF g2
<1>3. Collected(g, Roots(g), met1, K, met, gf, m, g2)
  BY <1>1, <1>2 DEF Collected
<1>4. QED BY <1>3 DEF g2

\* Userdata that are left and not finalized were marked.
LEMMA LeftMarked ==
    ASSUME NEW g, NEW R, NEW met1, NEW K, NEW met, NEW gf, NEW m, NEW g2, Collected(g, R, met1, K, met, gf, m, g2)
    PROVE  \A u \in Elements(g2.rootudata) \cap g2.unfinalized : u \in K /\ u \in met1 \cup g.marked \cup Strings
<1>1. /\ g2.unfinalized = gf.unfinalized /\ Elements(g2.rootudata) \subseteq Elements(gf.rootudata)
      /\ K \subseteq met1 \cup g.marked \cup Strings /\ SetAside(g, K, gf)
  BY DEF Collected, Swept, Marked
<1> DEFINE dead == (Elements(g.rootudata) \cap g.unfinalized) \ K
           take == {u \in dead : g.meta[u] # Nil}
<1>2. /\ Elements(gf.rootudata) = Elements(g.rootudata) \ take
      /\ gf.unfinalized = g.unfinalized \ (dead \ take)
  BY <1>1 DEF SetAside
<1>3. \A u \in Elements(g2.rootudata) \cap g2.unfinalized : u \in K
  <2>1. TAKE u \in Elements(g2.rootudata) \cap g2.unfinalized
  <2>2. u \in Elements(g.rootudata) /\ u \in g.unfinalized /\ u \notin take /\ u \notin dead \ take
    BY <1>1, <1>2
  <2>3. QED BY <2>2
<1>4. QED BY <1>1, <1>3

\* The lists of userdata are in order after a collection.
LEMMA CollectLists ==
    ASSUME NEW g \in Heap, ListsOK(g), NEW R, NEW met1, NEW K, NEW met, NEW gf, NEW m, NEW g2,
           Collected(g, R, met1, K, met, gf, m, g2)
    PROVE  ListsOK(g2)
<1>1. ListsOK(gf) /\ Swept(gf, Keep(gf, m), g2) /\ Fixed \subseteq m.marked
  BY DEF Collected, Marked, SetAside
<1>2. Fixed \subseteq g2.strt
  <2>1. gf.strt = g.strt
    BY DEF Collected, Marked, Same
  <2>2. Fixed \subseteq Keep(gf, m)
    BY <1>1 DEF Keep
  <2>3. QED BY <1>1, <2>1, <2>2 DEF ListsOK, Swept
<1>3. /\ Distinct(g2.rootudata) /\ Distinct(g2.tmudata)
      /\ Elements(g2.rootudata) \cap Elements(g2.tmudata) = {}
      /\ g2.marked \subseteq Elements(g2.tmudata)
  BY <1>1 DEF ListsOK, Swept
<1>4. QED BY <1>2, <1>3 DEF ListsOK

\* A collection does not look at what was freed, and all that is needed stays.
LEMMA CollectSafe ==
    ASSUME NEW g \in Heap, ListsOK(g), NEW R \in SUBSET (Objects \cup {Nil}), R = {g.top, g.slot[Main]} \cup Running,
           NEW A, Safe(g, R, A), g.ok,
           NEW met1, NEW K, NEW met, NEW gf, NEW m, NEW g2, Collected(g, R, met1, K, met, gf, m, g2)
    PROVE  g2.ok /\ \E A2 : Safe(g2, R, A2)
<1> DEFINE A2 == m.marked \cup m.uvmarked \cup {v \in Upvals : g2.uv[v].open # Nil}
           keep == Keep(gf, m)
<1>1. /\ gf \in Heap /\ m \in Marks /\ met1 \in SUBSET Objects /\ K \in SUBSET Objects /\ met \in SUBSET Objects
      /\ Marked(g, R, met1, K, met, gf, m) /\ g2 \in Heap /\ Swept(gf, keep, g2)
  BY DEF Collected
<1>2. /\ met \subseteq A /\ m.marked \subseteq allocated(g) /\ m.uvmarked \subseteq allocated(g) /\ gf.ok
      /\ \A o \in m.marked : o \in met \cup Strings
  BY <1>1, MarkedAlive
<1>3. g2.ok
  BY <1>1, <1>2 DEF Swept
<1>4. allocated(gf) = allocated(g) /\ m.marked \subseteq keep /\ m.uvmarked \subseteq keep
  BY <1>1 DEF Marked, Same, Keep
<1>5. m.marked \subseteq allocated(g2) /\ m.uvmarked \subseteq allocated(g2)
  BY <1>1, <1>2, <1>4, Survives
<1> HIDE DEF keep
<1>6. \A x \in A2 : AliveIn(g2, x)
  BY <1>5 DEF AliveIn
<1>7. m.marked \subseteq Objects /\ m.uvmarked \subseteq Upvals /\ A2 \subseteq Things
  BY <1>1 DEF Marks, Things
<1>8. ASSUME NEW x \in A2 PROVE Holds(g2, x) \subseteq A2
  <2>1. CASE x \in met
    BY <1>1, <2>1, MarkedCloses
  <2>2. CASE x \in Strings \cup Upvals
    BY <1>7, <2>2, HoldsIs
  <2>3. QED BY <1>2, <1>7, <2>1, <2>2
<1>9. Start(g2, R) \subseteq A2
  <2>1. R \cap Objects \subseteq m.marked
    BY <1>1 DEF Marked
  <2>2. Elements(g2.tmudata) \subseteq m.marked
    BY <1>1 DEF Marked, Swept
  <2>3. Elements(g2.rootudata) \cap g2.unfinalized \subseteq m.marked
    <3>1. K \subseteq m.marked
      BY <1>1 DEF Marked
    <3>2. QED BY <3>1, LeftMarked
  <2>4. QED BY <2>1, <2>2, <2>3 DEF Start
<1>10. KeysKept(g2, A2)
  <2>1. SUFFICES ASSUME NEW t \in A2 \cap Tables, "k" \in g2.mode[t], g2.node[t].key \in Objects
                 PROVE  g2.node[t].key \in allocated(g2)
    BY DEF KeysKept
  <2>2. t \in met
    BY <1>2, <1>7, <2>1, Kinds
  <2>3. g2.mode[t] = g.mode[t] /\ g2.node[t] = gf.node[t]
    BY <1>1 DEF Marked, Same, Swept
  <2>4. gf.node[t].key \in m.marked
    BY <1>1, <2>1, <2>2, <2>3 DEF Marked, NoKeys
  <2>5. QED BY <1>5, <2>3, <2>4
<1>11. Safe(g2, R, A2)
  <2> HIDE DEF A2
  <2>1. QED BY <1>6, <1>7, <1>8, <1>9, <1>10 DEF Safe, ClosedIn
<1>12. QED BY <1>3, <1>11

\* Whose tag method was called, and whose is to be called.
LEMMA CollectCalls ==
    ASSUME NEW g \in Heap, ListsOK(g), NEW R, NEW met1, NEW K, NEW met, NEW gf, NEW m, NEW g2,
           Collected(g, R, met1, K, met, gf, m, g2),
           NEW called, NEW closing, NEW made, CallsOK(g, called, closing, made)
    PROVE  CallsOK(g2, called, closing, made)
<1> DEFINE dead == (Elements(g.rootudata) \cap g.unfinalized) \ K
           take == {u \in dead : g.meta[u] # Nil}
<1>1. /\ Elements(gf.rootudata) = Elements(g.rootudata) \ take
      /\ Elements(gf.tmudata) = Elements(g.tmudata) \cup take
      /\ gf.unfinalized = g.unfinalized \ (dead \ take)
  BY DEF Collected, Marked, SetAside
<1>2. /\ g2.meta = g.meta /\ g2.unfinalized = gf.unfinalized /\ g2.tmudata = gf.tmudata
      /\ Elements(g2.rootudata) \subseteq Elements(gf.rootudata)
  BY DEF Collected, Marked, Same, Swept
<1>3. Elements(g.rootudata) \cap Elements(g.tmudata) = {} /\ Elements(g.rootudata) \subseteq Udatas /\ Elements(g.tmudata) \subseteq Udatas
  BY Fields, ElementsIn DEF ListsOK
<1>4. Elements(g2.tmudata) \subseteq g2.unfinalized
  <2>1. Elements(g.tmudata) \subseteq g.unfinalized
    BY DEF CallsOK
  <2>2. QED BY <1>1, <1>2, <1>3, <2>1
<1>5. \A u \in Elements(g2.rootudata) \cup Elements(g2.tmudata) : u \in g2.unfinalized => called[u] = 0
  <2>1. \A u \in Elements(g.rootudata) \cup Elements(g.tmudata) : u \in g.unfinalized => called[u] = 0
    BY DEF CallsOK
  <2>2. QED BY <1>1, <1>2, <2>1
<1>6. \A u \in Elements(g2.rootudata) \ g2.unfinalized : called[u] = 1 \/ g2.meta[u] = Nil
  <2>1. \A u \in Elements(g.rootudata) \ g.unfinalized : called[u] = 1 \/ g.meta[u] = Nil
    BY DEF CallsOK
  <2>2. QED BY <1>1, <1>2, <2>1
<1>7. closing => \A u \in Elements(g2.rootudata) \cap g2.unfinalized : g2.meta[u] = Nil \/ u \in made
  <2>1. closing => \A u \in Elements(g.rootudata) \cap g.unfinalized : g.meta[u] = Nil \/ u \in made
    BY DEF CallsOK
  <2>2. QED BY <1>1, <1>2, <2>1
<1>8. \A u \in Udatas : called[u] <= 1
  BY DEF CallsOK
<1>9. QED BY <1>4, <1>5, <1>6, <1>7, <1>8 DEF CallsOK

-----------------------------------------------------------------------------
(* Steps of the program and of tag methods.                                    *)

RunIn(fr) == {fr[i].udata : i \in DOMAIN fr} \ {Nil}
RootsIn(g, fr) == {g.top, g.slot[Main]} \cup RunIn(fr)

\* Userdata whose tag methods are running.
LEMMA RunInIs ==
    ASSUME NEW fr \in Seq(Frame)
    PROVE  /\ RunIn(fr) \subseteq Udatas
           /\ \A fr2 \in Seq(Frame) : \A u :
                 (\A i \in DOMAIN fr2 : fr2[i].udata \in {Nil, u} \cup RunIn(fr))
                    => RunIn(fr2) \subseteq {u} \cup RunIn(fr)
<1>1. DOMAIN fr = 1..Len(fr) /\ \A i \in 1..Len(fr) : fr[i] \in Frame
  BY LenProperties, ElementOfSeq
<1>2. RunIn(fr) \subseteq Udatas
  BY <1>1 DEF RunIn, Frame
<1>3. QED BY <1>2 DEF RunIn

\* The roots are objects.
LEMMA RootsAre ==
    ASSUME NEW g \in Heap, NEW fr \in Seq(Frame)
    PROVE  RootsIn(g, fr) \in SUBSET (Objects \cup {Nil})
<1>1. g.top \in Objects \cup {Nil} /\ g.slot[Main] \in Objects \cup {Nil}
  BY Fields DEF Threads
<1>2. RunIn(fr) \subseteq Objects
  BY RunInIs DEF Objects
<1>3. QED BY <1>1, <1>2 DEF RootsIn

\* What the invariant says, with a safe set.
LEMMA HaveSafe ==
    ASSUME IInv, life # "closed"
    PROVE  /\ h \in Heap /\ ListsOK(h) /\ h.ok /\ Roots(h) = RootsIn(h, frames)
           /\ RootsIn(h, frames) \in SUBSET (Objects \cup {Nil})
           /\ Safe(h, RootsIn(h, frames), Kept(h, Roots(h)))
<1>1. h \in Heap /\ frames \in Seq(Frame) /\ ListsOK(h) /\ h.ok /\ KeptOK(h, Roots(h))
  BY DEF IInv, TypeOK
<1>2. Roots(h) = RootsIn(h, frames)
  BY DEF Roots, Running, RootsIn, RunIn
<1>3. RootsIn(h, frames) \in SUBSET (Objects \cup {Nil})
  BY <1>1, RootsAre
<1>4. QED BY <1>1, <1>2, <1>3, SafeIs

\* How it is shown to hold after a step.
LEMMA HoldsNext ==
    ASSUME TypeOK', CallsOK(h', calls', life' = "closing", late'), h'.ok,
           life' # "closed" => ListsOK(h') /\ \E A : Safe(h', RootsIn(h', frames'), A)
    PROVE  IInv'
<1>1. h' \in Heap /\ frames' \in Seq(Frame)
  BY DEF TypeOK
<1>2. Roots(h)' = RootsIn(h', frames')
  BY DEF Roots, Running, RootsIn, RunIn
<1>3. RootsIn(h', frames') \in SUBSET (Objects \cup {Nil})
  BY <1>1, RootsAre
<1>4. life' # "closed" => ListsOK(h') /\ KeptOK(h', RootsIn(h', frames'))
  <2>1. SUFFICES ASSUME life' # "closed" PROVE ListsOK(h') /\ KeptOK(h', RootsIn(h', frames'))
    OBVIOUS
  <2>2. PICK A : Safe(h', RootsIn(h', frames'), A)
    BY <2>1
  <2>3. QED BY <1>1, <1>3, <2>1, <2>2, SafeIs
<1>5. (KeptOK(h, Roots(h)))' <=> KeptOK(h', RootsIn(h', frames'))
  BY <1>2 DEF KeptOK, Kept, Start, AliveIn, KeysKept, Closed, From, Holds, ValueOf, allocated
<1>6. QED BY <1>4, <1>5 DEF IInv, CallsOK, ListsOK

\* A list with one more at its head, and without its head.
LEMMA ConsIs ==
    ASSUME NEW X, NEW x \in X, NEW s \in Seq(X)
    PROVE  /\ <<x>> \o s \in Seq(X) /\ Elements(<<x>> \o s) = {x} \cup Elements(s)
           /\ Distinct(s) /\ x \notin Elements(s) => Distinct(<<x>> \o s)
<1> DEFINE one == <<x>>
<1>1. one \in Seq(X) /\ DOMAIN one = {1} /\ one[1] = x
  OBVIOUS
<1> HIDE DEF one
<1>2. Elements(one) = {x} /\ Distinct(one)
  BY <1>1 DEF Elements, Distinct
<1>3. Elements(one) \cap Elements(s) = {} <=> x \notin Elements(s)
  BY <1>2
<1>4. one \o s \in Seq(X) /\ Elements(one \o s) = Elements(one) \cup Elements(s)
      /\ (Distinct(one) /\ Distinct(s) /\ Elements(one) \cap Elements(s) = {} => Distinct(one \o s))
  BY <1>1, ElementsConcat
<1>5. QED BY <1>2, <1>3, <1>4 DEF one

LEMMA TailIs ==
    ASSUME NEW X, NEW s \in Seq(X), s # << >>
    PROVE  /\ Head(s) \in X /\ Tail(s) \in Seq(X) /\ Elements(s) = {Head(s)} \cup Elements(Tail(s))
           /\ Distinct(s) => Distinct(Tail(s)) /\ Head(s) \notin Elements(Tail(s))
<1> DEFINE t == Tail(s)
<1>1. /\ Head(s) \in X /\ t \in Seq(X) /\ Len(s) \in Nat /\ Len(s) >= 1 /\ Len(t) = Len(s) - 1
      /\ Head(s) = s[1] /\ \A i \in 1..Len(t) : t[i] = s[i + 1]
  BY HeadTailProperties, LenProperties, EmptySeq
<1>2. DOMAIN s = 1..Len(s) /\ DOMAIN t = 1..Len(t)
  BY <1>1, LenProperties
<1> HIDE DEF t
<1>3. /\ \A i \in DOMAIN s : i = 1 \/ (i - 1 \in DOMAIN t /\ t[i - 1] = s[i])
      /\ \A i \in DOMAIN t : i + 1 \in DOMAIN s /\ t[i] = s[i + 1] /\ i + 1 # 1
      /\ 1 \in DOMAIN s
  <2>1. \A i \in 1..Len(s) : i = 1 \/ (i - 1 \in 1..Len(t) /\ (i - 1) + 1 = i)
    BY <1>1
  <2>2. \A i \in 1..Len(t) : i + 1 \in 1..Len(s) /\ i + 1 # 1
    BY <1>1
  <2>3. 1 \in 1..Len(s)
    BY <1>1
  <2>4. \A i \in DOMAIN s : i = 1 \/ (i - 1 \in DOMAIN t /\ t[i - 1] = s[i])
    <3>1. TAKE i \in DOMAIN s
    <3>2. SUFFICES ASSUME i # 1 PROVE i - 1 \in DOMAIN t /\ t[i - 1] = s[i]
      OBVIOUS
    <3>3. i - 1 \in 1..Len(t) /\ (i - 1) + 1 = i
      BY <1>2, <2>1, <3>2
    <3>4. t[i - 1] = s[(i - 1) + 1]
      BY <1>1, <3>3
    <3>5. QED BY <1>2, <3>3, <3>4
  <2>5. QED BY <1>1, <1>2, <2>2, <2>3, <2>4
<1>4. Elements(s) = {s[1]} \cup Elements(t)
  <2>1. Elements(s) \subseteq {s[1]} \cup Elements(t)
    BY <1>3 DEF Elements
  <2>2. {s[1]} \cup Elements(t) \subseteq Elements(s)
    BY <1>3 DEF Elements
  <2>3. QED BY <2>1, <2>2
<1>5. ASSUME Distinct(s) PROVE Distinct(t) /\ s[1] \notin Elements(t)
  <2>1. s[1] \notin Elements(t)
    BY <1>3, <1>5 DEF Distinct, Elements
  <2>2. ASSUME NEW i \in DOMAIN t, NEW j \in DOMAIN t, t[i] = t[j] PROVE i = j
    <3>1. i + 1 \in DOMAIN s /\ j + 1 \in DOMAIN s /\ s[i + 1] = s[j + 1]
      BY <1>3, <2>2
    <3>2. i + 1 = j + 1
      BY <1>5, <3>1 DEF Distinct
    <3>3. i \in Nat /\ j \in Nat
      BY <1>1, <1>2
    <3>4. QED BY <3>2, <3>3
  <2>3. QED BY <2>1, <2>2 DEF Distinct
<1>6. QED BY <1>1, <1>4, <1>5 DEF t

\* The frames, when the innermost gets another userdata, and when it is left.
LEMMA FrameIs ==
    ASSUME NEW fr \in Seq(Frame), NEW n \in DOMAIN fr, NEW u \in Udatas \cup {Nil}
    PROVE  LET f2 == [fr EXCEPT ![n].udata = u]
           IN f2 \in Seq(Frame) /\ RunIn(f2) \subseteq {u} \cup RunIn(fr)
<1> DEFINE f2 == [fr EXCEPT ![n].udata = u]
<1>1. Len(fr) \in Nat /\ DOMAIN fr = 1..Len(fr) /\ \A i \in 1..Len(fr) : fr[i] \in Frame
  BY LenProperties, ElementOfSeq
<1>2. DOMAIN f2 = 1..Len(fr) /\ \A i \in 1..Len(fr) : f2[i] = IF i = n THEN [fr[n] EXCEPT !.udata = u] ELSE fr[i]
  BY <1>1
<1>3. [fr[n] EXCEPT !.udata = u] \in Frame /\ [fr[n] EXCEPT !.udata = u].udata = u
  BY <1>1 DEF Frame
<1>4. f2 \in [1..Len(fr) -> Frame]
  <2>1. f2 = [i \in 1..Len(fr) |-> f2[i]]
    BY <1>1
  <2> HIDE DEF f2
  <2>2. QED BY <1>1, <1>2, <1>3, <2>1
<1> HIDE DEF f2
<1>5. f2 \in Seq(Frame)
  BY <1>1, <1>4
<1>6. \A i \in DOMAIN f2 : f2[i].udata \in {u} \/ f2[i].udata = fr[i].udata
  BY <1>1, <1>2, <1>3
<1>7. RunIn(f2) \subseteq {u} \cup RunIn(fr)
  BY <1>1, <1>2, <1>6 DEF RunIn
<1>8. QED BY <1>5, <1>7 DEF f2

LEMMA FrontIs ==
    ASSUME NEW fr \in Seq(Frame), fr # << >>
    PROVE  LET f2 == SubSeq(fr, 1, Len(fr) - 1)
           IN f2 \in Seq(Frame) /\ RunIn(f2) \subseteq RunIn(fr)
<1> DEFINE f2 == SubSeq(fr, 1, Len(fr) - 1)
<1>1. Len(fr) \in Nat /\ DOMAIN fr = 1..Len(fr) /\ Len(fr) >= 1
  BY LenProperties, EmptySeq
<1>2. f2 \in Seq(Frame) /\ DOMAIN f2 = 1..(Len(fr) - 1) /\ \A i \in 1..(Len(fr) - 1) : f2[i] = fr[i]
  BY <1>1, SubSeqProperties
<1> HIDE DEF f2
<1>3. \A i \in DOMAIN f2 : i \in DOMAIN fr /\ f2[i] = fr[i]
  BY <1>1, <1>2
<1>4. RunIn(f2) \subseteq RunIn(fr)
  BY <1>3 DEF RunIn
<1>5. QED BY <1>2, <1>4 DEF f2

\* What a thing holds stays the same with the fields it holds it in.
LEMMA HoldsSame ==
    ASSUME NEW g, NEW g2, NEW x \in Things,
           x \in Tables => g2.node[x] = g.node[x], x \in Udatas => g2.meta[x] = g.meta[x],
           x \in Coroutines => g2.slot[x] = g.slot[x],
           x \in Closures => /\ g2.upval[x] = g.upval[x]
                             /\ g.upval[x] # Nil => ValueOf(g2, g.upval[x]) = ValueOf(g, g.upval[x])
    PROVE  Holds(g2, x) = Holds(g, x)
<1>1. CASE x \in Tables
  <2>1. Holds(g, x) = (IF g.node[x].val = Nil THEN {} ELSE {g.node[x].key, g.node[x].val}) \ {Nil}
    BY <1>1, HoldsIs
  <2>2. Holds(g2, x) = (IF g2.node[x].val = Nil THEN {} ELSE {g2.node[x].key, g2.node[x].val}) \ {Nil}
    BY <1>1, HoldsIs
  <2>3. g2.node[x] = g.node[x]
    BY <1>1
  <2>4. QED BY <2>1, <2>2, <2>3, Zenon
<1>2. CASE x \in Udatas
  BY <1>2, HoldsIs
<1>3. CASE x \in Coroutines
  BY <1>3, HoldsIs
<1>4. CASE x \in Closures
  <2>1. Holds(g, x) = (IF g.upval[x] = Nil THEN {} ELSE {g.upval[x], ValueOf(g, g.upval[x])}) \ {Nil}
    BY <1>4, HoldsIs
  <2>2. Holds(g2, x) = (IF g2.upval[x] = Nil THEN {} ELSE {g2.upval[x], ValueOf(g2, g2.upval[x])}) \ {Nil}
    BY <1>4, HoldsIs
  <2>3. g2.upval[x] = g.upval[x] /\ (g.upval[x] # Nil => ValueOf(g2, g.upval[x]) = ValueOf(g, g.upval[x]))
    BY <1>4
  <2>4. QED BY <2>1, <2>2, <2>3
<1>5. CASE x \in Strings \cup Upvals
  BY <1>5, HoldsIs
<1>6. QED BY <1>1, <1>2, <1>3, <1>4, <1>5 DEF Things, Objects

\* A safe set A, with the new objects in A2, is safe after a step.
LEMMA SafeStep ==
    ASSUME NEW g \in Heap, NEW g2 \in Heap, NEW R, NEW R2, NEW A, NEW A2, Safe(g, R, A), A \subseteq A2, A2 \subseteq Things,
           \A x \in Things : AliveIn(g, x) => AliveIn(g2, x), \A x \in A2 \ A : AliveIn(g2, x),
           \A x \in A2 : Holds(g2, x) \subseteq A2, R2 \subseteq A2 \cup {Nil},
           Elements(g2.tmudata) \cup (Elements(g2.rootudata) \cap g2.unfinalized) \subseteq A2,
           \A t \in A2 \cap Tables : \/ t \in A /\ g2.mode[t] = g.mode[t] /\ g2.node[t].key = g.node[t].key
                                     \/ g2.node[t].key \in Objects => g2.node[t].key \in A2
    PROVE  Safe(g2, R2, A2)
<1>1. \A x \in A2 : AliveIn(g2, x)
  <2>1. A \subseteq Things
    OBVIOUS
  <2>2. QED BY <2>1 DEF Safe
<1>2. Start(g2, R2) \subseteq A2
  BY DEF Start
<1>3. ClosedIn(g2, A2)
  BY DEF ClosedIn
<1>4. Objects \cap Upvals = {}
  BY Kinds DEF Objects
<1>5. \A x \in Objects : AliveIn(g, x) <=> x \in allocated(g)
  BY <1>4 DEF AliveIn
<1>6. \A x \in Objects : AliveIn(g2, x) <=> x \in allocated(g2)
  BY <1>4 DEF AliveIn
<1>7. ASSUME NEW t \in A2 \cap Tables, "k" \in g2.mode[t], g2.node[t].key \in Objects
      PROVE  g2.node[t].key \in allocated(g2)
  <2>1. CASE t \in A /\ g2.mode[t] = g.mode[t] /\ g2.node[t].key = g.node[t].key
    <3>1. g.node[t].key \in allocated(g)
      BY <1>7, <2>1 DEF Safe, KeysKept
    <3>2. QED BY <1>5, <1>6, <1>7, <2>1, <3>1 DEF Things
  <2>2. CASE g2.node[t].key \in A2
    BY <1>1, <1>6, <1>7, <2>2
  <2>3. QED BY <1>7, <2>1, <2>2
<1>8. KeysKept(g2, A2)
  BY <1>7 DEF KeysKept
<1>9. QED BY <1>1, <1>2, <1>3, <1>8, Zenon DEF Safe

\* What the program can use is in every safe set.
LEMMA InReachSafe ==
    ASSUME IInv, life # "closed"
    PROVE  /\ InReach \subseteq Kept(h, Roots(h)) \cap Objects
           /\ {h.top, h.slot[Main]} \subseteq Kept(h, Roots(h)) \cup {Nil}
           /\ RunIn(frames) \subseteq Kept(h, Roots(h))
           /\ Elements(h.tmudata) \cup (Elements(h.rootudata) \cap h.unfinalized) \subseteq Kept(h, Roots(h))
<1> DEFINE A == Kept(h, Roots(h))
<1>1. h \in Heap /\ Roots(h) = RootsIn(h, frames) /\ RootsIn(h, frames) \in SUBSET (Objects \cup {Nil})
      /\ Safe(h, RootsIn(h, frames), A)
  BY HaveSafe
<1> HIDE DEF A
<1>2. ClosedIn(h, A) /\ Start(h, Roots(h)) \subseteq A
  BY <1>1 DEF Safe
<1>3. Roots(h) \ {Nil} \subseteq A
  BY <1>2 DEF Start
<1>4. Roots(h) \ {Nil} \in SUBSET Things
  BY <1>1 DEF Things
<1>5. Closed(h, Roots(h) \ {Nil}) \subseteq A
  BY <1>1, <1>2, <1>3, <1>4, ClosedIs
<1>6. InReach \subseteq A \cap Objects
  BY <1>5 DEF InReach
<1>7. {h.top, h.slot[Main]} \subseteq A \cup {Nil} /\ RunIn(frames) \subseteq A
  BY <1>1, <1>3 DEF RootsIn, RunIn
<1>8. Nil \notin Elements(h.tmudata) /\ Nil \notin Elements(h.rootudata)
  <2>1. Elements(h.tmudata) \subseteq Udatas /\ Elements(h.rootudata) \subseteq Udatas
    BY <1>1, Fields, ElementsIn
  <2>2. QED BY <2>1, Kinds DEF Things, Objects
<1>9. Elements(h.tmudata) \cup (Elements(h.rootudata) \cap h.unfinalized) \subseteq A
  BY <1>2, <1>8 DEF Start
<1>10. QED BY <1>6, <1>7, <1>9 DEF A

\* The userdata are as they were, and so is whether the collector has only looked at
\* what is allocated.
Quiet(g, g2) ==
    /\ g2.rootudata = g.rootudata /\ g2.tmudata = g.tmudata /\ g2.unfinalized = g.unfinalized
    /\ g2.meta = g.meta /\ g2.marked = g.marked /\ g2.ok = g.ok /\ g.strt \subseteq g2.strt

\* A step that leaves the userdata as they are.
LEMMA QuietStep ==
    ASSUME IInv, life # "closed", NEW g2 \in Heap, h' = g2, Quiet(h, g2),
           frames' \in Seq(Frame), life' = life, calls' = calls, late' = late, count' = count, steps' \in Nat,
           NEW A2, Safe(g2, RootsIn(g2, frames'), A2)
    PROVE  IInv'
<1>1. TypeOK /\ CallsOK(h, calls, life = "closing", late) /\ h.ok /\ ListsOK(h)
  BY DEF IInv
<1>2. TypeOK'
  BY <1>1 DEF TypeOK
<1>3. CallsOK(g2, calls, life = "closing", late)
  BY <1>1 DEF CallsOK, Quiet
<1>4. ListsOK(g2) /\ g2.ok
  BY <1>1 DEF ListsOK, Quiet
<1>5. CallsOK(h', calls', life' = "closing", late') /\ h'.ok
  BY <1>3, <1>4
<1>6. life' # "closed" => ListsOK(h') /\ \E A : Safe(h', RootsIn(h', frames'), A)
  BY <1>4
<1>7. QED BY <1>2, <1>5, <1>6, HoldsNext

\* A step of the program.
LEMMA ProgramStep ==
    ASSUME IInv, Runs, NEW g2 \in Heap, Step(g2), Quiet(h, g2), NEW A2, Safe(g2, RootsIn(g2, frames), A2)
    PROVE  IInv'
<1>1. h' = g2 /\ frames' = frames /\ life' = life /\ calls' = calls /\ late' = late /\ count' = count
      /\ steps' = steps + 1
  BY DEF Step, Tick
<1>2. life # "closed" /\ frames \in Seq(Frame) /\ steps \in Nat
  BY DEF Runs, IInv, TypeOK
<1>3. steps' \in Nat /\ frames' \in Seq(Frame) /\ Safe(g2, RootsIn(g2, frames'), A2)
  BY <1>1, <1>2
<1>4. QED BY <1>1, <1>2, <1>3, QuietStep

\* What is known when the program runs.
LEMMA AtStep ==
    ASSUME IInv, Runs
    PROVE  /\ life # "closed" /\ h \in Heap /\ ListsOK(h) /\ frames \in Seq(Frame) /\ Main \in Threads
           /\ Safe(h, RootsIn(h, frames), Kept(h, Roots(h)))
           /\ Kept(h, Roots(h)) \subseteq Things /\ \A x \in Kept(h, Roots(h)) : Holds(h, x) \subseteq Kept(h, Roots(h))
           /\ \A x \in Kept(h, Roots(h)) : AliveIn(h, x)
<1>1. life # "closed"
  BY DEF Runs
<1>2. Safe(h, RootsIn(h, frames), Kept(h, Roots(h))) /\ h \in Heap /\ ListsOK(h)
  BY <1>1, HaveSafe
<1>3. frames \in Seq(Frame)
  BY DEF IInv, TypeOK
<1>4. QED BY <1>1, <1>2, <1>3 DEF Safe, ClosedIn, Threads

\* Assigning to the local variable.
LEMMA AssignStep ==
    ASSUME IInv, Assign PROVE IInv'
<1> DEFINE A == Kept(h, Roots(h))
           g2 == [h EXCEPT !.slot[Main] = h.top]
<1>1. Runs /\ Step(g2)
  BY DEF Assign
<1>2. /\ h \in Heap /\ Main \in Threads /\ Safe(h, RootsIn(h, frames), A)
      /\ A \subseteq Things /\ \A x \in A : Holds(h, x) \subseteq A /\ AliveIn(h, x)
  BY <1>1, AtStep
<1>3. /\ {h.top, h.slot[Main]} \subseteq A \cup {Nil} /\ RunIn(frames) \subseteq A
      /\ Elements(h.tmudata) \cup (Elements(h.rootudata) \cap h.unfinalized) \subseteq A
  BY <1>1, AtStep, InReachSafe
<1> HIDE DEF A
<1>4. /\ g2 \in Heap /\ Quiet(h, g2) /\ g2.rootgc = h.rootgc /\ g2.strt = h.strt /\ g2.uv = h.uv /\ g2.node = h.node
      /\ g2.mode = h.mode /\ g2.upval = h.upval /\ g2.top = h.top /\ g2.slot = [h.slot EXCEPT ![Main] = h.top]
  BY <1>2 DEF Heap, Quiet
<1> HIDE DEF g2
<1>5. /\ g2.slot[Main] = h.top /\ \A c \in Coroutines : g2.slot[c] = h.slot[c]
  BY <1>2, <1>4, Fields, Kinds DEF Threads, Things, Objects
<1>6. ASSUME NEW x \in A PROVE Holds(g2, x) \subseteq A
  <2>1. x \in Things /\ Holds(h, x) \subseteq A
    BY <1>2
  <2>2. CASE x \in Closures
    <3>1. SUFFICES ASSUME h.upval[x] # Nil PROVE ValueOf(g2, h.upval[x]) \in A \cup {Nil} /\ h.upval[x] \in A
      BY <1>4, <2>1, <2>2, HoldsIs
    <3>2. Holds(h, x) = {h.upval[x], ValueOf(h, h.upval[x])} \ {Nil} /\ h.upval[x] \in Upvals
      BY <1>2, <2>1, <2>2, <3>1, HoldsIs, Fields
    <3>3. g2.uv[h.upval[x]].open \in {Main, Nil}
      BY <1>4, <3>2, Fields
    <3>4. ValueOf(g2, h.upval[x]) \in {h.top, ValueOf(h, h.upval[x])}
      BY <1>4, <1>5, <3>3 DEF ValueOf
    <3>5. QED BY <1>3, <2>1, <3>1, <3>2, <3>4
  <2>3. CASE x \notin Closures
    <3>1. Holds(g2, x) = Holds(h, x)
      BY <1>4, <1>5, <2>1, <2>3, HoldsSame DEF Quiet
    <3>2. QED BY <2>1, <3>1
  <2>4. QED BY <2>2, <2>3
<1>7. \A x \in Things : AliveIn(h, x) => AliveIn(g2, x)
  BY <1>4 DEF AliveIn, allocated, Quiet
<1>8. RootsIn(g2, frames) \subseteq A \cup {Nil}
  BY <1>3, <1>4, <1>5 DEF RootsIn
<1>9. Elements(g2.tmudata) \cup (Elements(g2.rootudata) \cap g2.unfinalized) \subseteq A
  BY <1>3, <1>4 DEF Quiet
<1>10. Safe(g2, RootsIn(g2, frames), A)
  BY <1>2, <1>4, <1>6, <1>7, <1>8, <1>9, SafeStep
<1>11. QED BY <1>1, <1>4, <1>10, ProgramStep DEF g2

\* Taking up something that can be reached.
LEMMA LoadStep ==
    ASSUME IInv, Load PROVE IInv'
<1> DEFINE A == Kept(h, Roots(h))
<1>1. PICK x \in InReach \cup {Nil} : Runs /\ Step(Push(h, x))
  BY DEF Load
<1> DEFINE g2 == [h EXCEPT !.top = x]
<1>2. Step(g2)
  BY <1>1 DEF Push
<1>3. /\ h \in Heap /\ Safe(h, RootsIn(h, frames), A)
      /\ A \subseteq Things /\ \A y \in A : Holds(h, y) \subseteq A /\ AliveIn(h, y)
  BY <1>1, AtStep
<1>4. /\ {h.top, h.slot[Main]} \subseteq A \cup {Nil} /\ RunIn(frames) \subseteq A
      /\ Elements(h.tmudata) \cup (Elements(h.rootudata) \cap h.unfinalized) \subseteq A
      /\ InReach \subseteq A \cap Objects
  BY <1>1, AtStep, InReachSafe
<1> HIDE DEF A
<1>5. x \in Objects \cup {Nil} /\ x \in A \cup {Nil}
  BY <1>4
<1>6. /\ g2 \in Heap /\ Quiet(h, g2) /\ g2.rootgc = h.rootgc /\ g2.strt = h.strt /\ g2.uv = h.uv /\ g2.node = h.node
      /\ g2.mode = h.mode /\ g2.upval = h.upval /\ g2.top = x /\ g2.slot = h.slot
  BY <1>3, <1>5 DEF Heap, Quiet
<1> HIDE DEF g2
<1>7. ASSUME NEW y \in A PROVE Holds(g2, y) \subseteq A
  <2>1. ValueOf(g2, h.upval[y]) = ValueOf(h, h.upval[y])
    BY <1>6 DEF ValueOf
  <2>2. Holds(g2, y) = Holds(h, y)
    BY <1>3, <1>6, <2>1, HoldsSame DEF Quiet
  <2>3. QED BY <1>3, <2>2
<1>8. \A y \in Things : AliveIn(h, y) => AliveIn(g2, y)
  BY <1>6 DEF AliveIn, allocated, Quiet
<1>9. RootsIn(g2, frames) \subseteq A \cup {Nil}
  BY <1>4, <1>5, <1>6 DEF RootsIn
<1>10. Elements(g2.tmudata) \cup (Elements(g2.rootudata) \cap g2.unfinalized) \subseteq A
  BY <1>4, <1>6 DEF Quiet
<1>11. Safe(g2, RootsIn(g2, frames), A)
  BY <1>3, <1>6, <1>7, <1>8, <1>9, <1>10, SafeStep
<1>12. QED BY <1>1, <1>2, <1>6, <1>11, ProgramStep DEF g2

\* Giving a table a mode, before it has a field.
LEMMA SetModeStep ==
    ASSUME IInv, lua_setmetatable, LateModes = FALSE PROVE IInv'
<1> DEFINE A == Kept(h, Roots(h))
<1>1. PICK t \in Tables \cap InReach, m \in Modes :
          Runs /\ h.node[t].key = Nil /\ Step([h EXCEPT !.mode[t] = m])
  BY DEF lua_setmetatable
<1> DEFINE g2 == [h EXCEPT !.mode[t] = m]
<1>2. /\ h \in Heap /\ Safe(h, RootsIn(h, frames), A)
      /\ A \subseteq Things /\ \A y \in A : Holds(h, y) \subseteq A /\ AliveIn(h, y)
  BY <1>1, AtStep
<1>3. /\ {h.top, h.slot[Main]} \subseteq A \cup {Nil} /\ RunIn(frames) \subseteq A
      /\ Elements(h.tmudata) \cup (Elements(h.rootudata) \cap h.unfinalized) \subseteq A
  BY <1>1, AtStep, InReachSafe
<1> HIDE DEF A
<1>4. m \in SUBSET {"k", "v"}
  BY HeapConstants
<1>5. /\ g2 \in Heap /\ Quiet(h, g2) /\ g2.rootgc = h.rootgc /\ g2.strt = h.strt /\ g2.uv = h.uv /\ g2.node = h.node
      /\ g2.mode = [h.mode EXCEPT ![t] = m] /\ g2.upval = h.upval /\ g2.top = h.top /\ g2.slot = h.slot
  BY <1>2, <1>4 DEF Heap, Quiet
<1> HIDE DEF g2
<1>6. ASSUME NEW y \in A PROVE Holds(g2, y) \subseteq A
  <2>1. ValueOf(g2, h.upval[y]) = ValueOf(h, h.upval[y])
    BY <1>5 DEF ValueOf
  <2>2. Holds(g2, y) = Holds(h, y)
    BY <1>2, <1>5, <2>1, HoldsSame DEF Quiet
  <2>3. QED BY <1>2, <2>2
<1>7. \A y \in Things : AliveIn(h, y) => AliveIn(g2, y)
  BY <1>5 DEF AliveIn, allocated, Quiet
<1>8. RootsIn(g2, frames) \subseteq A \cup {Nil}
  BY <1>3, <1>5 DEF RootsIn
<1>9. Elements(g2.tmudata) \cup (Elements(g2.rootudata) \cap g2.unfinalized) \subseteq A
  BY <1>3, <1>5 DEF Quiet
<1>10. ASSUME NEW s \in A \cap Tables
       PROVE  \/ s \in A /\ g2.mode[s] = h.mode[s] /\ g2.node[s].key = h.node[s].key
              \/ g2.node[s].key \in Objects => g2.node[s].key \in A
  <2>1. CASE s = t
    BY <1>1, <1>5, <2>1, Kinds DEF Things
  <2>2. CASE s # t
    <3>1. g2.mode[s] = h.mode[s]
      BY <1>2, <1>5, <2>2, Fields
    <3>2. QED BY <1>5, <3>1
  <2>3. QED BY <2>1, <2>2
<1>11. Safe(g2, RootsIn(g2, frames), A)
  BY <1>2, <1>5, <1>6, <1>7, <1>8, <1>9, <1>10, SafeStep
<1>12. QED BY <1>1, <1>5, <1>11, ProgramStep DEF g2

\* Storing in a table.
LEMMA StoreStep ==
    ASSUME IInv, Store PROVE IInv'
<1> DEFINE A == Kept(h, Roots(h))
<1>1. PICK t \in Tables \cap InReach, k \in InReach \ Tables, v \in {h.top, Nil} :
          Runs /\ Step([h EXCEPT !.node[t] = [key |-> k, val |-> v]])
  BY DEF Store
<1> DEFINE n == [key |-> k, val |-> v]
           g2 == [h EXCEPT !.node[t] = n]
<1>2. /\ h \in Heap /\ Safe(h, RootsIn(h, frames), A)
      /\ A \subseteq Things /\ \A y \in A : Holds(h, y) \subseteq A /\ AliveIn(h, y)
  BY <1>1, AtStep
<1>3. /\ {h.top, h.slot[Main]} \subseteq A \cup {Nil} /\ RunIn(frames) \subseteq A
      /\ Elements(h.tmudata) \cup (Elements(h.rootudata) \cap h.unfinalized) \subseteq A
      /\ InReach \subseteq A \cap Objects
  BY <1>1, AtStep, InReachSafe
<1> HIDE DEF A
<1>4. k \in Objects /\ k \in A /\ v \in Objects \cup {Nil} /\ v \in A \cup {Nil} /\ n.key = k /\ n.val = v
  BY <1>2, <1>3, Fields
<1>5. n \in Node
  BY <1>4 DEF Node
<1> HIDE DEF n
<1>6. /\ g2 \in Heap /\ Quiet(h, g2) /\ g2.rootgc = h.rootgc /\ g2.strt = h.strt /\ g2.uv = h.uv
      /\ g2.node = [h.node EXCEPT ![t] = n]
      /\ g2.mode = h.mode /\ g2.upval = h.upval /\ g2.top = h.top /\ g2.slot = h.slot
  BY <1>2, <1>5 DEF Heap, Quiet
<1> HIDE DEF g2
<1>7. \A s \in Tables : g2.node[s] = IF s = t THEN n ELSE h.node[s]
  BY <1>2, <1>6, Fields
<1>8. ASSUME NEW y \in A PROVE Holds(g2, y) \subseteq A
  <2>1. ValueOf(g2, h.upval[y]) = ValueOf(h, h.upval[y])
    BY <1>6 DEF ValueOf
  <2>2. CASE y = t
    <3>1. Holds(g2, y) = (IF n.val = Nil THEN {} ELSE {n.key, n.val}) \ {Nil}
      BY <1>2, <1>7, <2>2, HoldsIs
    <3>2. QED BY <1>4, <3>1
  <2>3. CASE y # t
    <3>1. Holds(g2, y) = Holds(h, y)
      BY <1>2, <1>6, <1>7, <2>1, <2>3, HoldsSame DEF Quiet
    <3>2. QED BY <1>2, <3>1
  <2>4. QED BY <2>2, <2>3
<1>9. \A y \in Things : AliveIn(h, y) => AliveIn(g2, y)
  BY <1>6 DEF AliveIn, allocated, Quiet
<1>10. RootsIn(g2, frames) \subseteq A \cup {Nil}
  BY <1>3, <1>6 DEF RootsIn
<1>11. Elements(g2.tmudata) \cup (Elements(g2.rootudata) \cap g2.unfinalized) \subseteq A
  BY <1>3, <1>6 DEF Quiet
<1>12. \A s \in A \cap Tables : \/ s \in A /\ g2.mode[s] = h.mode[s] /\ g2.node[s].key = h.node[s].key
                                \/ g2.node[s].key \in Objects => g2.node[s].key \in A
  BY <1>4, <1>6, <1>7
<1>13. Safe(g2, RootsIn(g2, frames), A)
  BY <1>2, <1>6, <1>8, <1>9, <1>10, <1>11, <1>12, SafeStep
<1>14. QED BY <1>1, <1>6, <1>13, ProgramStep DEF g2, n

\* What is free is not needed.
LEMMA FreeIs ==
    ASSUME IInv, Runs, NEW o \in Objects, Free(o)
    PROVE  o \notin Kept(h, Roots(h))
<1>1. \A x \in Kept(h, Roots(h)) : AliveIn(h, x)
  BY AtStep
<1>2. o \notin Upvals
  BY Kinds DEF Objects
<1>3. QED BY <1>1, <1>2 DEF Free, AliveIn

\* A new table.
LEMMA NewTableStep ==
    ASSUME IInv, luaH_new PROVE IInv'
<1>1. PICK t \in Tables :
          /\ Runs /\ Free(t)
          /\ Step(Push([h EXCEPT !.node[t] = [key |-> Nil, val |-> Nil], !.mode[t] = {}, !.bits[t] = {},
                                 !.rootgc = <<t>> \o @], t))
  BY DEF luaH_new
<1> DEFINE A  == Kept(h, Roots(h))
           A2 == A \cup {t}
           n  == [key |-> Nil, val |-> Nil]
           gc == <<t>> \o h.rootgc
           g1 == [h EXCEPT !.node[t] = n, !.mode[t] = {}, !.bits[t] = {}, !.rootgc = gc]
           g2 == [g1 EXCEPT !.top = t]
<1>2. Step(g2)
  BY <1>1, Zenon DEF Push
<1>3. /\ h \in Heap /\ Safe(h, RootsIn(h, frames), A)
      /\ A \subseteq Things /\ \A y \in A : Holds(h, y) \subseteq A /\ AliveIn(h, y)
  BY <1>1, AtStep
<1>4. /\ {h.top, h.slot[Main]} \subseteq A \cup {Nil} /\ RunIn(frames) \subseteq A
      /\ Elements(h.tmudata) \cup (Elements(h.rootudata) \cap h.unfinalized) \subseteq A
  BY <1>1, AtStep, InReachSafe
<1>5. t \in Objects /\ t \in Things /\ t \in Things \ (Udatas \cup Strings)
  BY Kinds DEF Things, Objects
<1>6. t \notin A
  BY <1>1, <1>5, FreeIs
<1> HIDE DEF A
<1>7. gc \in Seq(Things \ (Udatas \cup Strings)) /\ Elements(gc) = {t} \cup Elements(h.rootgc)
  <2>1. h.rootgc \in Seq(Things \ (Udatas \cup Strings))
    BY <1>3, Fields
  <2>2. QED BY <1>5, <2>1, ConsIs
<1>8. n \in Node /\ n.val = Nil /\ n.key = Nil
  BY DEF Node
<1> HIDE DEF n, gc
<1>9. /\ g1 \in Heap /\ Quiet(h, g1) /\ g1.rootgc = gc /\ g1.strt = h.strt /\ g1.uv = h.uv
      /\ g1.node = [h.node EXCEPT ![t] = n]
      /\ g1.mode = [h.mode EXCEPT ![t] = {}] /\ g1.upval = h.upval /\ g1.top = h.top /\ g1.slot = h.slot
  BY <1>3, <1>7, <1>8 DEF Heap, Quiet
<1> HIDE DEF g1
<1>10. /\ g2 \in Heap /\ Quiet(h, g2) /\ g2.rootgc = gc /\ g2.strt = h.strt /\ g2.uv = h.uv
       /\ g2.node = [h.node EXCEPT ![t] = n]
       /\ g2.mode = [h.mode EXCEPT ![t] = {}] /\ g2.upval = h.upval /\ g2.top = t /\ g2.slot = h.slot
  BY <1>5, <1>9 DEF Heap, Quiet
<1> HIDE DEF g2
<1>11. \A s \in Tables : g2.node[s] = (IF s = t THEN n ELSE h.node[s]) /\ (s # t => g2.mode[s] = h.mode[s])
  BY <1>3, <1>10, Fields
<1>12. ASSUME NEW y \in A2 PROVE Holds(g2, y) \subseteq A2
  <2>1. ValueOf(g2, h.upval[y]) = ValueOf(h, h.upval[y])
    BY <1>10 DEF ValueOf
  <2>2. CASE y = t
    <3>1. Holds(g2, y) = (IF n.val = Nil THEN {} ELSE {n.key, n.val}) \ {Nil}
      BY <1>5, <1>11, <2>2, HoldsIs
    <3>2. QED BY <1>8, <3>1
  <2>3. CASE y # t
    <3>1. y \in A /\ y \in Things
      BY <1>3, <2>3
    <3>2. /\ y \in Tables => g2.node[y] = h.node[y]
          /\ g2.meta = h.meta /\ g2.slot = h.slot /\ g2.upval = h.upval
      BY <1>10, <1>11, <2>3 DEF Quiet
    <3>3. Holds(g2, y) = Holds(h, y)
      BY <2>1, <3>1, <3>2, HoldsSame
    <3>4. QED BY <1>3, <3>1, <3>3
  <2>4. QED BY <2>2, <2>3
<1>13. allocated(g2) = allocated(h) \cup {t}
  BY <1>7, <1>10 DEF allocated, Quiet
<1>14. \A y \in Things : AliveIn(h, y) => AliveIn(g2, y)
  BY <1>10, <1>13 DEF AliveIn
<1>15. \A y \in A2 \ A : AliveIn(g2, y)
  BY <1>13 DEF AliveIn
<1>16. RootsIn(g2, frames) \subseteq A2 \cup {Nil}
  BY <1>4, <1>10 DEF RootsIn
<1>17. Elements(g2.tmudata) \cup (Elements(g2.rootudata) \cap g2.unfinalized) \subseteq A2
  BY <1>4, <1>10 DEF Quiet
<1>18. \A s \in A2 \cap Tables : \/ s \in A /\ g2.mode[s] = h.mode[s] /\ g2.node[s].key = h.node[s].key
                                 \/ g2.node[s].key \in Objects => g2.node[s].key \in A2
  <2>1. Nil \notin Objects
    BY Kinds DEF Things
  <2>2. QED BY <1>8, <1>11, <2>1
<1>19. A \subseteq A2 /\ A2 \subseteq Things
  BY <1>3, <1>5
<1>20. Safe(g2, RootsIn(g2, frames), A2)
  BY <1>3, <1>10, <1>12, <1>14, <1>15, <1>16, <1>17, <1>18, <1>19, SafeStep
<1>21. QED BY <1>1, <1>2, <1>10, <1>20, ProgramStep DEF g2, g1, gc, n

\* A string.
LEMMA NewStringStep ==
    ASSUME IInv, luaS_newlstr PROVE IInv'
<1>1. PICK s \in Strings : Runs /\ Step(Push([h EXCEPT !.strt = @ \cup {s}], s))
  BY DEF luaS_newlstr
<1> DEFINE A  == Kept(h, Roots(h))
           A2 == A \cup {s}
           g2 == [h EXCEPT !.strt = h.strt \cup {s}, !.top = s]
<1>2. Step(g2)
  <2>1. Push([h EXCEPT !.strt = @ \cup {s}], s) = g2
    BY DEF Push
  <2>2. QED BY <1>1, <2>1
<1>3. /\ h \in Heap /\ Safe(h, RootsIn(h, frames), A)
      /\ A \subseteq Things /\ \A y \in A : Holds(h, y) \subseteq A /\ AliveIn(h, y)
  BY <1>1, AtStep
<1>4. /\ {h.top, h.slot[Main]} \subseteq A \cup {Nil} /\ RunIn(frames) \subseteq A
      /\ Elements(h.tmudata) \cup (Elements(h.rootudata) \cap h.unfinalized) \subseteq A
  BY <1>1, AtStep, InReachSafe
<1>5. s \in Objects /\ s \in Things
  BY DEF Things, Objects
<1> HIDE DEF A
<1>6. /\ g2 \in Heap /\ Quiet(h, g2) /\ g2.rootgc = h.rootgc /\ g2.strt = h.strt \cup {s} /\ g2.uv = h.uv
      /\ g2.node = h.node /\ g2.mode = h.mode /\ g2.upval = h.upval /\ g2.top = s /\ g2.slot = h.slot
  BY <1>3, <1>5 DEF Heap, Quiet
<1> HIDE DEF g2
<1>7. ASSUME NEW y \in A2 PROVE Holds(g2, y) \subseteq A2
  <2>1. ValueOf(g2, h.upval[y]) = ValueOf(h, h.upval[y])
    BY <1>6 DEF ValueOf
  <2>2. Holds(g2, y) = Holds(h, y)
    BY <1>3, <1>5, <1>6, <2>1, HoldsSame DEF Quiet
  <2>3. Holds(h, s) = {}
    BY <1>5, HoldsIs
  <2>4. QED BY <1>3, <2>2, <2>3
<1>8. allocated(g2) = allocated(h) \cup {s}
  BY <1>6 DEF allocated, Quiet
<1>9. \A y \in Things : AliveIn(h, y) => AliveIn(g2, y)
  BY <1>6, <1>8 DEF AliveIn
<1>10. \A y \in A2 \ A : AliveIn(g2, y)
  BY <1>8 DEF AliveIn
<1>11. RootsIn(g2, frames) \subseteq A2 \cup {Nil}
  BY <1>4, <1>6 DEF RootsIn
<1>12. Elements(g2.tmudata) \cup (Elements(g2.rootudata) \cap g2.unfinalized) \subseteq A2
  BY <1>4, <1>6 DEF Quiet
<1>13. \A t \in A2 \cap Tables : t \in A /\ g2.mode[t] = h.mode[t] /\ g2.node[t].key = h.node[t].key
  BY <1>6, Kinds
<1>14. A \subseteq A2 /\ A2 \subseteq Things
  BY <1>3, <1>5
<1>15. Safe(g2, RootsIn(g2, frames), A2)
  BY <1>3, <1>6, <1>7, <1>9, <1>10, <1>11, <1>12, <1>13, <1>14, SafeStep
<1>16. QED BY <1>1, <1>2, <1>6, <1>15, ProgramStep DEF g2

\* A coroutine.
LEMMA NewThreadStep ==
    ASSUME IInv, luaE_newthread PROVE IInv'
<1>1. PICK c \in Coroutines, x \in {h.slot[Main], h.top} :
          Runs /\ Free(c) /\ Step(Push([h EXCEPT !.slot[c] = x, !.rootgc = <<c>> \o @], c))
  BY DEF luaE_newthread
<1> DEFINE A  == Kept(h, Roots(h))
           A2 == A \cup {c}
           gc == <<c>> \o h.rootgc
           g1 == [h EXCEPT !.slot[c] = x, !.rootgc = gc]
           g2 == [g1 EXCEPT !.top = c]
<1>2. Step(g2)
  BY <1>1, Zenon DEF Push
<1>3. /\ h \in Heap /\ Safe(h, RootsIn(h, frames), A)
      /\ A \subseteq Things /\ \A y \in A : Holds(h, y) \subseteq A /\ AliveIn(h, y)
  BY <1>1, AtStep
<1>4. /\ {h.top, h.slot[Main]} \subseteq A \cup {Nil} /\ RunIn(frames) \subseteq A
      /\ Elements(h.tmudata) \cup (Elements(h.rootudata) \cap h.unfinalized) \subseteq A
  BY <1>1, AtStep, InReachSafe
<1>5. c \in Objects /\ c \in Things \ (Udatas \cup Strings) /\ c \in Threads /\ c # Main /\ Main \in Threads
  BY Kinds DEF Things, Objects, Threads
<1>6. c \notin A
  BY <1>1, <1>5, FreeIs
<1> HIDE DEF A
<1>7. gc \in Seq(Things \ (Udatas \cup Strings)) /\ Elements(gc) = {c} \cup Elements(h.rootgc)
  <2>1. h.rootgc \in Seq(Things \ (Udatas \cup Strings))
    BY <1>3, Fields
  <2>2. QED BY <1>5, <2>1, ConsIs
<1> HIDE DEF gc
<1>8. x \in Objects \cup {Nil} /\ x \in A \cup {Nil}
  BY <1>3, <1>4, <1>5, Fields
<1>9. /\ g1 \in Heap /\ Quiet(h, g1) /\ g1.rootgc = gc /\ g1.strt = h.strt /\ g1.uv = h.uv
      /\ g1.node = h.node /\ g1.mode = h.mode /\ g1.upval = h.upval /\ g1.top = h.top
      /\ g1.slot = [h.slot EXCEPT ![c] = x]
  BY <1>3, <1>5, <1>7, <1>8 DEF Heap, Quiet
<1> HIDE DEF g1
<1>10. /\ g2 \in Heap /\ Quiet(h, g2) /\ g2.rootgc = gc /\ g2.strt = h.strt /\ g2.uv = h.uv
       /\ g2.node = h.node /\ g2.mode = h.mode /\ g2.upval = h.upval /\ g2.top = c
       /\ g2.slot = [h.slot EXCEPT ![c] = x]
  BY <1>5, <1>9 DEF Heap, Quiet
<1> HIDE DEF g2
<1>11. \A d \in Threads : g2.slot[d] = IF d = c THEN x ELSE h.slot[d]
  BY <1>3, <1>5, <1>10, Fields
<1>12. ASSUME NEW y \in A2 PROVE Holds(g2, y) \subseteq A2
  <2>1. CASE y = c
    <3>1. Holds(g2, y) = {x} \ {Nil}
      BY <1>5, <1>11, <2>1, HoldsIs
    <3>2. QED BY <1>8, <3>1
  <2>2. CASE y # c
    <3>1. y \in A /\ y \in Things
      BY <1>3, <2>2
    <3>2. ASSUME y \in Closures, h.upval[y] # Nil PROVE ValueOf(g2, h.upval[y]) = ValueOf(h, h.upval[y])
      <4>1. h.upval[y] \in Upvals
        BY <1>3, <3>2, Fields
      <4>2. h.uv[h.upval[y]].open \in {Main, Nil}
        BY <1>3, <4>1, Fields
      <4>3. g2.slot[Main] = h.slot[Main]
        BY <1>5, <1>11
      <4>4. QED BY <1>10, <4>2, <4>3 DEF ValueOf
    <3>3. y \in Coroutines => g2.slot[y] = h.slot[y]
      BY <1>11, <2>2 DEF Threads
    <3>4. Holds(g2, y) = Holds(h, y)
      BY <1>10, <3>1, <3>2, <3>3, HoldsSame DEF Quiet
    <3>5. QED BY <1>3, <3>1, <3>4
  <2>3. QED BY <2>1, <2>2
<1>13. allocated(g2) = allocated(h) \cup {c}
  BY <1>7, <1>10 DEF allocated, Quiet
<1>14. \A y \in Things : AliveIn(h, y) => AliveIn(g2, y)
  BY <1>10, <1>13 DEF AliveIn
<1>15. \A y \in A2 \ A : AliveIn(g2, y)
  BY <1>13 DEF AliveIn
<1>16. RootsIn(g2, frames) \subseteq A2 \cup {Nil}
  <2>1. g2.slot[Main] = h.slot[Main]
    BY <1>5, <1>11
  <2>2. QED BY <1>4, <1>10, <2>1 DEF RootsIn
<1>17. Elements(g2.tmudata) \cup (Elements(g2.rootudata) \cap g2.unfinalized) \subseteq A2
  BY <1>4, <1>10 DEF Quiet
<1>18. \A t \in A2 \cap Tables : t \in A /\ g2.mode[t] = h.mode[t] /\ g2.node[t].key = h.node[t].key
  BY <1>10, Kinds
<1>19. A \subseteq A2 /\ A2 \subseteq Things
  BY <1>3, <1>5
<1>20. Safe(g2, RootsIn(g2, frames), A2)
  BY <1>3, <1>10, <1>12, <1>14, <1>15, <1>16, <1>17, <1>18, <1>19, SafeStep
<1>21. QED BY <1>1, <1>2, <1>10, <1>20, ProgramStep DEF g2, g1, gc

\* A userdata.
LEMMA NewUdataStep ==
    ASSUME IInv, luaS_newudata PROVE IInv'
<1>1. PICK u \in Udatas, t \in ({h.slot[Main]} \cap Tables) \cup {Nil} :
          /\ Runs /\ Free(u)
          /\ h' = Push([h EXCEPT !.meta[u] = t, !.unfinalized = @ \cup {u}, !.rootudata = <<u>> \o @], u)
          /\ calls' = [calls EXCEPT ![u] = 0]
          /\ late' = IF life = "closing" THEN late \cup {u} ELSE late \ {u}
          /\ steps' = steps + 1 /\ frames' = frames /\ life' = life /\ count' = count
  BY DEF luaS_newudata, Tick
<1> DEFINE A  == Kept(h, Roots(h))
           A2 == A \cup {u}
           ru == <<u>> \o h.rootudata
           g1 == [h EXCEPT !.meta[u] = t, !.unfinalized = h.unfinalized \cup {u}, !.rootudata = ru]
           g2 == [g1 EXCEPT !.top = u]
<1>2. h' = g2
  BY <1>1, Zenon DEF Push
<1>3. /\ h \in Heap /\ Safe(h, RootsIn(h, frames), A) /\ ListsOK(h) /\ life # "closed" /\ frames \in Seq(Frame)
      /\ A \subseteq Things /\ \A y \in A : Holds(h, y) \subseteq A /\ AliveIn(h, y)
  BY <1>1, AtStep
<1>4. /\ {h.top, h.slot[Main]} \subseteq A \cup {Nil} /\ RunIn(frames) \subseteq A
      /\ Elements(h.tmudata) \cup (Elements(h.rootudata) \cap h.unfinalized) \subseteq A
  BY <1>1, AtStep, InReachSafe
<1>5. u \in Objects /\ u \in Things
  BY DEF Things, Objects
<1>6. u \notin A
  BY <1>1, <1>5, FreeIs
<1> HIDE DEF A
<1>7. u \notin Elements(h.rootudata) /\ u \notin Elements(h.tmudata)
  BY <1>1 DEF Free, allocated
<1>8. ru \in Seq(Udatas) /\ Elements(ru) = {u} \cup Elements(h.rootudata) /\ Distinct(ru)
  <2>1. h.rootudata \in Seq(Udatas) /\ Distinct(h.rootudata)
    BY <1>3, Fields DEF ListsOK
  <2>2. QED BY <1>7, <2>1, ConsIs
<1> HIDE DEF ru
<1>9. t \in Tables \cup {Nil} /\ t \in A \cup {Nil}
  BY <1>4
<1>10. /\ g1 \in Heap /\ g1.rootgc = h.rootgc /\ g1.strt = h.strt /\ g1.uv = h.uv
       /\ g1.node = h.node /\ g1.mode = h.mode /\ g1.upval = h.upval /\ g1.top = h.top /\ g1.slot = h.slot
       /\ g1.meta = [h.meta EXCEPT ![u] = t] /\ g1.unfinalized = h.unfinalized \cup {u} /\ g1.rootudata = ru
       /\ g1.tmudata = h.tmudata /\ g1.marked = h.marked /\ g1.ok = h.ok
  BY <1>3, <1>8, <1>9 DEF Heap
<1> HIDE DEF g1
<1>11. /\ g2 \in Heap /\ g2.rootgc = h.rootgc /\ g2.strt = h.strt /\ g2.uv = h.uv
       /\ g2.node = h.node /\ g2.mode = h.mode /\ g2.upval = h.upval /\ g2.top = u /\ g2.slot = h.slot
       /\ g2.meta = [h.meta EXCEPT ![u] = t] /\ g2.unfinalized = h.unfinalized \cup {u} /\ g2.rootudata = ru
       /\ g2.tmudata = h.tmudata /\ g2.marked = h.marked /\ g2.ok = h.ok
  BY <1>5, <1>10 DEF Heap
<1> HIDE DEF g2
<1>12. \A x \in Udatas : g2.meta[x] = IF x = u THEN t ELSE h.meta[x]
  BY <1>3, <1>11, Fields
<1>13. ASSUME NEW y \in A2 PROVE Holds(g2, y) \subseteq A2
  <2>1. CASE y = u
    <3>1. Holds(g2, y) = {t} \ {Nil}
      BY <1>5, <1>12, <2>1, HoldsIs
    <3>2. QED BY <1>9, <3>1
  <2>2. CASE y # u
    <3>1. y \in A /\ y \in Things
      BY <1>3, <2>2
    <3>2. ValueOf(g2, h.upval[y]) = ValueOf(h, h.upval[y])
      BY <1>11 DEF ValueOf
    <3>3. y \in Udatas => g2.meta[y] = h.meta[y]
      BY <1>12, <2>2
    <3>4. Holds(g2, y) = Holds(h, y)
      BY <1>11, <3>1, <3>2, <3>3, HoldsSame
    <3>5. QED BY <1>3, <3>1, <3>4
  <2>3. QED BY <2>1, <2>2
<1>14. allocated(g2) = allocated(h) \cup {u}
  BY <1>8, <1>11 DEF allocated
<1>15. \A y \in Things : AliveIn(h, y) => AliveIn(g2, y)
  BY <1>11, <1>14 DEF AliveIn
<1>16. \A y \in A2 \ A : AliveIn(g2, y)
  BY <1>14 DEF AliveIn
<1>17. RootsIn(g2, frames) \subseteq A2 \cup {Nil}
  BY <1>4, <1>11 DEF RootsIn
<1>18. Elements(g2.tmudata) \cup (Elements(g2.rootudata) \cap g2.unfinalized) \subseteq A2
  BY <1>4, <1>8, <1>11
<1>19. \A x \in A2 \cap Tables : x \in A /\ g2.mode[x] = h.mode[x] /\ g2.node[x].key = h.node[x].key
  BY <1>11, Kinds
<1>20. A \subseteq A2 /\ A2 \subseteq Things
  BY <1>3, <1>5
<1>21. Safe(g2, RootsIn(g2, frames), A2)
  BY <1>3, <1>11, <1>13, <1>15, <1>16, <1>17, <1>18, <1>19, <1>20, SafeStep
<1>22. ListsOK(g2)
  BY <1>3, <1>7, <1>8, <1>11 DEF ListsOK
<1>23. TypeOK /\ CallsOK(h, calls, life = "closing", late) /\ h.ok
  BY DEF IInv
<1>24. TypeOK'
  <2>1. calls' \in [Udatas -> Nat] /\ late' \subseteq Udatas /\ steps' \in Nat /\ count' \in Nat
    BY <1>1, <1>23 DEF TypeOK
  <2>2. QED BY <1>1, <1>2, <1>11, <1>23, <2>1 DEF TypeOK
<1>25. calls' \in [Udatas -> Nat] /\ \A x \in Udatas : calls'[x] = IF x = u THEN 0 ELSE calls[x]
  BY <1>1, <1>23 DEF TypeOK
<1>26. Elements(h.rootudata) \subseteq Udatas /\ Elements(h.tmudata) \subseteq Udatas
  BY <1>3, Fields, ElementsIn
<1>27. CallsOK(g2, calls', life = "closing", late')
  <2>1. Elements(g2.tmudata) \subseteq g2.unfinalized
    BY <1>11, <1>23 DEF CallsOK
  <2>2. \A x \in Udatas : calls'[x] <= 1
    BY <1>23, <1>25 DEF CallsOK
  <2>3. \A x \in Elements(g2.rootudata) \cup Elements(g2.tmudata) : x \in g2.unfinalized => calls'[x] = 0
    BY <1>8, <1>11, <1>23, <1>25, <1>26 DEF CallsOK
  <2>4. \A x \in Elements(g2.rootudata) \ g2.unfinalized : calls'[x] = 1 \/ g2.meta[x] = Nil
    BY <1>8, <1>11, <1>12, <1>23, <1>25, <1>26 DEF CallsOK
  <2>5. life = "closing" => \A x \in Elements(g2.rootudata) \cap g2.unfinalized : g2.meta[x] = Nil \/ x \in late'
    <3>1. SUFFICES ASSUME life = "closing", NEW x \in Elements(g2.rootudata) \cap g2.unfinalized
                   PROVE  g2.meta[x] = Nil \/ x \in late'
      OBVIOUS
    <3>2. late' = late \cup {u}
      BY <1>1, <3>1
    <3>3. CASE x = u
      BY <3>2, <3>3
    <3>4. CASE x # u
      <4>1. x \in Elements(h.rootudata) \cap h.unfinalized
        BY <1>8, <1>11, <3>1, <3>4
      <4>2. h.meta[x] = Nil \/ x \in late
        BY <1>23, <3>1, <4>1 DEF CallsOK
      <4>3. QED BY <1>12, <1>26, <3>2, <3>4, <4>1, <4>2
    <3>5. QED BY <3>3, <3>4
  <2>6. QED BY <2>1, <2>2, <2>3, <2>4, <2>5 DEF CallsOK
<1>28. CallsOK(h', calls', life' = "closing", late') /\ h'.ok
  BY <1>1, <1>2, <1>11, <1>23, <1>27
<1>29. ListsOK(h') /\ Safe(h', RootsIn(h', frames'), A2)
  BY <1>1, <1>2, <1>21, <1>22
<1>30. QED BY <1>24, <1>28, <1>29, HoldsNext

\* The upvalues of the main thread.
LEMMA CloseIs ==
    ASSUME NEW g \in Heap
    PROVE  LET g1 == luaF_close(g, Main)
               gc == SetToSeq(OpenIn(g, Main)) \o g.rootgc
           IN /\ gc \in Seq(Things \ (Udatas \cup Strings)) /\ Elements(gc) = OpenIn(g, Main) \cup Elements(g.rootgc)
              /\ g1.uv \in [Upvals -> [open : {Main, Nil}, value : Objects \cup {Nil}]]
              /\ \A v \in Upvals : g1.uv[v] = IF g.uv[v].open = Main THEN [open |-> Nil, value |-> g.slot[Main]]
                                              ELSE g.uv[v]
              /\ g1 = [g EXCEPT !.uv = g1.uv] /\ g1 \in Heap
<1> DEFINE g1 == luaF_close(g, Main)
           gc == SetToSeq(OpenIn(g, Main)) \o g.rootgc
           uv == [v \in Upvals |-> IF g.uv[v].open = Main THEN [open |-> Nil, value |-> g.slot[Main]] ELSE g.uv[v]]
           X  == Things \ (Udatas \cup Strings)
<1>1. OpenIn(g, Main) \in SUBSET X /\ IsFiniteSet(OpenIn(g, Main))
  <2>1. OpenIn(g, Main) \subseteq Upvals /\ Upvals \subseteq X
    BY Kinds DEF OpenIn, Things
  <2>2. QED BY <2>1, Kinds, FS_Subset
<1>2. g.rootgc \in Seq(X)
  BY Fields
<1> HIDE DEF X
<1>3. SetToSeq(OpenIn(g, Main)) \in Seq(X) /\ Elements(SetToSeq(OpenIn(g, Main))) = OpenIn(g, Main)
  BY <1>1, SetToSeqIs
<1>4. gc \in Seq(X) /\ Elements(gc) = OpenIn(g, Main) \cup Elements(g.rootgc)
  BY <1>2, <1>3, ElementsConcat
<1>5. g1 = [g EXCEPT !.uv = uv]
  BY Zenon DEF luaF_close
<1>6. /\ uv \in [Upvals -> [open : {Main, Nil}, value : Objects \cup {Nil}]]
      /\ \A v \in Upvals : uv[v] = IF g.uv[v].open = Main THEN [open |-> Nil, value |-> g.slot[Main]] ELSE g.uv[v]
  <2>1. g.slot[Main] \in Objects \cup {Nil} /\ g.uv \in [Upvals -> [open : {Main, Nil}, value : Objects \cup {Nil}]]
    BY Fields DEF Threads
  <2>2. [open |-> Nil, value |-> g.slot[Main]] \in [open : {Main, Nil}, value : Objects \cup {Nil}]
    BY <2>1
  <2>3. QED BY <2>1, <2>2
<1> HIDE DEF uv, g1, gc
<1>7. g1.uv = uv /\ g1 \in Heap
  BY <1>5, <1>6 DEF Heap
<1>8. QED BY <1>4, <1>5, <1>6, <1>7 DEF gc, g1, X

\* The main thread's local variable goes out of scope: its upvalues take the value along,
\* and nothing else changes for what holds them.
Leaves(g, g2) ==
    /\ g2.slot = [g.slot EXCEPT ![Main] = Nil]
    /\ \A v \in Upvals : g2.uv[v] = IF g.uv[v].open = Main THEN [open |-> Nil, value |-> g.slot[Main]] ELSE g.uv[v]
    /\ OpenIn(g, Main) \cup allocated(g) \subseteq allocated(g2)
    /\ g2.node = g.node /\ g2.mode = g.mode /\ g2.upval = g.upval /\ g2.meta = g.meta

LEMMA LeavesSafe ==
    ASSUME NEW g \in Heap, NEW g2 \in Heap, Leaves(g, g2), NEW R, NEW R2, NEW A, Safe(g, R, A), R2 \subseteq A \cup {Nil},
           Elements(g2.tmudata) \cup (Elements(g2.rootudata) \cap g2.unfinalized) \subseteq A
    PROVE  Safe(g2, R2, A)
<1>1. A \subseteq Things /\ \A y \in A : Holds(g, y) \subseteq A
  BY DEF Safe, ClosedIn
<1>2. Main \in Threads /\ Nil # Main /\ Main \notin Coroutines
  BY Kinds DEF Threads, Things, Objects
<1>3. \A v \in Upvals : g.uv[v].open \in {Main, Nil} /\ ValueOf(g2, v) = ValueOf(g, v)
  <2>1. TAKE v \in Upvals
  <2>2. g.uv[v].open \in {Main, Nil}
    BY Fields
  <2>3. g2.uv[v] = IF g.uv[v].open = Main THEN [open |-> Nil, value |-> g.slot[Main]] ELSE g.uv[v]
    BY DEF Leaves
  <2>4. CASE g.uv[v].open = Main
    <3>1. g2.uv[v].open = Nil /\ g2.uv[v].value = g.slot[Main]
      BY <2>3, <2>4
    <3>2. QED BY <1>2, <2>4, <3>1 DEF ValueOf
  <2>5. CASE g.uv[v].open = Nil
    BY <1>2, <2>3, <2>5 DEF ValueOf
  <2>6. QED BY <2>2, <2>4, <2>5
<1>4. ASSUME NEW y \in A PROVE Holds(g2, y) \subseteq A
  <2>1. y \in Things
    BY <1>1
  <2>2. y \in Closures /\ g.upval[y] # Nil => ValueOf(g2, g.upval[y]) = ValueOf(g, g.upval[y])
    <3>1. y \in Closures /\ g.upval[y] # Nil => g.upval[y] \in Upvals
      BY Fields
    <3>2. QED BY <1>3, <3>1
  <2>3. y \in Coroutines => g2.slot[y] = g.slot[y]
    BY <1>2, Fields DEF Leaves, Threads
  <2>4. g2.node = g.node /\ g2.upval = g.upval /\ g2.meta = g.meta
    BY DEF Leaves
  <2>5. Holds(g2, y) = Holds(g, y)
    BY <2>1, <2>2, <2>3, <2>4, HoldsSame
  <2>6. QED BY <1>1, <2>5
<1>5. \A y \in Things : AliveIn(g, y) => AliveIn(g2, y)
  BY <1>3 DEF AliveIn, Leaves, OpenIn
<1>6. \A t \in A \cap Tables : t \in A /\ g2.mode[t] = g.mode[t] /\ g2.node[t].key = g.node[t].key
  BY DEF Leaves
<1>7. A \subseteq A /\ \A y \in A \ A : AliveIn(g2, y)
  OBVIOUS
<1>8. QED BY <1>1, <1>4, <1>5, <1>6, <1>7, SafeStep

\* The local variable goes out of scope.
LEMMA CloseStep ==
    ASSUME IInv, OP_CLOSE PROVE IInv'
<1> DEFINE A  == Kept(h, Roots(h))
           g1 == luaF_close(h, Main)
           gc == SetToSeq(OpenIn(h, Main)) \o h.rootgc
           g2 == [g1 EXCEPT !.rootgc = gc, !.slot[Main] = Nil]
<1>1. h \in Heap /\ Runs
  BY DEF OP_CLOSE, IInv, TypeOK
<1>2. /\ gc \in Seq(Things \ (Udatas \cup Strings)) /\ Elements(gc) = OpenIn(h, Main) \cup Elements(h.rootgc)
      /\ \A v \in Upvals : g1.uv[v] = IF h.uv[v].open = Main THEN [open |-> Nil, value |-> h.slot[Main]] ELSE h.uv[v]
      /\ g1 = [h EXCEPT !.uv = g1.uv] /\ g1 \in Heap
  BY <1>1, CloseIs
<1>3. g1.rootgc = h.rootgc
  <2> HIDE DEF g1
  <2>1. QED BY <1>1, <1>2 DEF Heap
<1>4. Step(g2)
  <2>1. Step([g1 EXCEPT !.rootgc = SetToSeq(OpenIn(h, Main)) \o @, !.slot[Main] = Nil])
    BY Zenon DEF OP_CLOSE
  <2> DEFINE l == SetToSeq(OpenIn(h, Main))
  <2> HIDE DEF g1, l
  <2>2. Step([g1 EXCEPT !.rootgc = l \o @, !.slot[Main] = Nil])
    BY <2>1 DEF l
  <2>3. [g1 EXCEPT !.rootgc = l \o @, !.slot[Main] = Nil] = [g1 EXCEPT !.rootgc = l \o h.rootgc, !.slot[Main] = Nil]
    BY <1>3
  <2>4. QED BY <2>2, <2>3 DEF l
<1>5. /\ Safe(h, RootsIn(h, frames), A) /\ Main \in Threads
  BY <1>1, AtStep
<1>6. /\ {h.top, h.slot[Main]} \subseteq A \cup {Nil} /\ RunIn(frames) \subseteq A
      /\ Elements(h.tmudata) \cup (Elements(h.rootudata) \cap h.unfinalized) \subseteq A
  BY <1>1, AtStep, InReachSafe
<1> HIDE DEF A, gc, g1
<1>7. /\ g1.rootudata = h.rootudata /\ g1.tmudata = h.tmudata /\ g1.unfinalized = h.unfinalized /\ g1.meta = h.meta
      /\ g1.marked = h.marked /\ g1.ok = h.ok /\ g1.strt = h.strt /\ g1.node = h.node /\ g1.mode = h.mode
      /\ g1.upval = h.upval /\ g1.top = h.top /\ g1.slot = h.slot
  BY <1>1, <1>2 DEF Heap
<1>8. /\ g2 \in Heap /\ g2.rootgc = gc /\ g2.slot = [h.slot EXCEPT ![Main] = Nil] /\ g2.uv = g1.uv
      /\ g2.rootudata = h.rootudata /\ g2.tmudata = h.tmudata /\ g2.unfinalized = h.unfinalized /\ g2.meta = h.meta
      /\ g2.marked = h.marked /\ g2.ok = h.ok /\ g2.strt = h.strt /\ g2.node = h.node /\ g2.mode = h.mode
      /\ g2.upval = h.upval /\ g2.top = h.top
  BY <1>2, <1>5, <1>7 DEF Heap
<1> HIDE DEF g2
<1>9. Quiet(h, g2)
  BY <1>8 DEF Quiet
<1>10. Leaves(h, g2)
  BY <1>2, <1>8 DEF Leaves, allocated
<1>11. RootsIn(g2, frames) \subseteq A \cup {Nil}
  <2>1. g2.slot[Main] = Nil
    BY <1>1, <1>5, <1>8, Fields
  <2>2. QED BY <1>6, <1>8, <2>1 DEF RootsIn
<1>12. Elements(g2.tmudata) \cup (Elements(g2.rootudata) \cap g2.unfinalized) \subseteq A
  BY <1>6, <1>8
<1>13. Safe(g2, RootsIn(g2, frames), A)
  BY <1>1, <1>5, <1>8, <1>10, <1>11, <1>12, LeavesSafe
<1>14. QED BY <1>1, <1>4, <1>8, <1>9, <1>13, ProgramStep DEF g2

\* A closure in the main thread.
LEMMA NewClosureStep ==
    ASSUME IInv, luaF_newLclosure, Capturing \subseteq {Main} PROVE IInv'
<1>1. PICK f \in Closures, v \in Upvals :
          /\ Runs /\ Free(f)
          /\ \/ h.uv[v].open = Main
             \/ OpenIn(h, Main) = {} /\ v \notin Elements(h.rootgc) /\ h.uv[v].open = Nil
          /\ Step(Push([h EXCEPT !.upval[f] = v, !.uv[v] = [open |-> Main, value |-> Nil], !.rootgc = <<f>> \o @], f))
  <2>1. PICK f \in Closures, th \in Capturing, v \in Upvals :
            /\ Runs /\ Free(f)
            /\ \/ h.uv[v].open = th
               \/ OpenIn(h, th) = {} /\ v \notin Elements(h.rootgc) /\ h.uv[v].open = Nil
            /\ Step(Push([h EXCEPT !.upval[f] = v, !.uv[v] = [open |-> th, value |-> Nil], !.rootgc = <<f>> \o @], f))
    BY DEF luaF_newLclosure
  <2>2. th = Main
    OBVIOUS
  <2>3. QED BY <2>1, <2>2
<1> DEFINE A  == Kept(h, Roots(h))
           A2 == A \cup {f, v}
           gc == <<f>> \o h.rootgc
           n  == [open |-> Main, value |-> Nil]
           g1 == [h EXCEPT !.upval[f] = v, !.uv[v] = n, !.rootgc = gc]
           g2 == [g1 EXCEPT !.top = f]
<1>2. Step(g2)
  BY <1>1, Zenon DEF Push
<1>3. /\ h \in Heap /\ Safe(h, RootsIn(h, frames), A)
      /\ A \subseteq Things /\ \A y \in A : Holds(h, y) \subseteq A /\ AliveIn(h, y)
  BY <1>1, AtStep
<1>4. /\ {h.top, h.slot[Main]} \subseteq A \cup {Nil} /\ RunIn(frames) \subseteq A
      /\ Elements(h.tmudata) \cup (Elements(h.rootudata) \cap h.unfinalized) \subseteq A
  BY <1>1, AtStep, InReachSafe
<1>5. f \in Objects /\ f \in Things \ (Udatas \cup Strings) /\ v \in Things /\ f # v /\ v \notin Closures /\ v # Nil
  BY Kinds DEF Things, Objects
<1>6. f \notin A
  BY <1>1, <1>5, FreeIs
<1> HIDE DEF A
<1>7. gc \in Seq(Things \ (Udatas \cup Strings)) /\ Elements(gc) = {f} \cup Elements(h.rootgc)
  <2>1. h.rootgc \in Seq(Things \ (Udatas \cup Strings))
    BY <1>3, Fields
  <2>2. QED BY <1>5, <2>1, ConsIs
<1>8. n \in [open : {Main, Nil}, value : Objects \cup {Nil}] /\ n.open = Main
  OBVIOUS
<1> HIDE DEF gc, n
<1>9. /\ g1 \in Heap /\ Quiet(h, g1) /\ g1.rootgc = gc /\ g1.strt = h.strt /\ g1.uv = [h.uv EXCEPT ![v] = n]
      /\ g1.node = h.node /\ g1.mode = h.mode /\ g1.upval = [h.upval EXCEPT ![f] = v] /\ g1.top = h.top
      /\ g1.slot = h.slot
  BY <1>3, <1>7, <1>8 DEF Heap, Quiet
<1> HIDE DEF g1
<1>10. /\ g2 \in Heap /\ Quiet(h, g2) /\ g2.rootgc = gc /\ g2.strt = h.strt /\ g2.uv = [h.uv EXCEPT ![v] = n]
       /\ g2.node = h.node /\ g2.mode = h.mode /\ g2.upval = [h.upval EXCEPT ![f] = v] /\ g2.top = f
       /\ g2.slot = h.slot
  BY <1>5, <1>9 DEF Heap, Quiet
<1> HIDE DEF g2
<1>11. /\ \A w \in Upvals : g2.uv[w] = IF w = v THEN n ELSE h.uv[w]
       /\ \A y \in Closures : g2.upval[y] = IF y = f THEN v ELSE h.upval[y]
  BY <1>3, <1>10, Fields
<1>12. v \in A => h.uv[v].open = Main
  <2>1. SUFFICES ASSUME v \in A, v \notin Elements(h.rootgc), h.uv[v].open = Nil PROVE FALSE
    BY <1>1
  <2>2. v \in allocated(h)
    BY <1>3, <2>1 DEF AliveIn
  <2>3. v \notin Udatas /\ v \notin Strings
    BY Kinds
  <2>4. QED BY <1>3, <1>5, <2>1, <2>2, <2>3, AllocatedIs
<1>13. ValueOf(g2, v) = h.slot[Main]
  <2>1. Nil # Main
    BY Kinds
  <2>2. g2.uv[v].open = Main
    BY <1>8, <1>11
  <2>3. QED BY <1>10, <2>1, <2>2 DEF ValueOf
<1>14. ASSUME NEW y \in A2 PROVE Holds(g2, y) \subseteq A2
  <2>1. CASE y = f
    <3>1. g2.upval[y] = v
      BY <1>11, <2>1
    <3>2. Holds(g2, y) = {v, h.slot[Main]} \ {Nil}
      BY <1>5, <1>13, <2>1, <3>1, HoldsIs
    <3>3. QED BY <1>4, <3>2
  <2>2. CASE y = v
    <3>1. Holds(g2, y) = {}
      BY <1>5, <2>2, HoldsIs
    <3>2. QED BY <3>1
  <2>3. CASE y # f /\ y # v
    <3>1. y \in A /\ y \in Things
      BY <1>3, <2>3
    <3>2. ASSUME y \in Closures, h.upval[y] # Nil PROVE ValueOf(g2, h.upval[y]) = ValueOf(h, h.upval[y])
      <4>1. h.upval[y] \in Upvals
        BY <1>3, <3>2, Fields
      <4>2. CASE h.upval[y] = v
        <5>1. v \in Holds(h, y)
          BY <1>5, <3>1, <3>2, <4>2, HoldsIs
        <5>2. h.uv[v].open = Main
          BY <1>3, <1>12, <3>1, <5>1
        <5>3. Nil # Main
          BY Kinds
        <5>4. QED BY <1>13, <4>2, <5>2, <5>3 DEF ValueOf
      <4>3. CASE h.upval[y] # v
        <5>1. g2.uv[h.upval[y]] = h.uv[h.upval[y]]
          BY <1>11, <4>1, <4>3
        <5>2. QED BY <1>10, <5>1 DEF ValueOf
      <4>4. QED BY <4>2, <4>3
    <3>3. y \in Closures => g2.upval[y] = h.upval[y]
      BY <1>11, <2>3
    <3>4. g2.node = h.node /\ g2.meta = h.meta /\ g2.slot = h.slot
      BY <1>10 DEF Quiet
    <3>5. Holds(g2, y) = Holds(h, y)
      BY <3>1, <3>2, <3>3, <3>4, HoldsSame
    <3>6. QED BY <1>3, <3>1, <3>5
  <2>4. QED BY <2>1, <2>2, <2>3
<1>15. allocated(g2) = allocated(h) \cup {f}
  BY <1>7, <1>10 DEF allocated, Quiet
<1>16. g2.uv[v].open # Nil
  BY <1>8, <1>11, Kinds
<1>17. \A y \in Things : AliveIn(h, y) => AliveIn(g2, y)
  BY <1>11, <1>15, <1>16 DEF AliveIn
<1>18. \A y \in A2 \ A : AliveIn(g2, y)
  BY <1>15, <1>16 DEF AliveIn
<1>19. RootsIn(g2, frames) \subseteq A2 \cup {Nil}
  BY <1>4, <1>10 DEF RootsIn
<1>20. Elements(g2.tmudata) \cup (Elements(g2.rootudata) \cap g2.unfinalized) \subseteq A2
  BY <1>4, <1>10 DEF Quiet
<1>21. \A t \in A2 \cap Tables : t \in A /\ g2.mode[t] = h.mode[t] /\ g2.node[t].key = h.node[t].key
  BY <1>10, Kinds
<1>22. A \subseteq A2 /\ A2 \subseteq Things
  BY <1>3, <1>5
<1>23. Safe(g2, RootsIn(g2, frames), A2)
  BY <1>3, <1>10, <1>14, <1>17, <1>18, <1>19, <1>20, <1>21, <1>22, SafeStep
<1>24. QED BY <1>1, <1>2, <1>10, <1>23, ProgramStep DEF g2, g1, gc, n

-----------------------------------------------------------------------------
(* The loop that calls tag methods.                                            *)

\* A step of the frames alone.
LEMMA FramesStep ==
    ASSUME IInv, life # "closed", h' = h, frames' \in Seq(Frame), RunIn(frames') \subseteq RunIn(frames),
           life' = life, calls' = calls, late' = late, count' = count, steps' = steps
    PROVE  IInv'
<1> DEFINE A == Kept(h, Roots(h))
<1>1. h \in Heap /\ Safe(h, RootsIn(h, frames), A) /\ steps \in Nat
  BY HaveSafe DEF IInv, TypeOK
<1> HIDE DEF A
<1>2. Start(h, RootsIn(h, frames')) \subseteq Start(h, RootsIn(h, frames))
  BY DEF Start, RootsIn
<1>3. Safe(h, RootsIn(h, frames'), A)
  BY <1>1, <1>2 DEF Safe
<1>4. Quiet(h, h)
  BY DEF Quiet
<1>5. QED BY <1>1, <1>3, <1>4, QuietStep

LEMMA ReturnsStep ==
    ASSUME IInv, Returns PROVE IInv'
<1>1. frames \in Seq(Frame) /\ frames # << >> /\ life # "closed"
  BY DEF IInv, TypeOK, Returns
<1>2. Len(frames) \in DOMAIN frames
  BY <1>1
<1>3. frames' \in Seq(Frame) /\ RunIn(frames') \subseteq {Nil} \cup RunIn(frames)
  BY <1>1, <1>2, FrameIs DEF Returns
<1>4. RunIn(frames') \subseteq RunIn(frames)
  BY <1>3 DEF RunIn
<1>5. QED BY <1>1, <1>3, <1>4, FramesStep DEF Returns

LEMMA LoopEndsStep ==
    ASSUME IInv, LoopEnds PROVE IInv'
<1>1. frames \in Seq(Frame) /\ frames # << >> /\ life # "closed"
  BY DEF IInv, TypeOK, LoopEnds, Between
<1>2. frames' \in Seq(Frame) /\ RunIn(frames') \subseteq RunIn(frames)
  BY <1>1, FrontIs DEF LoopEnds
<1>3. QED BY <1>1, <1>2, FramesStep DEF LoopEnds

LEMMA FailsStep ==
    ASSUME IInv, Fails PROVE IInv'
<1>1. frames \in Seq(Frame) /\ frames # << >> /\ life # "closed" /\ steps \in Nat
  BY DEF IInv, TypeOK, Fails
<1>2. CASE ~(life = "closing" /\ Len(frames) = 1)
  <2>1. frames' = SubSeq(frames, 1, Len(frames) - 1) /\ h' = h
    BY <1>2 DEF Fails
  <2>2. frames' \in Seq(Frame) /\ RunIn(frames') \subseteq RunIn(frames)
    BY <1>1, <2>1, FrontIs
  <2>3. QED BY <1>1, <2>1, <2>2, FramesStep DEF Fails
<1>3. CASE life = "closing" /\ Len(frames) = 1
  <2> DEFINE A  == Kept(h, Roots(h))
             g2 == [h EXCEPT !.top = Nil, !.slot[Main] = Nil]
  <2>1. h' = g2 /\ frames' = [frames EXCEPT ![1].udata = Nil]
    BY <1>3 DEF Fails
  <2>2. 1 \in DOMAIN frames
    BY <1>1
  <2>3. frames' \in Seq(Frame) /\ RunIn(frames') \subseteq {Nil} \cup RunIn(frames)
    BY <1>1, <2>1, <2>2, FrameIs
  <2>4. RunIn(frames') \subseteq RunIn(frames)
    BY <2>3 DEF RunIn
  <2>5. h \in Heap /\ Safe(h, RootsIn(h, frames), A) /\ Main \in Threads
    BY <1>1, HaveSafe DEF Threads
  <2>6. /\ {h.top, h.slot[Main]} \subseteq A \cup {Nil} /\ RunIn(frames) \subseteq A
        /\ Elements(h.tmudata) \cup (Elements(h.rootudata) \cap h.unfinalized) \subseteq A
    BY <1>1, InReachSafe
  <2> HIDE DEF A
  <2>7. A \subseteq Things /\ \A x \in A : Holds(h, x) \subseteq A /\ AliveIn(h, x)
    BY <2>5 DEF Safe, ClosedIn
  <2>8. /\ g2 \in Heap /\ Quiet(h, g2) /\ g2.rootgc = h.rootgc /\ g2.strt = h.strt /\ g2.uv = h.uv /\ g2.node = h.node
        /\ g2.mode = h.mode /\ g2.upval = h.upval /\ g2.top = Nil /\ g2.slot = [h.slot EXCEPT ![Main] = Nil]
    BY <2>5 DEF Heap, Quiet
  <2> HIDE DEF g2
  <2>9. /\ g2.slot[Main] = Nil /\ \A c \in Coroutines : g2.slot[c] = h.slot[c]
    BY <2>5, <2>8, Fields, Kinds DEF Threads, Things, Objects
  <2>10. ASSUME NEW x \in A PROVE Holds(g2, x) \subseteq A
    <3>1. x \in Things /\ Holds(h, x) \subseteq A
      BY <2>7
    <3>2. CASE x \in Closures
      <4>1. SUFFICES ASSUME h.upval[x] # Nil PROVE ValueOf(g2, h.upval[x]) \in A \cup {Nil} /\ h.upval[x] \in A
        BY <2>8, <3>1, <3>2, HoldsIs
      <4>2. Holds(h, x) = {h.upval[x], ValueOf(h, h.upval[x])} \ {Nil} /\ h.upval[x] \in Upvals
        BY <2>5, <3>1, <3>2, <4>1, HoldsIs, Fields
      <4>3. g2.uv[h.upval[x]].open \in {Main, Nil}
        BY <2>8, <4>2, Fields
      <4>4. ValueOf(g2, h.upval[x]) \in {Nil, ValueOf(h, h.upval[x])}
        BY <2>8, <2>9, <4>3 DEF ValueOf
      <4>5. QED BY <3>1, <4>1, <4>2, <4>4
    <3>3. CASE x \notin Closures
      <4>1. Holds(g2, x) = Holds(h, x)
        BY <2>8, <2>9, <3>1, <3>3, HoldsSame DEF Quiet
      <4>2. QED BY <3>1, <4>1
    <3>4. QED BY <3>2, <3>3
  <2>11. \A x \in Things : AliveIn(h, x) => AliveIn(g2, x)
    BY <2>8 DEF AliveIn, allocated, Quiet
  <2>12. RootsIn(g2, frames') \subseteq A \cup {Nil}
    BY <2>4, <2>6, <2>8, <2>9 DEF RootsIn
  <2>13. Elements(g2.tmudata) \cup (Elements(g2.rootudata) \cap g2.unfinalized) \subseteq A
    BY <2>6, <2>8 DEF Quiet
  <2>14. Safe(g2, RootsIn(g2, frames'), A)
    BY <2>5, <2>7, <2>8, <2>10, <2>11, <2>12, <2>13, SafeStep
  <2>15. life' = life /\ calls' = calls /\ late' = late /\ count' = count /\ steps' \in Nat
    BY <1>1 DEF Fails
  <2>16. QED BY <1>1, <2>1, <2>3, <2>8, <2>14, <2>15, QuietStep DEF g2
<1>4. QED BY <1>2, <1>3

\* Calling a tag method.
LEMMA CallTMStep ==
    ASSUME IInv, CallTM PROVE IInv'
<1> DEFINE A  == Kept(h, Roots(h))
           u  == Head(h.tmudata)
           tl == Tail(h.tmudata)
           ru == <<u>> \o h.rootudata
           g2 == [h EXCEPT !.tmudata = tl, !.rootudata = ru, !.marked = h.marked \ {u}, !.unfinalized = h.unfinalized \ {u}]
<1>1. TypeOK /\ frames \in Seq(Frame) /\ frames # << >> /\ life # "closed" /\ CallsOK(h, calls, life = "closing", late) /\ h.ok
  BY DEF IInv, TypeOK, CallTM, Between
<1>2. h' = g2 /\ h.tmudata # << >> /\ life' = life /\ late' = late /\ count' = count /\ steps' = steps
  BY DEF CallTM
<1>3. /\ h.meta[u] = Nil => frames' = frames /\ calls' = calls
      /\ h.meta[u] # Nil => /\ frames' = [frames EXCEPT ![Len(frames)].udata = u]
                            /\ calls' = [calls EXCEPT ![u] = calls[u] + 1]
  BY DEF CallTM
<1>4. h \in Heap /\ ListsOK(h) /\ Safe(h, RootsIn(h, frames), A)
  BY <1>1, HaveSafe
<1>5. /\ {h.top, h.slot[Main]} \subseteq A \cup {Nil} /\ RunIn(frames) \subseteq A
      /\ Elements(h.tmudata) \cup (Elements(h.rootudata) \cap h.unfinalized) \subseteq A
  BY <1>1, InReachSafe
<1> HIDE DEF A
<1>6. A \subseteq Things /\ \A x \in A : Holds(h, x) \subseteq A /\ AliveIn(h, x)
  BY <1>4 DEF Safe, ClosedIn
<1>7. /\ u \in Udatas /\ tl \in Seq(Udatas) /\ Elements(h.tmudata) = {u} \cup Elements(tl)
      /\ Distinct(tl) /\ u \notin Elements(tl)
  <2>1. h.tmudata \in Seq(Udatas) /\ Distinct(h.tmudata)
    BY <1>4, Fields DEF ListsOK
  <2>2. QED BY <1>2, <2>1, TailIs
<1> HIDE DEF u, tl
<1>8. Elements(h.rootudata) \cap Elements(h.tmudata) = {} /\ h.marked \subseteq Elements(h.tmudata) /\ Fixed \subseteq h.strt
  BY <1>4 DEF ListsOK
<1>9. ru \in Seq(Udatas) /\ Elements(ru) = {u} \cup Elements(h.rootudata) /\ Distinct(ru)
  <2>1. h.rootudata \in Seq(Udatas) /\ Distinct(h.rootudata) /\ u \notin Elements(h.rootudata)
    BY <1>4, <1>7, <1>8, Fields DEF ListsOK
  <2>2. QED BY <1>7, <2>1, ConsIs
<1> HIDE DEF ru
<1>10. /\ g2 \in Heap /\ g2.rootgc = h.rootgc /\ g2.strt = h.strt /\ g2.uv = h.uv
       /\ g2.node = h.node /\ g2.mode = h.mode /\ g2.upval = h.upval /\ g2.top = h.top /\ g2.slot = h.slot
       /\ g2.meta = h.meta /\ g2.unfinalized = h.unfinalized \ {u} /\ g2.rootudata = ru
       /\ g2.tmudata = tl /\ g2.marked = h.marked \ {u} /\ g2.ok = h.ok
  BY <1>4, <1>7, <1>9 DEF Heap
<1> HIDE DEF g2
<1>11. ListsOK(g2)
  BY <1>7, <1>8, <1>9, <1>10 DEF ListsOK
<1>12. frames' \in Seq(Frame) /\ RunIn(frames') \subseteq {u} \cup RunIn(frames)
  <2>1. CASE h.meta[u] = Nil
    BY <1>1, <1>3, <2>1
  <2>2. CASE h.meta[u] # Nil
    <3>1. Len(frames) \in DOMAIN frames
      BY <1>1
    <3>2. frames' = [frames EXCEPT ![Len(frames)].udata = u]
      BY <1>3, <2>2
    <3>3. u \in Udatas \cup {Nil} /\ frames \in Seq(Frame)
      BY <1>1, <1>7
    <3>4. QED BY <3>1, <3>2, <3>3, FrameIs
  <2>3. QED BY <2>1, <2>2
<1>13. calls \in [Udatas -> Nat]
  BY <1>1 DEF TypeOK
<1>14. /\ calls' \in [Udatas -> Nat] /\ \A x \in Udatas \ {u} : calls'[x] = calls[x]
       /\ h.meta[u] # Nil => calls'[u] = calls[u] + 1
       /\ h.meta[u] = Nil => calls'[u] = calls[u]
  <2>1. CASE h.meta[u] = Nil
    BY <1>3, <1>13, <2>1
  <2>2. CASE h.meta[u] # Nil
    <3>1. calls' = [calls EXCEPT ![u] = calls[u] + 1]
      BY <1>3, <2>2
    <3>2. u \in Udatas
      BY <1>7
    <3>3. QED BY <1>13, <2>2, <3>1, <3>2
  <2>3. QED BY <2>1, <2>2
<1>15. calls[u] = 0
  BY <1>1, <1>7 DEF CallsOK
<1>16. Elements(h.rootudata) \subseteq Udatas /\ Elements(tl) \subseteq Udatas
  BY <1>4, <1>7, Fields, ElementsIn
<1>17. CallsOK(g2, calls', life = "closing", late)
  <2>1. Elements(g2.tmudata) \subseteq g2.unfinalized
    BY <1>1, <1>7, <1>10 DEF CallsOK
  <2>2. \A x \in Udatas : calls'[x] <= 1
    <3>1. calls'[u] <= 1
      BY <1>14, <1>15
    <3>2. QED BY <1>1, <1>14, <3>1 DEF CallsOK
  <2>3. \A x \in Elements(g2.rootudata) \cup Elements(g2.tmudata) : x \in g2.unfinalized => calls'[x] = 0
    BY <1>1, <1>7, <1>9, <1>10, <1>14, <1>16 DEF CallsOK
  <2>4. \A x \in Elements(g2.rootudata) \ g2.unfinalized : calls'[x] = 1 \/ g2.meta[x] = Nil
    <3>1. TAKE x \in Elements(g2.rootudata) \ g2.unfinalized
    <3>2. CASE x = u
      BY <1>10, <1>14, <1>15, <3>2
    <3>3. CASE x # u
      <4>1. x \in Elements(h.rootudata) \ h.unfinalized
        BY <1>9, <1>10, <3>3
      <4>2. QED BY <1>1, <1>10, <1>14, <1>16, <3>3, <4>1 DEF CallsOK
    <3>4. QED BY <3>2, <3>3
  <2>5. life = "closing" => \A x \in Elements(g2.rootudata) \cap g2.unfinalized : g2.meta[x] = Nil \/ x \in late
    BY <1>1, <1>9, <1>10 DEF CallsOK
  <2>6. QED BY <2>1, <2>2, <2>3, <2>4, <2>5 DEF CallsOK
<1>18. ASSUME NEW x \in A PROVE Holds(g2, x) \subseteq A
  <2>1. ValueOf(g2, h.upval[x]) = ValueOf(h, h.upval[x])
    BY <1>10 DEF ValueOf
  <2>2. Holds(g2, x) = Holds(h, x)
    BY <1>6, <1>10, <2>1, HoldsSame
  <2>3. QED BY <1>6, <2>2
<1>19. allocated(g2) = allocated(h)
  BY <1>7, <1>9, <1>10 DEF allocated
<1>20. \A x \in Things : AliveIn(h, x) => AliveIn(g2, x)
  BY <1>10, <1>19 DEF AliveIn
<1>21. RootsIn(g2, frames') \subseteq A \cup {Nil}
  BY <1>5, <1>7, <1>10, <1>12 DEF RootsIn
<1>22. Elements(g2.tmudata) \cup (Elements(g2.rootudata) \cap g2.unfinalized) \subseteq A
  BY <1>5, <1>7, <1>9, <1>10
<1>23. Safe(g2, RootsIn(g2, frames'), A)
  BY <1>4, <1>6, <1>10, <1>18, <1>20, <1>21, <1>22, SafeStep
<1>24. TypeOK'
  BY <1>1, <1>2, <1>10, <1>12, <1>14 DEF TypeOK
<1>25. CallsOK(h', calls', life' = "closing", late') /\ h'.ok /\ ListsOK(h') /\ Safe(h', RootsIn(h', frames'), A)
  BY <1>1, <1>2, <1>10, <1>11, <1>17, <1>23
<1>26. QED BY <1>24, <1>25, HoldsNext

-----------------------------------------------------------------------------
(* Closing the state, and collecting.                                          *)

LEMMA CloseLuaStep ==
    ASSUME IInv, lua_close PROVE IInv'
<1> DEFINE A  == Kept(h, Roots(h))
           K  == h.marked
           g1 == luaF_close(h, Main)
           l  == SetToSeq(OpenIn(h, Main))
           s  == luaC_separateudata(g1, K)
           gc == l \o h.rootgc
           g2 == [s EXCEPT !.top = Nil, !.slot[Main] = Nil, !.rootgc = gc]
<1>1. TypeOK /\ CallsOK(h, calls, life = "closing", late) /\ h.ok /\ life # "closed" /\ Main \in Threads
  BY DEF lua_close, IInv, Threads
<1>2. h \in Heap /\ ListsOK(h) /\ Safe(h, RootsIn(h, frames), A)
  BY <1>1, HaveSafe
<1>3. /\ h' = [s EXCEPT !.top = Nil, !.slot[Main] = Nil, !.rootgc = l \o @]
      /\ life' = "closing" /\ frames' = <<[udata |-> Nil]>> /\ calls' = calls /\ late' = late /\ count' = count
      /\ steps' = steps
  BY Zenon DEF lua_close
<1>4. /\ gc \in Seq(Things \ (Udatas \cup Strings)) /\ Elements(gc) = OpenIn(h, Main) \cup Elements(h.rootgc)
      /\ \A v \in Upvals : g1.uv[v] = IF h.uv[v].open = Main THEN [open |-> Nil, value |-> h.slot[Main]] ELSE h.uv[v]
      /\ g1 = [h EXCEPT !.uv = g1.uv] /\ g1 \in Heap
  BY <1>2, CloseIs
<1>5. /\ Elements(h.tmudata) \cup (Elements(h.rootudata) \cap h.unfinalized) \subseteq A
  BY <1>1, InReachSafe
<1> HIDE DEF A, g1, l
<1>6. /\ g1.rootudata = h.rootudata /\ g1.tmudata = h.tmudata /\ g1.unfinalized = h.unfinalized /\ g1.meta = h.meta
      /\ g1.marked = h.marked /\ g1.ok = h.ok /\ g1.strt = h.strt /\ g1.node = h.node /\ g1.mode = h.mode
      /\ g1.upval = h.upval /\ g1.top = h.top /\ g1.slot = h.slot /\ g1.rootgc = h.rootgc
  BY <1>2, <1>4 DEF Heap
<1>7. ListsOK(g1) /\ allocated(g1) = allocated(h)
  BY <1>2, <1>6 DEF ListsOK, allocated
<1>8. /\ s \in Heap /\ Same(g1, s) /\ SetAside(g1, K, s) /\ s.node = g1.node /\ s.ok = g1.ok /\ s.bits = g1.bits
  BY <1>4, <1>7, Separated
<1> HIDE DEF s
<1>9. /\ s.mode = h.mode /\ s.meta = h.meta /\ s.slot = h.slot /\ s.upval = h.upval /\ s.uv = g1.uv
      /\ s.strt = h.strt /\ s.rootgc = h.rootgc /\ s.marked = h.marked /\ s.node = h.node /\ s.ok = h.ok
      /\ allocated(s) = allocated(h)
  BY <1>6, <1>7, <1>8 DEF Same
<1>10. h' = g2
  <2>1. [s EXCEPT !.top = Nil, !.slot[Main] = Nil, !.rootgc = l \o @]
            = [s EXCEPT !.top = Nil, !.slot[Main] = Nil, !.rootgc = l \o s.rootgc]
    OBVIOUS
  <2>2. QED BY <1>3, <1>9, <2>1
<1> HIDE DEF gc
<1>11. /\ g2 \in Heap /\ g2.rootgc = gc /\ g2.slot = [h.slot EXCEPT ![Main] = Nil] /\ g2.uv = g1.uv
       /\ g2.rootudata = s.rootudata /\ g2.tmudata = s.tmudata /\ g2.unfinalized = s.unfinalized /\ g2.meta = h.meta
       /\ g2.marked = h.marked /\ g2.ok = h.ok /\ g2.strt = h.strt /\ g2.node = h.node /\ g2.mode = h.mode
       /\ g2.upval = h.upval /\ g2.top = Nil
  BY <1>1, <1>4, <1>8, <1>9 DEF Heap
<1> HIDE DEF g2
<1> DEFINE dead == (Elements(h.rootudata) \cap h.unfinalized) \ K
           take == {u \in dead : h.meta[u] # Nil}
<1>12. /\ ListsOK(s) /\ Elements(s.rootudata) = Elements(h.rootudata) \ take
       /\ Elements(s.tmudata) = Elements(h.tmudata) \cup take
       /\ s.unfinalized = h.unfinalized \ (dead \ take)
  BY <1>6, <1>8 DEF SetAside
<1>13. ListsOK(g2)
  BY <1>9, <1>11, <1>12 DEF ListsOK
<1>14. Leaves(h, g2)
  <2>1. allocated(g2) = allocated(s) \cup OpenIn(h, Main)
    BY <1>4, <1>9, <1>11 DEF allocated
  <2>2. QED BY <1>4, <1>9, <1>11, <2>1 DEF Leaves
<1>15. frames' \in Seq(Frame) /\ RunIn(frames') = {}
  <2>1. [udata |-> Nil] \in Frame
    BY DEF Frame
  <2>2. frames' \in Seq(Frame) /\ DOMAIN frames' = {1} /\ frames'[1] = [udata |-> Nil]
    BY <1>3, <2>1
  <2>3. frames'[1].udata = Nil
    BY <2>2
  <2>4. QED BY <2>2, <2>3 DEF RunIn
<1>16. RootsIn(g2, frames') \subseteq A \cup {Nil}
  <2>1. g2.slot[Main] = Nil
    BY <1>1, <1>2, <1>11, Fields
  <2>2. QED BY <1>11, <1>15, <2>1 DEF RootsIn
<1>17. take \subseteq dead /\ dead \subseteq Elements(h.rootudata) \cap h.unfinalized
  OBVIOUS
<1>18. Elements(g2.tmudata) \cup (Elements(g2.rootudata) \cap g2.unfinalized) \subseteq A
  BY <1>5, <1>11, <1>12, <1>17
<1>19. Safe(g2, RootsIn(g2, frames'), A)
  BY <1>2, <1>11, <1>14, <1>16, <1>18, LeavesSafe
<1>20. Elements(h.rootudata) \cap Elements(h.tmudata) = {} /\ h.marked \subseteq Elements(h.tmudata)
  BY <1>2 DEF ListsOK
<1>21. CallsOK(g2, calls, TRUE, late)
  <2>1. Elements(g2.tmudata) \subseteq g2.unfinalized
    <3>1. Elements(h.tmudata) \subseteq h.unfinalized
      BY <1>1 DEF CallsOK
    <3>2. QED BY <1>11, <1>12, <1>17, <1>20, <3>1
  <2>2. \A x \in Udatas : calls[x] <= 1
    BY <1>1 DEF CallsOK
  <2>3. \A x \in Elements(g2.rootudata) \cup Elements(g2.tmudata) : x \in g2.unfinalized => calls[x] = 0
    <3>1. \A x \in Elements(h.rootudata) \cup Elements(h.tmudata) : x \in h.unfinalized => calls[x] = 0
      BY <1>1 DEF CallsOK
    <3>2. QED BY <1>11, <1>12, <1>17, <3>1
  <2>4. \A x \in Elements(g2.rootudata) \ g2.unfinalized : calls[x] = 1 \/ g2.meta[x] = Nil
    <3>1. \A x \in Elements(h.rootudata) \ h.unfinalized : calls[x] = 1 \/ h.meta[x] = Nil
      BY <1>1 DEF CallsOK
    <3>2. QED BY <1>11, <1>12, <1>17, <3>1
  <2>5. \A x \in Elements(g2.rootudata) \cap g2.unfinalized : g2.meta[x] = Nil \/ x \in late
    <3>1. TAKE x \in Elements(g2.rootudata) \cap g2.unfinalized
    <3>2. x \in Elements(h.rootudata) /\ x \in h.unfinalized /\ x \notin take /\ x \notin dead \ take
      BY <1>11, <1>12
    <3>3. x \notin K
      BY <1>20, <3>2
    <3>4. QED BY <3>2, <3>3
  <2>6. QED BY <2>1, <2>2, <2>3, <2>4, <2>5 DEF CallsOK
<1>22. TypeOK'
  BY <1>1, <1>3, <1>10, <1>11, <1>15 DEF TypeOK
<1>23. CallsOK(h', calls', life' = "closing", late') /\ h'.ok /\ ListsOK(h') /\ Safe(h', RootsIn(h', frames'), A)
  <2>1. (life' = "closing") = TRUE
    BY <1>3
  <2>2. CallsOK(h', calls', TRUE, late') /\ h'.ok
    BY <1>1, <1>3, <1>10, <1>11, <1>21
  <2>3. QED BY <1>10, <1>13, <1>19, <2>1, <2>2
<1>24. QED BY <1>22, <1>23, HoldsNext

LEMMA CloseStateStep ==
    ASSUME IInv, close_state PROVE IInv'
<1> DEFINE g2 == [h EXCEPT !.rootgc = << >>, !.rootudata = << >>, !.strt = {}, !.slot[Main] = Nil, !.top = Nil]
<1>1. TypeOK /\ CallsOK(h, calls, life = "closing", late) /\ h.ok /\ h \in Heap /\ Main \in Threads
  BY DEF IInv, TypeOK, Threads
<1>2. h' = g2 /\ h.tmudata = << >> /\ life' = "closed" /\ frames' = << >> /\ calls' = calls /\ late' = late
      /\ count' = count /\ steps' = steps
  BY DEF close_state
<1>3. /\ << >> \in Seq(Things \ (Udatas \cup Strings)) /\ << >> \in Seq(Udatas) /\ << >> \in Seq(Frame)
      /\ Elements(<< >>) = {}
  <2>1. DOMAIN << >> = {}
    OBVIOUS
  <2>2. QED BY <2>1 DEF Elements
<1>4. /\ g2 \in Heap /\ g2.rootudata = << >> /\ g2.tmudata = << >> /\ g2.unfinalized = h.unfinalized /\ g2.ok = h.ok
  BY <1>1, <1>2, <1>3 DEF Heap
<1> HIDE DEF g2
<1>5. CallsOK(g2, calls, FALSE, late)
  BY <1>1, <1>3, <1>4 DEF CallsOK
<1>6. TypeOK'
  BY <1>1, <1>2, <1>3, <1>4 DEF TypeOK
<1>7. CallsOK(h', calls', life' = "closing", late') /\ h'.ok /\ life' = "closed"
  <2>1. (life' = "closing") = FALSE
    BY <1>2
  <2>2. CallsOK(h', calls', FALSE, late') /\ h'.ok
    BY <1>1, <1>2, <1>4, <1>5
  <2>3. QED BY <1>2, <2>1, <2>2
<1>8. QED BY <1>6, <1>7, HoldsNext

LEMMA CollectStep ==
    ASSUME IInv, luaC_collectgarbage PROVE IInv'
<1> DEFINE A  == Kept(h, Roots(h))
           R  == Roots(h)
           g2 == luaC_sweep(mark(h))
<1>1. Runs /\ TypeOK /\ CallsOK(h, calls, life = "closing", late) /\ h.ok
  BY DEF luaC_collectgarbage, IInv
<1>2. /\ life # "closed" /\ h \in Heap /\ ListsOK(h) /\ frames \in Seq(Frame)
      /\ Safe(h, RootsIn(h, frames), A) /\ R = RootsIn(h, frames) /\ R \in SUBSET (Objects \cup {Nil})
  BY <1>1, AtStep, HaveSafe
<1>3. /\ h' = g2 /\ frames' = (IF g2.tmudata = << >> THEN frames ELSE Append(frames, [udata |-> Nil]))
      /\ count' = count + 1 /\ life' = life /\ calls' = calls /\ late' = late /\ steps' = steps
  BY Zenon DEF luaC_collectgarbage
<1>4. PICK met1, K, met, gf, m : Collected(h, R, met1, K, met, gf, m, g2)
  BY <1>2, CollectionIs
<1>5. R = {h.top, h.slot[Main]} \cup Running
  BY DEF Roots
<1> HIDE DEF A, R, g2
<1>6. g2 \in Heap /\ ListsOK(g2)
  BY <1>2, <1>4, CollectLists DEF Collected
<1>7. CallsOK(g2, calls, life = "closing", late)
  BY <1>1, <1>2, <1>4, CollectCalls
<1>8. Safe(h, R, A)
  BY <1>2
<1>9. g2.ok /\ \E A2 : Safe(g2, R, A2)
  BY <1>1, <1>2, <1>4, <1>5, <1>8, CollectSafe
<1>10. frames' \in Seq(Frame) /\ RunIn(frames') = RunIn(frames)
  <2>1. CASE frames' = frames
    BY <1>2, <2>1
  <2>2. CASE frames' = Append(frames, [udata |-> Nil])
    <3>1. [udata |-> Nil] \in Frame /\ [udata |-> Nil].udata = Nil
      BY DEF Frame
    <3> DEFINE f2 == Append(frames, [udata |-> Nil])
    <3>2. /\ f2 \in Seq(Frame) /\ Len(frames) \in Nat /\ DOMAIN frames = 1..Len(frames)
          /\ DOMAIN f2 = 1..(Len(frames) + 1)
          /\ f2[Len(frames) + 1] = [udata |-> Nil] /\ \A i \in 1..Len(frames) : f2[i] = frames[i]
      BY <1>2, <3>1
    <3> HIDE DEF f2
    <3>3. \A i \in DOMAIN f2 : i \in DOMAIN frames \/ i = Len(frames) + 1
      BY <3>2
    <3>4. \A i \in DOMAIN frames : i \in DOMAIN f2 /\ f2[i] = frames[i]
      BY <3>2
    <3>5. RunIn(f2) = RunIn(frames)
      BY <3>1, <3>2, <3>3, <3>4 DEF RunIn
    <3>6. QED BY <2>2, <3>2, <3>5 DEF f2
  <2>3. QED BY <1>3, <2>1, <2>2
<1>11. RootsIn(g2, frames') = R
  <2>1. g2.top = h.top /\ g2.slot = h.slot
    BY <1>4 DEF Collected, Marked, Same, Swept
  <2>2. QED BY <1>2, <1>10, <2>1 DEF RootsIn
<1>12. TypeOK'
  BY <1>1, <1>2, <1>3, <1>6, <1>10 DEF TypeOK
<1>13. CallsOK(h', calls', life' = "closing", late') /\ h'.ok /\ ListsOK(h') /\ \E A2 : Safe(h', RootsIn(h', frames'), A2)
  BY <1>3, <1>6, <1>7, <1>9, <1>11
<1>14. QED BY <1>12, <1>13, HoldsNext

-----------------------------------------------------------------------------
(* The invariant.                                                              *)

LEMMA InitIs == Init => IInv
<1> SUFFICES ASSUME Init PROVE IInv
  OBVIOUS
<1>1. /\ h = [node |-> [t \in Tables |-> [key |-> Nil, val |-> Nil]], mode |-> [t \in Tables |-> {}],
              bits |-> [t \in Tables |-> {}], meta |-> [u \in Udatas |-> Nil], unfinalized |-> {},
              slot |-> [th \in Threads |-> Nil], upval |-> [f \in Closures |-> Nil],
              uv |-> [v \in Upvals |-> [open |-> Nil, value |-> Nil]], top |-> Nil, strt |-> Fixed,
              rootgc |-> << >>, rootudata |-> << >>, tmudata |-> << >>, marked |-> {}, ok |-> TRUE]
      /\ frames = << >> /\ life = "open" /\ calls = [u \in Udatas |-> 0] /\ late = {} /\ count = 0 /\ steps = 0
  BY DEF Init
<1>2. /\ [t \in Tables |-> [key |-> Nil, val |-> Nil]] \in [Tables -> Node]
      /\ [t \in Tables |-> {}] \in [Tables -> SUBSET {"k", "v"}]
      /\ [u \in Udatas |-> Nil] \in [Udatas -> Tables \cup {Nil}]
      /\ [th \in Threads |-> Nil] \in [Threads -> Objects \cup {Nil}]
      /\ [f \in Closures |-> Nil] \in [Closures -> Upvals \cup {Nil}]
      /\ [v \in Upvals |-> [open |-> Nil, value |-> Nil]]
             \in [Upvals -> [open : {Main, Nil}, value : Objects \cup {Nil}]]
      /\ Fixed \subseteq Strings
  BY HeapConstants DEF Node
<1>3. /\ << >> \in Seq(Things \ (Udatas \cup Strings)) /\ << >> \in Seq(Udatas) /\ << >> \in Seq(Frame)
      /\ DOMAIN << >> = {}
  OBVIOUS
<1>4. h \in Heap
  BY <1>1, <1>2, <1>3 DEF Heap
<1>5. /\ h.rootudata = << >> /\ h.tmudata = << >> /\ h.marked = {} /\ h.ok = TRUE /\ h.strt = Fixed
      /\ h.top = Nil /\ h.slot[Main] = Nil
  BY <1>1 DEF Threads
<1>6. Elements(h.rootudata) = {} /\ Elements(h.tmudata) = {}
  BY <1>3, <1>5 DEF Elements
<1>7. TypeOK
  <2>1. calls \in [Udatas -> Nat]
    BY <1>1
  <2>2. QED BY <1>1, <1>3, <1>4, <2>1 DEF TypeOK
<1>8. CallsOK(h, calls, life = "closing", late)
  BY <1>1, <1>6 DEF CallsOK
<1>9. ListsOK(h)
  BY <1>3, <1>5, <1>6 DEF ListsOK, Distinct
<1>10. RootsIn(h, frames) = {Nil} /\ Roots(h) = RootsIn(h, frames)
  <2>1. RunIn(frames) = {}
    BY <1>1, <1>3 DEF RunIn
  <2>2. QED BY <1>5, <2>1 DEF RootsIn, Roots, Running, RunIn
<1>11. Safe(h, RootsIn(h, frames), {})
  <2>1. Start(h, RootsIn(h, frames)) = {}
    BY <1>6, <1>10 DEF Start
  <2>2. QED BY <2>1 DEF Safe, ClosedIn, KeysKept
<1>12. KeptOK(h, Roots(h))
  BY <1>4, <1>10, <1>11, SafeIs
<1>13. QED BY <1>5, <1>7, <1>8, <1>9, <1>12 DEF IInv

LEMMA StutterStep ==
    ASSUME IInv, UNCHANGED vars PROVE IInv'
<1>1. h' = h /\ frames' = frames /\ life' = life /\ calls' = calls /\ late' = late /\ count' = count /\ steps' = steps
  BY DEF vars
<1>2. TypeOK /\ CallsOK(h, calls, life = "closing", late) /\ h.ok
  BY DEF IInv
<1>3. TypeOK'
  BY <1>1, <1>2 DEF TypeOK
<1>4. life # "closed" => ListsOK(h) /\ \E A : Safe(h, RootsIn(h, frames), A)
  BY HaveSafe
<1>5. CallsOK(h', calls', life' = "closing", late') /\ h'.ok
  BY <1>1, <1>2
<1>6. life' # "closed" => ListsOK(h') /\ \E A : Safe(h', RootsIn(h', frames'), A)
  BY <1>1, <1>4
<1>7. QED BY <1>3, <1>5, <1>6, HoldsNext

LEMMA NextStep ==
    ASSUME Capturing \subseteq {Main}, LateModes = FALSE
    PROVE  IInv /\ [Next]_vars => IInv'
<1> SUFFICES ASSUME IInv, [Next]_vars PROVE IInv'
  OBVIOUS
<1>1. CASE luaC_collectgarbage
  BY <1>1, CollectStep
<1>2. CASE CallTM
  BY <1>2, CallTMStep
<1>3. CASE Returns
  BY <1>3, ReturnsStep
<1>4. CASE Fails
  BY <1>4, FailsStep
<1>5. CASE LoopEnds
  BY <1>5, LoopEndsStep
<1>6. CASE lua_close
  BY <1>6, CloseLuaStep
<1>7. CASE close_state
  BY <1>7, CloseStateStep
<1>8. CASE luaH_new
  BY <1>8, NewTableStep
<1>9. CASE luaS_newudata
  BY <1>9, NewUdataStep
<1>10. CASE luaS_newlstr
  BY <1>10, NewStringStep
<1>11. CASE luaE_newthread
  BY <1>11, NewThreadStep
<1>12. CASE luaF_newLclosure
  BY <1>12, NewClosureStep
<1>13. CASE OP_CLOSE
  BY <1>13, CloseStep
<1>14. CASE Store
  BY <1>14, StoreStep
<1>15. CASE lua_setmetatable
  BY <1>15, SetModeStep
<1>16. CASE Assign
  BY <1>16, AssignStep
<1>17. CASE Load
  BY <1>17, LoadStep
<1>18. CASE UNCHANGED vars
  BY <1>18, StutterStep
<1>19. QED
  BY <1>1, <1>2, <1>3, <1>4, <1>5, <1>6, <1>7, <1>8, <1>9, <1>10, <1>11, <1>12, <1>13, <1>14, <1>15, <1>16, <1>17,
     <1>18 DEF Next

\* What has to be true of the heap stays true, in programs whose closures capture local
\* variables of the main thread, and whose weak tables are weak before they have a field.
THEOREM InvariantHolds ==
    ASSUME Capturing \subseteq {Main}, LateModes = FALSE
    PROVE  Spec => []IInv
<1>1. Init => IInv
  BY InitIs
<1>2. IInv /\ [Next]_vars => IInv'
  BY NextStep
<1>3. QED BY <1>1, <1>2, PTL DEF Spec

-----------------------------------------------------------------------------
(* What it implies.                                                            *)

\* Nothing is freed that the program, or a tag method that is still to be called, can
\* come to: mark, luaC_sweep and luaC_separateudata, whatever tag methods do between.
THEOREM ReachableIsAliveHolds ==
    ASSUME Capturing \subseteq {Main}, LateModes = FALSE
    PROVE  Spec => []ReachableIsAlive
<1>1. IInv => ReachableIsAlive
  <2>1. SUFFICES ASSUME IInv, life # "closed", NEW x \in Reachable PROVE Alive(x)
    BY DEF ReachableIsAlive
  <2> DEFINE A == Kept(h, Roots(h))
  <2>2. h \in Heap /\ Roots(h) = RootsIn(h, frames) /\ RootsIn(h, frames) \in SUBSET (Objects \cup {Nil})
        /\ Safe(h, RootsIn(h, frames), A)
    BY <2>1, HaveSafe
  <2> HIDE DEF A
  <2>3. ClosedIn(h, A) /\ Start(h, Roots(h)) \subseteq A /\ \A y \in A : AliveIn(h, y)
    BY <2>2 DEF Safe
  <2> DEFINE S == (Roots(h) \cup Elements(h.tmudata)) \ {Nil}
  <2>4. S \subseteq A
    BY <2>3 DEF Start
  <2>5. S \in SUBSET Things
    BY <2>3, <2>4 DEF ClosedIn
  <2> HIDE DEF S
  <2>6. Closed(h, S) \subseteq A
    BY <2>2, <2>3, <2>4, <2>5, ClosedIs
  <2>7. x \in A
    BY <2>1, <2>6 DEF Reachable, S
  <2>8. QED BY <2>3, <2>7 DEF Alive, AliveIn
<1>2. Spec => []IInv
  BY InvariantHolds
<1>3. QED BY <1>1, <1>2, PTL

\* The collector never looks at an object that was freed, although keys of cleared nodes
\* stay in them (removekey, cleartablekeys and cleartablevalues of lgc.c).
THEOREM SeesAllocatedHolds ==
    ASSUME Capturing \subseteq {Main}, LateModes = FALSE
    PROVE  Spec => []SeesAllocated
<1>1. IInv => SeesAllocated
  BY DEF IInv, SeesAllocated
<1>2. Spec => []IInv
  BY InvariantHolds
<1>3. QED BY <1>1, <1>2, PTL

\* The gc tag method of a userdata is called at most once (luaC_callGCTM), also when it
\* fails, when it stores the userdata again, and when the state is closed.
THEOREM CalledOnceHolds ==
    ASSUME Capturing \subseteq {Main}, LateModes = FALSE
    PROVE  Spec => []CalledOnce
<1>1. IInv => CalledOnce
  BY DEF IInv, CallsOK, CalledOnce
<1>2. Spec => []IInv
  BY InvariantHolds
<1>3. QED BY <1>1, <1>2, PTL

-----------------------------------------------------------------------------
(* What a step frees, and sets aside.                                          *)

\* In a step that neither collects nor closes the state, userdata stay allocated, and none
\* is set aside.
Untouched(g, g2) ==
    /\ Elements(g.rootudata) \cup Elements(g.tmudata) \subseteq Elements(g2.rootudata) \cup Elements(g2.tmudata)
    /\ Elements(g2.tmudata) \subseteq Elements(g.tmudata)

LEMMA UdataStay ==
    ASSUME IInv, [Next]_vars, ~luaC_collectgarbage, ~lua_close, ~close_state
    PROVE  Untouched(h, h') /\ count' = count
<1>1. h \in Heap
  BY DEF IInv, TypeOK
<1>2. CASE Returns \/ LoopEnds \/ UNCHANGED vars
  <2>1. h' = h /\ count' = count
    BY <1>2 DEF Returns, LoopEnds, vars
  <2>2. QED BY <2>1 DEF Untouched
<1>3. CASE Fails
  <2>1. h'.rootudata = h.rootudata /\ h'.tmudata = h.tmudata /\ count' = count
    BY <1>1, <1>3 DEF Fails, Heap
  <2>2. QED BY <2>1 DEF Untouched
<1>4. CASE CallTM
  <2> DEFINE u == Head(h.tmudata)
             t == Tail(h.tmudata)
             r == <<u>> \o h.rootudata
  <2>1. h.tmudata # << >> /\ count' = count
        /\ h' = [h EXCEPT !.tmudata = t, !.rootudata = r, !.marked = h.marked \ {u}, !.unfinalized = h.unfinalized \ {u}]
    BY <1>4 DEF CallTM
  <2>2. u \in Udatas /\ t \in Seq(Udatas) /\ Elements(h.tmudata) = {u} \cup Elements(t)
    BY <1>1, <2>1, Fields, TailIs
  <2> HIDE DEF u, t
  <2>3. Elements(r) = {u} \cup Elements(h.rootudata)
    BY <1>1, <2>2, Fields, ConsIs
  <2> HIDE DEF r
  <2>4. h'.tmudata = t /\ h'.rootudata = r
    BY <1>1, <2>1 DEF Heap
  <2>5. QED BY <2>1, <2>2, <2>3, <2>4 DEF Untouched
<1>5. CASE luaS_newudata
  <2>1. PICK u \in Udatas, t \in ({h.slot[Main]} \cap Tables) \cup {Nil} :
            /\ h' = Push([h EXCEPT !.meta[u] = t, !.unfinalized = @ \cup {u}, !.rootudata = <<u>> \o @], u)
            /\ count' = count
    BY <1>5 DEF luaS_newudata
  <2> DEFINE r == <<u>> \o h.rootudata
  <2>2. Elements(r) = {u} \cup Elements(h.rootudata)
    BY <1>1, Fields, ConsIs
  <2>3. h' = [[h EXCEPT !.meta[u] = t, !.unfinalized = h.unfinalized \cup {u}, !.rootudata = r] EXCEPT !.top = u]
    BY <2>1 DEF Push
  <2> HIDE DEF r
  <2>4. h'.tmudata = h.tmudata /\ h'.rootudata = r
    BY <1>1, <2>3 DEF Heap
  <2>5. QED BY <2>1, <2>2, <2>4 DEF Untouched
<1>6. CASE luaH_new
  <2>1. h'.rootudata = h.rootudata /\ h'.tmudata = h.tmudata /\ count' = count
    BY <1>1, <1>6 DEF luaH_new, Step, Push, Heap
  <2>2. QED BY <2>1 DEF Untouched
<1>7. CASE luaS_newlstr \/ luaE_newthread \/ Load
  <2>1. h'.rootudata = h.rootudata /\ h'.tmudata = h.tmudata /\ count' = count
    BY <1>1, <1>7 DEF luaS_newlstr, luaE_newthread, Load, Step, Push, Heap
  <2>2. QED BY <2>1 DEF Untouched
<1>8. CASE luaF_newLclosure
  <2>1. h'.rootudata = h.rootudata /\ h'.tmudata = h.tmudata /\ count' = count
    BY <1>1, <1>8 DEF luaF_newLclosure, Step, Push, Heap
  <2>2. QED BY <2>1 DEF Untouched
<1>9. CASE OP_CLOSE
  <2>1. h'.rootudata = h.rootudata /\ h'.tmudata = h.tmudata /\ count' = count
    BY <1>1, <1>9 DEF OP_CLOSE, Step, luaF_close, Heap
  <2>2. QED BY <2>1 DEF Untouched
<1>10. CASE Store \/ lua_setmetatable \/ Assign
  <2>1. h'.rootudata = h.rootudata /\ h'.tmudata = h.tmudata /\ count' = count
    BY <1>1, <1>10 DEF Store, lua_setmetatable, Assign, Step, Heap
  <2>2. QED BY <2>1 DEF Untouched
<1>11. QED
  BY <1>2, <1>3, <1>4, <1>5, <1>6, <1>7, <1>8, <1>9, <1>10 DEF Next

\* Closing the state does not free userdata before their tag methods are called.
LEMMA CloseLuaStays ==
    ASSUME IInv, lua_close
    PROVE  /\ Elements(h.rootudata) \cup Elements(h.tmudata) \subseteq Elements(h'.rootudata) \cup Elements(h'.tmudata)
           /\ life' = "closing" /\ count' = count
<1> DEFINE g1 == luaF_close(h, Main)
           l  == SetToSeq(OpenIn(h, Main))
           s  == luaC_separateudata(g1, h.marked)
<1>1. life # "closed" /\ life' = "closing" /\ count' = count
      /\ h' = [s EXCEPT !.top = Nil, !.slot[Main] = Nil, !.rootgc = l \o @]
  BY Zenon DEF lua_close
<1>2. h \in Heap /\ ListsOK(h)
  BY <1>1, HaveSafe
<1>3. g1 = [h EXCEPT !.uv = g1.uv] /\ g1 \in Heap
  BY <1>2, CloseIs
<1> HIDE DEF g1, l
<1>4. g1.rootudata = h.rootudata /\ g1.tmudata = h.tmudata /\ g1.marked = h.marked /\ g1.strt = h.strt
  BY <1>2, <1>3 DEF Heap
<1>5. ListsOK(g1)
  BY <1>2, <1>4 DEF ListsOK
<1>6. s \in Heap /\ SetAside(g1, h.marked, s)
  BY <1>3, <1>5, Separated
<1> HIDE DEF s
<1>7. h'.rootudata = s.rootudata /\ h'.tmudata = s.tmudata
  BY <1>1, <1>6 DEF Heap
<1>8. QED BY <1>1, <1>4, <1>6, <1>7 DEF SetAside

\* What a collection is.
LEMMA CollectIs ==
    ASSUME IInv, luaC_collectgarbage
    PROVE  /\ h \in Heap /\ ListsOK(h) /\ life' = life /\ Roots(h) \in SUBSET (Objects \cup {Nil})
           /\ h' \in Heap /\ \E met1, K, met, gf, m : Collected(h, Roots(h), met1, K, met, gf, m, h')
<1>1. Runs
  BY DEF luaC_collectgarbage
<1>2. h \in Heap /\ ListsOK(h) /\ Roots(h) \in SUBSET (Objects \cup {Nil})
  BY <1>1, AtStep, HaveSafe
<1>3. h' = luaC_sweep(mark(h)) /\ life' = life
  BY Zenon DEF luaC_collectgarbage
<1>4. \E met1, K, met, gf, m : Collected(h, Roots(h), met1, K, met, gf, m, h')
  BY <1>2, <1>3, CollectionIs
<1>5. QED BY <1>2, <1>3, <1>4 DEF Collected

\* A userdata is freed when its gc tag method has been called, unless it has none, or was
\* made by a tag method while the state was being closed (luaC_separateudata, luaC_sweep,
\* lua_close).
THEOREM FreedAfterCallHolds ==
    ASSUME Capturing \subseteq {Main}, LateModes = FALSE
    PROVE  Spec => FreedAfterCall
<1> DEFINE Stated == \A u \in Udatas : u \in allocated(h) /\ u \notin allocated(h)' =>
                         calls[u] = 1 \/ h.meta[u] = Nil \/ u \in late
<1>1. IInv /\ IInv' /\ [Next]_vars => [Stated]_vars
  <2>1. SUFFICES ASSUME IInv, IInv', [Next]_vars, NEW u \in Udatas, u \in allocated(h), u \notin allocated(h')
                 PROVE  calls[u] = 1 \/ h.meta[u] = Nil \/ u \in late
    BY DEF allocated
  <2>2. h \in Heap /\ h' \in Heap /\ CallsOK(h, calls, life = "closing", late)
    BY <2>1 DEF IInv, TypeOK
  <2>3. /\ u \in Elements(h.rootudata) \cup Elements(h.tmudata)
        /\ u \notin Elements(h'.rootudata) \cup Elements(h'.tmudata)
    BY <2>1, <2>2, AllocatedIs
  <2>4. luaC_collectgarbage \/ close_state
    BY <2>1, <2>3, UdataStay, CloseLuaStays DEF Untouched
  <2>5. CASE close_state
    <3>1. life = "closing" /\ h.tmudata = << >>
      BY <2>5 DEF close_state
    <3>2. u \in Elements(h.rootudata)
      BY <2>3, <3>1 DEF Elements
    <3>3. QED BY <2>2, <3>1, <3>2 DEF CallsOK
  <2>6. CASE luaC_collectgarbage
    <3>1. ListsOK(h)
      BY <2>1, <2>6, CollectIs
    <3>2. PICK met1, K, met, gf, m : Collected(h, Roots(h), met1, K, met, gf, m, h')
      BY <2>1, <2>6, CollectIs
    <3>3. /\ gf \in Heap /\ Swept(gf, Keep(gf, m), h') /\ SetAside(h, K, gf)
          /\ allocated(gf) = allocated(h) /\ Elements(gf.tmudata) \subseteq m.marked
      BY <3>2 DEF Collected, Marked, Same
    <3>4. u \notin Keep(gf, m)
      BY <2>1, <2>2, <3>3, Survives
    <3>5. u \in Elements(gf.rootudata) /\ u \notin gf.unfinalized
      <4>1. u \in Elements(gf.rootudata) \cup Elements(gf.tmudata)
        BY <2>1, <3>3, AllocatedIs
      <4>2. QED BY <3>3, <3>4, <4>1 DEF Keep
    <3> DEFINE dead == (Elements(h.rootudata) \cap h.unfinalized) \ K
               take == {w \in dead : h.meta[w] # Nil}
    <3>6. /\ Elements(gf.rootudata) = Elements(h.rootudata) \ take
          /\ gf.unfinalized = h.unfinalized \ (dead \ take)
      BY <3>3 DEF SetAside
    <3>7. u \in Elements(h.rootudata) /\ u \notin take /\ (u \notin h.unfinalized \/ u \in dead \ take)
      BY <3>5, <3>6
    <3>8. CASE u \notin h.unfinalized
      BY <2>2, <3>7, <3>8 DEF CallsOK
    <3>9. CASE u \in dead \ take
      BY <3>9
    <3>10. QED BY <3>7, <3>8, <3>9
  <2>7. QED BY <2>4, <2>5, <2>6
<1>2. Spec => []IInv
  BY InvariantHolds
<1>3. QED BY <1>1, <1>2, PTL DEF Spec, FreedAfterCall

\* What is held without weak tables was met before userdata were set aside, or is marked
\* from an earlier collection, or fixed.
LEMMA HeldIs ==
    ASSUME h \in Heap, Roots(h) \in SUBSET (Objects \cup {Nil}),
           NEW met1, NEW K, NEW met, NEW gf, NEW m, NEW g2, Collected(h, Roots(h), met1, K, met, gf, m, g2)
    PROVE  Held \subseteq met1 \cup h.marked \cup Fixed \cup Upvals
<1> DEFINE C == met1 \cup h.marked \cup Fixed \cup Upvals
           next == [x \in Things |-> Keeps(h, x)]
<1>1. Nil \notin Things /\ Objects \cap Upvals = {} /\ Nil # Main
  BY Kinds DEF Objects
<1>2. /\ met1 \in SUBSET Objects /\ Roots(h) \cap Objects \subseteq met1 \cup h.marked \cup Fixed
      /\ \A o \in met1 : traverse(h, o) \cap Objects \subseteq met1 \cup h.marked \cup Fixed
  BY DEF Collected, Marked
<1>3. h.marked \subseteq Udatas /\ Fixed \subseteq Strings
  BY Fields, HeapConstants
<1>4. C \in SUBSET Things
  BY <1>2, <1>3 DEF Things, Objects
<1>5. Roots(h) \ {Nil} \subseteq C
  BY <1>2
<1>6. ASSUME NEW x \in C PROVE Keeps(h, x) \subseteq C
  <2>1. CASE x \in h.marked
    BY <2>1 DEF Keeps
  <2>2. CASE x \in Fixed \cup Upvals
    <3>1. Holds(h, x) = {}
      BY <1>3, <1>4, <2>2, HoldsIs
    <3>2. QED BY <3>1 DEF Keeps
  <2>3. CASE x \in met1
    <3>1. x \in Objects /\ x \in Things
      BY <1>2, <1>4, <2>3
    <3>2. traverse(h, x) \cap Objects \subseteq C
      BY <1>2, <2>3
    <3>3. CASE x \in Tables
      <4>1. SUFFICES ASSUME h.mode[x] = {}, h.node[x].val # Nil PROVE {h.node[x].key, h.node[x].val} \subseteq C
        <5>1. CASE h.mode[x] # {}
          BY <3>3, <5>1 DEF Keeps
        <5>2. CASE h.mode[x] = {} /\ h.node[x].val = Nil
          <6>1. Holds(h, x) = {}
            BY <3>1, <3>3, <5>2, HoldsIs
          <6>2. QED BY <6>1 DEF Keeps
        <5>3. CASE h.mode[x] = {} /\ h.node[x].val # Nil
          <6>1. Holds(h, x) = {h.node[x].key, h.node[x].val} \ {Nil}
            BY <3>1, <3>3, <5>3, HoldsIs
          <6>2. Holds(h, x) \subseteq C
            BY <4>1, <5>3, <6>1
          <6>3. QED BY <6>2 DEF Keeps
        <5>4. QED BY <5>1, <5>2, <5>3
      <4>2. traverse(h, x) = {h.node[x].key} \cup {h.node[x].val}
        <5>1. traverse(h, x) = traversetable(h, x)
          BY <3>1, <3>3, TraverseIs
        <5>2. QED BY <4>1, <5>1 DEF traversetable
      <4>3. h.node[x].key \in Objects /\ h.node[x].val \in Objects
        BY <3>3, <4>1, Fields DEF Node
      <4>4. QED BY <3>2, <4>2, <4>3
    <3>4. CASE x \in Udatas
      <4>1. Holds(h, x) = {h.meta[x]} \ {Nil} /\ traverse(h, x) = {h.meta[x]}
        BY <3>1, <3>4, HoldsIs, TraverseIs
      <4>2. h.meta[x] \in Objects \cup {Nil}
        BY <3>4, Fields DEF Objects
      <4>3. QED BY <3>2, <4>1, <4>2 DEF Keeps
    <3>5. CASE x \in Coroutines
      <4>1. Holds(h, x) = {h.slot[x]} \ {Nil} /\ traverse(h, x) = {h.slot[x]}
        BY <3>1, <3>5, HoldsIs, TraverseIs
      <4>2. h.slot[x] \in Objects \cup {Nil}
        BY <3>5, Fields DEF Threads
      <4>3. QED BY <3>2, <4>1, <4>2 DEF Keeps
    <3>6. CASE x \in Closures
      <4>1. CASE h.upval[x] = Nil
        <5>1. Holds(h, x) = {}
          BY <3>1, <3>6, <4>1, HoldsIs
        <5>2. QED BY <5>1 DEF Keeps
      <4>2. CASE h.upval[x] # Nil
        <5>1. PICK v \in Upvals : h.upval[x] = v
          BY <3>6, <4>2, Fields
        <5>2. Holds(h, x) = {v, ValueOf(h, v)} \ {Nil}
          BY <3>1, <3>6, <4>2, <5>1, HoldsIs
        <5>3. ValueOf(h, v) \in C \cup {Nil}
          <6>1. CASE h.uv[v].open = Nil
            <7>1. traverse(h, x) = traverseclosure(h, x)
              BY <3>1, <3>6, TraverseIs
            <7>2. h.uv[v].value \in traverse(h, x)
              BY <5>1, <6>1, <7>1 DEF traverseclosure
            <7>3. h.uv[v].value \in Objects \cup {Nil}
              BY Fields
            <7>4. QED BY <3>2, <6>1, <7>2, <7>3 DEF ValueOf
          <6>2. CASE h.uv[v].open # Nil
            <7>1. h.uv[v].open = Main
              BY <6>2, Fields
            <7>2. h.slot[Main] \in Roots(h)
              BY DEF Roots
            <7>3. QED BY <1>5, <6>2, <7>1, <7>2 DEF ValueOf
          <6>3. QED BY <6>1, <6>2
        <5>4. Holds(h, x) \subseteq C
          BY <5>2, <5>3
        <5>5. QED BY <5>4 DEF Keeps
      <4>3. QED BY <4>1, <4>2
    <3>7. CASE x \in Strings
      <4>1. Holds(h, x) = {}
        BY <3>1, <3>7, HoldsIs
      <4>2. QED BY <4>1 DEF Keeps
    <3>8. QED BY <3>1, <3>3, <3>4, <3>5, <3>6, <3>7 DEF Objects
  <2>4. QED BY <2>1, <2>2, <2>3
<1>7. DOMAIN next = Things /\ \A x \in Things : next[x] = Keeps(h, x) /\ next[x] \subseteq Things
  <2>1. \A x \in Things : Keeps(h, x) \subseteq Things
    BY HoldsThings DEF Keeps
  <2>2. QED BY <2>1
<1>8. Held = From(next, Roots(h) \ {Nil})
  BY DEF Held
<1> HIDE DEF next
<1>9. Roots(h) \ {Nil} \in SUBSET Things
  BY DEF Things
<1> HIDE DEF C
<1>10. Held \subseteq C
  BY <1>4, <1>5, <1>6, <1>7, <1>8, <1>9, Kinds, FromIs
<1>11. QED BY <1>10 DEF C

\* When userdata are set aside for their tag method, no weak table that the program held
\* has them as values (cleartablevalues before luaC_separateudata, in mark).
THEOREM WeakValuesGoneHolds ==
    ASSUME Capturing \subseteq {Main}, LateModes = FALSE
    PROVE  Spec => WeakValuesGone
<1> DEFINE Stated == \A u \in Elements(h'.tmudata) \ Elements(h.tmudata), t \in Tables \cap Held :
                         life' = "open" /\ "v" \in h.mode[t] => h'.node[t].val # u
<1>1. IInv /\ IInv' /\ [Next]_vars => [Stated]_vars
  <2>1. SUFFICES ASSUME IInv, IInv', [Next]_vars, NEW u \in Elements(h'.tmudata) \ Elements(h.tmudata),
                        NEW t \in Tables \cap Held, life' = "open", "v" \in h.mode[t], h'.node[t].val = u
                 PROVE  FALSE
    OBVIOUS
  <2>2. luaC_collectgarbage
    <3>1. ~lua_close /\ ~close_state
      BY <2>1 DEF lua_close, close_state
    <3>2. QED BY <2>1, <3>1, UdataStay DEF Untouched
  <2>3. h \in Heap /\ ListsOK(h) /\ Roots(h) \in SUBSET (Objects \cup {Nil}) /\ h' \in Heap
    BY <2>1, <2>2, CollectIs
  <2>4. PICK met1, K, met, gf, m : Collected(h, Roots(h), met1, K, met, gf, m, h')
    BY <2>1, <2>2, CollectIs
  <2>5. Held \subseteq met1 \cup h.marked \cup Fixed \cup Upvals
    BY <2>3, <2>4, HeldIs
  <2>6. t \in met1
    <3>1. h.marked \subseteq Udatas /\ Fixed \subseteq Strings
      BY <2>3, Fields, HeapConstants
    <3>2. QED BY <2>1, <2>5, <3>1, Kinds
  <2>7. /\ SetAside(h, K, gf) /\ h'.node = gf.node /\ h'.tmudata = gf.tmudata
        /\ \A s \in met1 \cap Tables : "v" \in h.mode[s] => gf.node[s].val \in K \cup {Nil}
    BY <2>4 DEF Collected, Marked, Swept
  <2>8. u \in K \cup {Nil}
    BY <2>1, <2>6, <2>7
  <2>9. u \in Udatas
    BY <2>3, Fields, ElementsIn
  <2>10. u \notin K
    BY <2>1, <2>7 DEF SetAside
  <2>11. QED BY <2>8, <2>9, <2>10, Kinds DEF Things, Objects
<1>2. Spec => []IInv
  BY InvariantHolds
<1>3. QED BY <1>1, <1>2, PTL DEF Spec, WeakValuesGone

\* What a collection leaves could be reached, or waits for its tag method, or is one of
\* the objects that keep a mark: tables that were weak, and strings in cleared nodes.
THEOREM GarbageIsFreedHolds ==
    ASSUME Capturing \subseteq {Main}, LateModes = FALSE
    PROVE  Spec => GarbageIsFreed
<1> DEFINE Left(o) == \/ o \in Closed(h, (Roots(h) \cup Elements(h'.tmudata)) \ {Nil}) \cup Fixed
                      \/ (o \in Tables /\ h.bits[o] # {})
                      \/ (o \in Strings /\ \E t \in Tables : h'.node[t].key = o /\ h.mode[t] # {})
           Stated == count' > count =>
                         \A o \in allocated(h)' :
                             \/ o \in Closed(h, (Roots(h) \cup Elements(h'.tmudata)) \ {Nil}) \cup Fixed
                             \/ (o \in Tables /\ h.bits[o] # {})
                             \/ (o \in Strings /\ \E t \in Tables : h'.node[t].key = o /\ h.mode[t] # {})
<1>1. IInv /\ IInv' /\ [Next]_vars => [Stated]_vars
  <2>1. SUFFICES ASSUME IInv, IInv', [Next]_vars, count' > count, NEW o \in allocated(h') PROVE Left(o)
    BY DEF allocated
  <2>2. luaC_collectgarbage
    <3>1. count \in Nat
      BY <2>1 DEF IInv, TypeOK
    <3>2. lua_close \/ close_state => count' = count
      BY DEF lua_close, close_state
    <3>3. QED BY <2>1, <3>1, <3>2, UdataStay
  <2>3. h \in Heap /\ ListsOK(h) /\ Roots(h) \in SUBSET (Objects \cup {Nil}) /\ h' \in Heap
    BY <2>1, <2>2, CollectIs
  <2>4. PICK met1, K, met, gf, m : Collected(h, Roots(h), met1, K, met, gf, m, h')
    BY <2>1, <2>2, CollectIs
  <2> DEFINE S == (Roots(h) \cup Elements(h'.tmudata)) \ {Nil}
             C == Closed(h, S)
  <2>5. /\ gf \in Heap /\ Swept(gf, Keep(gf, m), h') /\ allocated(gf) = allocated(h)
        /\ h'.node = gf.node /\ h'.tmudata = gf.tmudata /\ K \subseteq m.marked /\ met \subseteq Objects
        /\ Removed(h, gf, Weaks(h, met)) /\ Sources(h, met, m)
        /\ gf.bits = [t \in Tables |-> IF t \in Weaks(h, met) THEN h.mode[t] ELSE h.bits[t]]
        /\ m.uvmarked = {v \in Upvals : h.uv[v].open = Nil /\ \E f \in met \cap Closures : h.upval[f] = v}
        /\ \A D : ClosedIn(h, D) /\ Roots(h) \cap Objects \subseteq D /\ Elements(gf.tmudata) \subseteq D => met \subseteq D
    BY <2>4 DEF Collected, Marked, Same, Swept
  <2>6. Elements(h'.tmudata) \subseteq Udatas /\ Nil \notin Objects /\ Nil \notin Things
    BY <2>3, Fields, ElementsIn, Kinds DEF Things
  <2>7. S \in SUBSET Things
    BY <2>3, <2>6 DEF Things, Objects
  <2>8. ClosedIn(h, C) /\ S \subseteq C
    BY <2>3, <2>7, ClosedIs
  <2> HIDE DEF C
  <2>9. met \subseteq C
    <3>1. Roots(h) \cap Objects \subseteq C
      BY <2>6, <2>8
    <3>2. Elements(gf.tmudata) \subseteq C
      <4>1. Nil \notin Elements(h'.tmudata)
        BY <2>6 DEF Objects
      <4>2. QED BY <2>5, <2>8, <4>1
    <3>3. QED BY <2>5, <2>8, <3>1, <3>2
  <2>10. ASSUME NEW x \in m.marked PROVE Left(x)
    <3>1. SUFFICES ASSUME x \in Strings, NEW t \in Weaks(h, met), InNode(h, t, x) PROVE Left(x)
      BY <2>5, <2>9 DEF Sources, C
    <3>2. t \in Tables /\ t \in Things /\ t \in C /\ h.mode[t] # {} /\ x # Nil
      <4>1. x \in Things
        BY <3>1 DEF Things, Objects
      <4>2. QED BY <2>5, <2>6, <2>9, <3>1, <4>1 DEF Weaks, Things
    <3>3. ASSUME h.node[t].val # Nil PROVE x \in C
      <4>1. Holds(h, t) = {h.node[t].key, h.node[t].val} \ {Nil}
        BY <3>2, <3>3, HoldsIs
      <4>2. x \in Holds(h, t)
        BY <3>1, <3>2, <4>1 DEF InNode
      <4>3. QED BY <2>8, <3>2, <4>2 DEF ClosedIn
    <3>4. ASSUME h.node[t].val = Nil PROVE h'.node[t].key = x
      <4>1. h.node[t].key = x
        BY <3>1, <3>2, <3>4 DEF InNode
      <4>2. gf.node[t] = h.node[t]
        BY <2>5, <3>1, <3>2, <3>4, <4>1 DEF Removed
      <4>3. QED BY <2>5, <4>1, <4>2
    <3>5. QED BY <3>1, <3>2, <3>3, <3>4 DEF C
  <2>11. o \in Keep(gf, m) \/ o \in Elements(gf.tmudata)
    BY <2>1, <2>3, <2>5, Survives
  <2>12. CASE o \in m.marked
    BY <2>10, <2>12
  <2>13. CASE o \in m.uvmarked
    <3>1. PICK f \in met \cap Closures : o \in Upvals /\ h.upval[f] = o
      BY <2>5, <2>13
    <3>2. f \in Things /\ o # Nil
      BY <2>6, <3>1 DEF Things, Objects
    <3>3. o \in Holds(h, f)
      BY <3>1, <3>2, HoldsIs
    <3>4. o \in C
      BY <2>8, <2>9, <3>1, <3>3 DEF ClosedIn
    <3>5. QED BY <3>4 DEF C
  <2>14. CASE o \in Tables /\ gf.bits[o] # {}
    <3>1. o \in met \/ h.bits[o] # {}
      BY <2>5, <2>14 DEF Weaks
    <3>2. QED BY <2>9, <2>14, <3>1 DEF C
  <2>15. CASE o \in Elements(gf.tmudata)
    <3>1. o \in S
      BY <2>5, <2>6, <2>15 DEF Objects
    <3>2. QED BY <2>8, <3>1 DEF C
  <2>16. CASE o \in gf.unfinalized
    <3>1. o \in Udatas /\ h'.unfinalized = gf.unfinalized
      BY <2>5, <2>16, Fields DEF Swept
    <3>2. o \in Elements(h'.rootudata) \cup Elements(h'.tmudata)
      BY <2>1, <2>3, <3>1, AllocatedIs
    <3>3. CASE o \in Elements(h'.tmudata)
      BY <2>5, <2>15, <3>3
    <3>4. CASE o \in Elements(h'.rootudata)
      <4>1. o \in K
        BY <2>4, <2>16, <3>1, <3>4, LeftMarked
      <4>2. QED BY <2>5, <2>12, <4>1
    <3>5. QED BY <3>2, <3>3, <3>4
  <2>17. QED BY <2>11, <2>12, <2>13, <2>14, <2>15, <2>16 DEF Keep
<1>2. Spec => []IInv
  BY InvariantHolds
<1>3. QED BY <1>1, <1>2, PTL DEF Spec, GarbageIsFreed
=============================================================================
