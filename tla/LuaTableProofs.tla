--------------------------- MODULE LuaTableProofs ---------------------------
(***************************************************************************)
(* The properties of LuaTable, for any keys, hashes and values.            *)
(***************************************************************************)
EXTENDS LuaTableInvariant, SequenceTheorems, FiniteSetTheorems, WellFoundedInduction, TLAPS

-----------------------------------------------------------------------------
(* Powers of two.                                                              *)

\* A set of numbers has a least one.
LEMMA Least ==
    ASSUME NEW N \in SUBSET Nat, N # {}
    PROVE  \E n \in N : \A m \in N : n <= m
<1>1. PICK n \in N : \A m \in N : <<m, n>> \notin OpToRel(<, Nat)
  BY NatLessThanWellFounded, WFMin, Zenon
<1>2. \A m \in N : ~(m < n)
  BY <1>1 DEF OpToRel
<1>3. QED BY <1>2

\* Each is twice the one before: a set with one element more has twice the subsets.
LEMMA TwotoNext ==
    ASSUME NEW k \in Nat
    PROVE  twoto(k) \in Nat \ {0} /\ twoto(k + 1) = 2 * twoto(k)
<1> DEFINE S == 1..k
           x == k + 1
           T == S \cup {x}
           new == {A \in SUBSET T : x \in A}
<1>1. /\ IsFiniteSet(S) /\ Cardinality(S) = k /\ x \notin S
  <2>1. k \in Int /\ 1 \in Int /\ ~(1 > k + 1) /\ (1 > k => k = 0)
    OBVIOUS
  <2>2. IsFiniteSet(S) /\ Cardinality(S) = IF 1 > k THEN 0 ELSE k - 1 + 1
    BY <2>1, FS_Interval
  <2>3. QED BY <2>1, <2>2
<1> HIDE DEF S, x
<1>2. IsFiniteSet(T) /\ Cardinality(T) = k + 1
  BY <1>1, FS_AddElement
<1>3. /\ IsFiniteSet(SUBSET S) /\ Cardinality(SUBSET S) = 2 ^ Cardinality(S)
      /\ IsFiniteSet(SUBSET T) /\ Cardinality(SUBSET T) = 2 ^ Cardinality(T)
  BY <1>1, <1>2, FS_SUBSET
<1>4. SUBSET T = (SUBSET S) \cup new /\ (SUBSET S) \cap new = {}
  <2>1. ASSUME NEW A \in SUBSET T PROVE A \in SUBSET S \/ x \in A
    BY <2>1
  <2>2. QED BY <2>1, <1>1
<1> DEFINE f == [A \in SUBSET S |-> A \cup {x}]
<1>5. f \in Bijection(SUBSET S, new)
  <2>1. \A A \in SUBSET S : f[A] \in new
    OBVIOUS
  <2>2. \A A, B \in SUBSET S : f[A] = f[B] => A = B
    <3>1. SUFFICES ASSUME NEW A \in SUBSET S, NEW B \in SUBSET S, A \cup {x} = B \cup {x} PROVE A = B
      OBVIOUS
    <3>2. QED BY <1>1, <3>1
  <2>3. \A B \in new : \E A \in SUBSET S : f[A] = B
    <3>1. SUFFICES ASSUME NEW B \in new PROVE f[B \ {x}] = B /\ B \ {x} \in SUBSET S
      OBVIOUS
    <3>2. QED BY <1>1
  <2>4. QED BY <2>1, <2>2, <2>3 DEF Bijection, Injection, IsInjective, Surjection
<1> HIDE DEF f
<1>6. Cardinality(new) = Cardinality(SUBSET S) /\ IsFiniteSet(new)
  BY <1>3, <1>5, FS_Bijection DEF ExistsBijection
<1> HIDE DEF new, T
<1>7. Cardinality(SUBSET T) = Cardinality(SUBSET S) + Cardinality(new)
  <2>1. Cardinality((SUBSET S) \cap new) = 0
    BY <1>4, FS_EmptySet
  <2>2. Cardinality(SUBSET S) \in Nat /\ Cardinality(new) \in Nat
    BY <1>3, <1>6, FS_CardinalityType
  <2>3. Cardinality((SUBSET S) \cup new) = Cardinality(SUBSET S) + Cardinality(new) - Cardinality((SUBSET S) \cap new)
    BY <1>3, <1>6, FS_Union
  <2>4. Cardinality(SUBSET T) = Cardinality((SUBSET S) \cup new)
    BY <1>4
  <2>5. QED BY <2>1, <2>2, <2>3, <2>4
<1>8. Cardinality(SUBSET S) \in Nat \ {0}
  <2>1. {} \in SUBSET S
    OBVIOUS
  <2>2. Cardinality(SUBSET S) \in Nat /\ (Cardinality(SUBSET S) = 0 <=> SUBSET S = {})
    BY <1>3, FS_EmptySet, FS_CardinalityType
  <2>3. QED BY <2>1, <2>2
<1>9. QED BY <1>1, <1>2, <1>3, <1>6, <1>7, <1>8 DEF twoto

LEMMA TwotoZero == twoto(0) = 1
<1>1. SUBSET {} = {{}} /\ IsFiniteSet({}) /\ Cardinality({}) = 0
  BY FS_EmptySet
<1>2. Cardinality(SUBSET {}) = 2 ^ 0
  BY <1>1, FS_SUBSET
<1>3. Cardinality(SUBSET {}) = 1
  BY <1>1, FS_Singleton
<1>4. QED BY <1>2, <1>3 DEF twoto

\* They grow, and faster than the exponent.
LEMMA TwotoGrows ==
    ASSUME NEW k \in Nat, NEW m \in Nat, k <= m
    PROVE  twoto(k) <= twoto(m) /\ k < twoto(k)
<1> DEFINE B == {n \in Nat : ~(\A i \in 0..n : twoto(i) <= twoto(n) /\ n < twoto(n))}
<1>1. B = {}
  <2>1. SUFFICES ASSUME B # {} PROVE FALSE
    OBVIOUS
  <2>2. PICK n \in B : \A j \in B : n <= j
    <3>1. B \in SUBSET Nat
      OBVIOUS
    <3>2. QED BY <2>1, <3>1, Least
  <2>3. n \in Nat /\ ~(\A i \in 0..n : twoto(i) <= twoto(n) /\ n < twoto(n))
    BY <2>2
  <2>4. n # 0
    BY <2>3, TwotoZero
  <2>5. n - 1 \in Nat /\ n - 1 \notin B /\ n - 1 + 1 = n
    BY <2>2, <2>3, <2>4
  <2>6. \A i \in 0..(n - 1) : twoto(i) <= twoto(n - 1) /\ n - 1 < twoto(n - 1)
    BY <2>5
  <2>7. twoto(n) = 2 * twoto(n - 1) /\ twoto(n - 1) \in Nat \ {0}
    BY <2>5, TwotoNext
  <2>8. \A i \in 0..n : twoto(i) \in Nat
    BY TwotoNext
  <2>9. \A i \in 0..n : i = n \/ i \in 0..(n - 1)
    BY <2>3
  <2>10. 0 \in 0..(n - 1)
    BY <2>5
  <2>11. QED BY <2>3, <2>5, <2>6, <2>7, <2>8, <2>9, <2>10
<1>2. m \notin B /\ k \notin B /\ k \in 0..m /\ k \in 0..k
  BY <1>1
<1>3. QED BY <1>2

\* The logarithm is rounded down.
LEMMA Log2Is ==
    ASSUME NEW x \in Nat
    PROVE  /\ x = 0 => luaO_log2(x) = -1
           /\ x # 0 => /\ luaO_log2(x) \in Nat /\ twoto(luaO_log2(x)) <= x
                       /\ x < twoto(luaO_log2(x) + 1)
<1>1. CASE x = 0
  BY <1>1 DEF luaO_log2
<1>2. CASE x # 0
  <2> DEFINE N == {n \in Nat : x < twoto(n + 1)}
  <2>1. x \in N
    BY TwotoGrows, TwotoNext
  <2>2. PICK n \in N : \A m \in N : n <= m
    <3>1. N \in SUBSET Nat /\ N # {}
      BY <2>1
    <3>2. QED BY <3>1, Least
  <2>3. n \in Nat /\ x < twoto(n + 1)
    BY <2>2
  <2>4. twoto(n) <= x
    <3>1. CASE n = 0
      BY <1>2, <3>1, TwotoZero
    <3>2. CASE n # 0
      <4>1. n - 1 \in Nat /\ n - 1 \notin N /\ n - 1 + 1 = n
        BY <2>2, <2>3, <3>2
      <4>2. ~(x < twoto(n))
        BY <4>1
      <4>3. twoto(n) \in Nat
        BY <2>3, TwotoNext
      <4>4. QED BY <4>2, <4>3
    <3>3. QED BY <3>1, <3>2
  <2>5. n \in 0..x
    <3>1. n \in Nat /\ n <= n
      BY <2>3
    <3>2. n < twoto(n)
      BY <3>1, TwotoGrows
    <3>3. twoto(n) \in Nat
      BY <3>1, TwotoNext
    <3>4. QED BY <2>4, <3>1, <3>2, <3>3
  <2>6. \E i \in 0..x : twoto(i) <= x /\ x < twoto(i + 1)
    BY <2>3, <2>4, <2>5
  <2>7. luaO_log2(x) = CHOOSE i \in 0..x : twoto(i) <= x /\ x < twoto(i + 1)
    BY <1>2 DEF luaO_log2
  <2> HIDE DEF N
  <2>8. luaO_log2(x) \in 0..x /\ twoto(luaO_log2(x)) <= x /\ x < twoto(luaO_log2(x) + 1)
    BY <2>6, <2>7, Zenon
  <2>9. QED BY <1>2, <2>8
<1>3. QED BY <1>1, <1>2

-----------------------------------------------------------------------------
(* Chains.                                                                     *)

\* A chain is closed, and within every closed set with its first node.
LEMMA ChainIs ==
    ASSUME NEW tb, LinksOK(tb), NEW start \in DOMAIN tb.node
    PROVE  /\ start \in Chain(tb, start) /\ Chain(tb, start) \subseteq DOMAIN tb.node
           /\ Leads(tb, Chain(tb, start))
           /\ \A C \in SUBSET (DOMAIN tb.node) : start \in C /\ Leads(tb, C) => Chain(tb, start) \subseteq C
<1>1. start \in Chain(tb, start) /\ Chain(tb, start) \subseteq DOMAIN tb.node
  BY DEF Chain
<1>2. \A C \in SUBSET (DOMAIN tb.node) : start \in C /\ Leads(tb, C) => Chain(tb, start) \subseteq C
  BY DEF Chain
<1>3. Leads(tb, Chain(tb, start))
  <2>1. SUFFICES ASSUME NEW n \in Chain(tb, start), tb.node[n].next # -1
                 PROVE  tb.node[n].next \in Chain(tb, start)
    BY DEF Leads
  <2>2. n \in DOMAIN tb.node /\ tb.node[n].next \in DOMAIN tb.node
    BY <1>1, <2>1 DEF LinksOK
  <2>3. SUFFICES ASSUME NEW C \in SUBSET (DOMAIN tb.node), start \in C, Leads(tb, C)
                 PROVE  tb.node[n].next \in C
    BY <2>2 DEF Chain
  <2>4. n \in C
    BY <1>2, <2>3
  <2>5. QED BY <2>1, <2>3, <2>4 DEF Leads
<1>4. QED BY <1>1, <1>2, <1>3

\* A chain is its first node and the chain behind it.
LEMMA ChainStep ==
    ASSUME NEW tb, LinksOK(tb), NEW n \in DOMAIN tb.node
    PROVE  /\ tb.node[n].next = -1 => Chain(tb, n) = {n}
           /\ tb.node[n].next # -1 => /\ tb.node[n].next \in DOMAIN tb.node
                                      /\ Chain(tb, n) = {n} \cup Chain(tb, tb.node[n].next)
<1> DEFINE m == tb.node[n].next
<1>1. /\ n \in Chain(tb, n) /\ Leads(tb, Chain(tb, n)) /\ Chain(tb, n) \subseteq DOMAIN tb.node
      /\ \A C \in SUBSET (DOMAIN tb.node) : n \in C /\ Leads(tb, C) => Chain(tb, n) \subseteq C
  BY ChainIs
<1>2. CASE m = -1
  <2>1. Leads(tb, {n}) /\ {n} \in SUBSET (DOMAIN tb.node)
    BY <1>2 DEF Leads
  <2>2. QED BY <1>1, <1>2, <2>1
<1>3. CASE m # -1
  <2>1. m \in DOMAIN tb.node
    BY <1>3 DEF LinksOK
  <2>2. /\ m \in Chain(tb, m) /\ Leads(tb, Chain(tb, m)) /\ Chain(tb, m) \subseteq DOMAIN tb.node
        /\ \A C \in SUBSET (DOMAIN tb.node) : m \in C /\ Leads(tb, C) => Chain(tb, m) \subseteq C
    BY <2>1, ChainIs
  <2>3. Leads(tb, {n} \cup Chain(tb, m))
    BY <2>2 DEF Leads
  <2>4. Chain(tb, n) \subseteq {n} \cup Chain(tb, m)
    BY <1>1, <2>2, <2>3
  <2>5. m \in Chain(tb, n)
    BY <1>1, <1>3 DEF Leads
  <2>6. Chain(tb, m) \subseteq Chain(tb, n)
    BY <1>1, <2>2, <2>5
  <2>7. QED BY <1>1, <1>3, <2>1, <2>4, <2>6
<1>4. QED BY <1>2, <1>3

\* Going along a chain one comes to the node that is looked for, or to the end.
LEMMA FirstIs ==
    ASSUME NEW tb, LinksOK(tb), -1 \notin DOMAIN tb.node,
           NEW S \in SUBSET (DOMAIN tb.node), \A x, y \in S : x = y, NEW start \in DOMAIN tb.node
    PROVE  LET n == FirstIn(tb, start, S)
           IN  \/ n \in S /\ n \in Chain(tb, start)
               \/ n = -1 /\ Chain(tb, start) \cap S = {}
<1> DEFINE D == DOMAIN tb.node \cup {-1}
           Walks(f) == f = [n \in D |-> IF n = -1 \/ n \in S THEN n ELSE f[tb.node[n].next]]
           found(n) == IF n = -1 \/ Chain(tb, n) \cap S = {} THEN -1 ELSE CHOOSE m : m \in S
           g == [n \in D |-> found(n)]
           first == CHOOSE f : Walks(f)
<1>1. \A n \in DOMAIN tb.node : tb.node[n].next \in D
  BY DEF LinksOK
<1>2. \A n \in D : found(n) = IF n = -1 \/ n \in S THEN n ELSE found(tb.node[n].next)
  <2>1. SUFFICES ASSUME NEW n \in DOMAIN tb.node
                 PROVE  found(n) = IF n \in S THEN n ELSE found(tb.node[n].next)
    OBVIOUS
  <2>2. n # -1 /\ n \in Chain(tb, n)
    BY ChainIs
  <2>3. CASE n \in S
    <3>1. (CHOOSE m : m \in S) \in S
      BY <2>3
    <3>2. QED BY <2>2, <2>3, <3>1
  <2>4. CASE n \notin S
    <3>1. CASE tb.node[n].next = -1
      BY <2>2, <2>4, <3>1, ChainStep
    <3>2. CASE tb.node[n].next # -1
      <4>1. Chain(tb, n) = {n} \cup Chain(tb, tb.node[n].next)
        BY <3>2, ChainStep
      <4>2. QED BY <2>2, <2>4, <3>2, <4>1
    <3>3. QED BY <3>1, <3>2
  <2>5. QED BY <2>3, <2>4
<1> HIDE DEF found
<1>3. Walks(g)
  <2>1. \A n \in D : g[n] = IF n = -1 \/ n \in S THEN n ELSE g[tb.node[n].next]
    BY <1>1, <1>2
  <2>2. g = [n \in D |-> g[n]]
    OBVIOUS
  <2> HIDE DEF g
  <2>3. QED BY <2>1, <2>2
<1>4. Walks(first)
  BY <1>3
<1>5. FirstIn(tb, start, S) = first[start]
  BY DEF FirstIn
<1> HIDE DEF first
<1>6. \A n \in D : first[n] = IF n = -1 \/ n \in S THEN n ELSE first[tb.node[n].next]
  <2>1. first = [n \in D |-> IF n = -1 \/ n \in S THEN n ELSE first[tb.node[n].next]]
    BY <1>4
  <2> HIDE DEF Walks, D
  <2>2. QED BY <2>1
<1> DEFINE bad == {n \in DOMAIN tb.node : first[n] # found(n)}
<1>7. bad = {}
  <2>1. SUFFICES ASSUME bad # {} PROVE FALSE
    OBVIOUS
  <2>2. PICK n \in bad : tb.node[n].next \notin bad
    <3>1. bad \in SUBSET (DOMAIN tb.node)
      OBVIOUS
    <3>2. QED BY <2>1, <3>1 DEF LinksOK
  <2>3. n \in DOMAIN tb.node /\ first[n] # found(n)
    BY <2>2
  <2>4. first[tb.node[n].next] = found(tb.node[n].next)
    <3>1. CASE tb.node[n].next = -1
      BY <1>2, <1>6, <3>1
    <3>2. CASE tb.node[n].next # -1
      BY <1>1, <2>2, <2>3, <3>2
    <3>3. QED BY <3>1, <3>2
  <2>5. QED BY <1>2, <1>6, <2>3, <2>4
<1>8. FirstIn(tb, start, S) = found(start)
  BY <1>5, <1>7
<1>9. CASE Chain(tb, start) \cap S = {}
  BY <1>8, <1>9 DEF found
<1>10. CASE Chain(tb, start) \cap S # {}
  <2>1. PICK m \in S : m \in Chain(tb, start)
    BY <1>10
  <2>2. (CHOOSE x : x \in S) \in S
    BY <2>1
  <2>3. QED BY <1>8, <1>10, <2>1, <2>2 DEF found
<1>11. QED BY <1>9, <1>10

-----------------------------------------------------------------------------
(* Where a key is.                                                             *)

\* Neither nil nor a dead key is one of the keys, and keys have a kind.
LEMMA KeysAre ==
    /\ Nil \notin Keys /\ Dead \notin Keys /\ Nil # Dead /\ False # Nil /\ Nil \notin Values
    /\ \A k \in Keys : k[1] = "num" => k[2] \in Int /\ k = <<"num", k[2]>>
<1>1. Nil[1] = "nil" /\ Dead[1] = "dead" /\ False[1] = "bool"
  BY DEF Nil, Dead, False
<1>2. QED BY <1>1, TableConstants DEF Nil

\* The nodes are numbered from 0.
LEMMA NodesAre ==
    ASSUME NEW tb, TypeOK(tb)
    PROVE  /\ sizenode(tb) \in Nat \ {0} /\ DOMAIN tb.node = 0..(sizenode(tb) - 1)
           /\ -1 \notin DOMAIN tb.node /\ 0 \in DOMAIN tb.node /\ DOMAIN tb.node \subseteq Nat
           /\ \A n \in DOMAIN tb.node : /\ tb.node[n] \in Node /\ tb.node[n].key \in Keys \cup {Nil, Dead}
                                        /\ tb.node[n].val \in Vals /\ tb.node[n].next \in Nat \cup {-1}
                                        /\ DOMAIN tb.node[n] = {"key", "val", "next"}
           /\ sizearray(tb) \in Nat /\ DOMAIN tb.array = 1..sizearray(tb)
           /\ \A i \in 1..sizearray(tb) : tb.array[i] \in Vals
<1>1. sizenode(tb) \in Nat \ {0}
  BY TwotoNext DEF TypeOK, sizenode
<1>2. DOMAIN tb.node = 0..(sizenode(tb) - 1) /\ \A n \in DOMAIN tb.node : tb.node[n] \in Node
  BY DEF TypeOK, sizenode
<1>3. \A n \in DOMAIN tb.node : /\ tb.node[n].key \in Keys \cup {Nil, Dead}
                                /\ tb.node[n].val \in Vals /\ tb.node[n].next \in Nat \cup {-1}
                                /\ DOMAIN tb.node[n] = {"key", "val", "next"}
  BY <1>2 DEF Node
<1>4. /\ sizearray(tb) \in Nat /\ DOMAIN tb.array = 1..sizearray(tb)
      /\ \A i \in 1..sizearray(tb) : tb.array[i] \in Vals
  BY DEF TypeOK, sizearray
<1>5. QED BY <1>1, <1>2, <1>3, <1>4

\* A main position is a node.
LEMMA MainIs ==
    ASSUME NEW tb, TypeOK(tb), NEW key \in Keys
    PROVE  luaH_mainposition(tb, key) \in DOMAIN tb.node
<1>1. sizenode(tb) \in Nat \ {0} /\ DOMAIN tb.node = 0..(sizenode(tb) - 1) /\ Hash[key] \in Nat
  BY NodesAre, TableConstants
<1>2. \A a \in Nat, b \in Nat \ {0} : a % b \in 0..(b - 1)
  OBVIOUS
<1>3. CASE sizenode(tb) <= 2
  <2>1. 1 \in Nat \ {0}
    OBVIOUS
  <2>2. Hash[key] % 1 \in 0..(1 - 1) /\ Hash[key] % sizenode(tb) \in 0..(sizenode(tb) - 1)
    BY <1>1, <1>2, <2>1
  <2>3. QED BY <1>1, <1>3, <2>2 DEF luaH_mainposition
<1>4. CASE ~(sizenode(tb) <= 2)
  <2>1. sizenode(tb) - 1 \in Nat \ {0}
    BY <1>1, <1>4
  <2>2. Hash[key] % (sizenode(tb) - 1) \in 0..(sizenode(tb) - 1 - 1) /\ Hash[key] % sizenode(tb) \in 0..(sizenode(tb) - 1)
    BY <1>1, <1>2, <2>1
  <2>3. QED BY <1>1, <1>4, <2>1, <2>2 DEF luaH_mainposition
<1>5. QED BY <1>3, <1>4

\* It is that of the key that is in a node.
LEMMA HomeIs ==
    ASSUME NEW tb, TypeOK(tb), NEW n \in Real(tb)
    PROVE  n \in DOMAIN tb.node /\ tb.node[n].key \in Keys /\ Home(tb, n) \in DOMAIN tb.node
  BY MainIs DEF Real, Home

\* What luaH_get finds: a key is in the array part, in a node, or nowhere.
LEMMA GetIs ==
    ASSUME NEW tb, Sound(tb), NEW key \in Keys
    PROVE  \/ InArray(tb, key) /\ luaH_get(tb, key) = <<"array", key[2]>>
           \/ /\ ~InArray(tb, key)
              /\ \E n \in DOMAIN tb.node : tb.node[n].key = key /\ luaH_get(tb, key) = <<"node", n>>
           \/ /\ ~InArray(tb, key) /\ \A n \in DOMAIN tb.node : tb.node[n].key # key
              /\ luaH_get(tb, key) = <<"none">>
<1> DEFINE S == NodesOf(tb, key)
           home == luaH_mainposition(tb, key)
           n == FirstIn(tb, home, S)
<1>1. TypeOK(tb) /\ LinksOK(tb) /\ KeysOK(tb) /\ -1 \notin DOMAIN tb.node
  BY NodesAre DEF Sound
<1>2. S \in SUBSET (DOMAIN tb.node) /\ (\A x, y \in S : x = y) /\ home \in DOMAIN tb.node
  BY <1>1, MainIs DEF KeysOK, Real, NodesOf
<1>3. \/ n \in S /\ n \in Chain(tb, home)
      \/ n = -1 /\ Chain(tb, home) \cap S = {}
  BY <1>1, <1>2, FirstIs
<1>4. \A m \in S : m \in Chain(tb, home)
  BY <1>1 DEF KeysOK, Real, NodesOf, Home
<1>5. \/ n \in DOMAIN tb.node /\ n # -1 /\ tb.node[n].key = key
      \/ n = -1 /\ \A m \in DOMAIN tb.node : tb.node[m].key # key
  BY <1>1, <1>3, <1>4 DEF NodesOf
<1> HIDE DEF n
<1>6. luaH_get(tb, key) = IF InArray(tb, key) THEN <<"array", key[2]>>
                          ELSE IF n = -1 THEN <<"none">> ELSE <<"node", n>>
  BY DEF luaH_get, InArray, n
<1>7. QED BY <1>5, <1>6

\* The places are told apart.
LEMMA PlacesAre ==
    /\ \A x : <<"array", x>>[1] = "array" /\ <<"array", x>>[2] = x /\ <<"node", x>>[1] = "node" /\ <<"node", x>>[2] = x
    /\ <<"none">>[1] = "none" /\ \A x, y : <<"array", x>> # <<"node", y>> /\ <<"node", x>> # <<"none">>
                                           /\ <<"array", x>> # <<"none">>
    /\ \A x, y : <<"node", x>> = <<"node", y>> => x = y
<1>1. /\ \A x : <<"array", x>>[1] = "array" /\ <<"array", x>>[2] = x /\ <<"node", x>>[1] = "node" /\ <<"node", x>>[2] = x
      /\ <<"none">>[1] = "none"
  OBVIOUS
<1>2. QED BY <1>1

\* What a field holds, seen from its place.
Value(tb, key) == ValueAt(tb, luaH_get(tb, key))
Unused(tb, key) == ~InArray(tb, key) /\ \A n \in DOMAIN tb.node : tb.node[n].key # key

LEMMA ValueIs ==
    ASSUME NEW tb, Sound(tb), NEW key \in Keys
    PROVE  /\ InArray(tb, key) => Value(tb, key) = tb.array[key[2]] /\ key[2] \in 1..sizearray(tb)
           /\ \A n \in DOMAIN tb.node : tb.node[n].key = key =>
                 /\ ~InArray(tb, key) /\ Value(tb, key) = tb.node[n].val
                 /\ luaH_get(tb, key) = <<"node", n>>
           /\ Unused(tb, key) => Value(tb, key) = Nil
<1>1. InArray(tb, key) => Value(tb, key) = tb.array[key[2]] /\ key[2] \in 1..sizearray(tb)
  BY GetIs, PlacesAre DEF Value, ValueAt, InArray
<1>2. ASSUME NEW n \in DOMAIN tb.node, tb.node[n].key = key
      PROVE  ~InArray(tb, key) /\ Value(tb, key) = tb.node[n].val /\ luaH_get(tb, key) = <<"node", n>>
  <2>1. n \in Real(tb) /\ ~InArray(tb, key) /\ \A m \in DOMAIN tb.node : tb.node[m].key = key => m = n
    BY <1>2 DEF Sound, KeysOK, Real
  <2>2. luaH_get(tb, key) = <<"node", n>>
    BY <1>2, <2>1, GetIs
  <2>3. QED BY <2>1, <2>2, PlacesAre DEF Value, ValueAt
<1>3. Unused(tb, key) => Value(tb, key) = Nil
  BY GetIs, PlacesAre DEF Value, ValueAt, Unused
<1>4. QED BY <1>1, <1>2, <1>3

-----------------------------------------------------------------------------
(* What a table holds.                                                         *)

\* The fields that are in nodes and not nil.
Live(tb) == {<<tb.node[n].key, tb.node[n].val>> : n \in NodeUse(tb)}

LEMMA LiveIs ==
    ASSUME NEW tb, Sound(tb), NEW key \in Keys, ~InArray(tb, key), NEW v, v # Nil
    PROVE  Value(tb, key) = v <=> <<key, v>> \in Live(tb)
<1>1. ASSUME <<key, v>> \in Live(tb) PROVE Value(tb, key) = v
  <2>1. PICK n \in NodeUse(tb) : <<key, v>> = <<tb.node[n].key, tb.node[n].val>>
    BY <1>1 DEF Live
  <2>2. n \in DOMAIN tb.node /\ tb.node[n].key = key /\ tb.node[n].val = v
    BY <2>1 DEF NodeUse
  <2>3. QED BY <2>2, ValueIs
<1>2. ASSUME Value(tb, key) = v PROVE <<key, v>> \in Live(tb)
  <2>1. ~Unused(tb, key)
    BY <1>2, ValueIs
  <2>2. PICK n \in DOMAIN tb.node : tb.node[n].key = key
    BY <2>1 DEF Unused
  <2>3. tb.node[n].val = v
    BY <1>2, <2>2, ValueIs
  <2>4. n \in NodeUse(tb)
    BY <2>3 DEF NodeUse
  <2>5. QED BY <2>2, <2>3, <2>4 DEF Live
<1>3. QED BY <1>1, <1>2

\* Tables with the same array part and the same live nodes hold the same.
LEMMA SameLive ==
    ASSUME NEW tb, Sound(tb), NEW tb2, Sound(tb2), tb2.array = tb.array, Live(tb2) = Live(tb)
    PROVE  \A key \in Keys : Value(tb2, key) = Value(tb, key)
<1>1. SUFFICES ASSUME NEW key \in Keys PROVE Value(tb2, key) = Value(tb, key)
  OBVIOUS
<1>2. InArray(tb2, key) <=> InArray(tb, key)
  BY DEF InArray, sizearray
<1>3. CASE InArray(tb, key)
  BY <1>2, <1>3, ValueIs
<1>4. CASE ~InArray(tb, key)
  <2>1. \A v : v # Nil => (Value(tb, key) = v <=> Value(tb2, key) = v)
    BY <1>2, <1>4, LiveIs
  <2>2. QED BY <2>1
<1>5. QED BY <1>3, <1>4

\* What does not change the links leaves the chains.
Linked(tb, tb2) ==
    /\ DOMAIN tb2.node = DOMAIN tb.node /\ tb2.lsizenode = tb.lsizenode
    /\ \A n \in DOMAIN tb.node : tb2.node[n].next = tb.node[n].next

LEMMA SameChains ==
    ASSUME NEW tb, NEW tb2, Linked(tb, tb2), NEW start
    PROVE  Chain(tb2, start) = Chain(tb, start)
<1>1. \A C \in SUBSET (DOMAIN tb.node) : Leads(tb2, C) <=> Leads(tb, C)
  BY DEF Linked, Leads
<1>2. QED BY <1>1 DEF Linked, Chain

\* Main positions depend on the number of nodes only.
LEMMA SameMain ==
    ASSUME NEW tb, NEW tb2, tb2.lsizenode = tb.lsizenode, NEW key
    PROVE  luaH_mainposition(tb2, key) = luaH_mainposition(tb, key)
  BY DEF luaH_mainposition, sizenode

-----------------------------------------------------------------------------
(* The node of a new key.                                                      *)

\* From tb to tb2 the key has got node n, and the other fields are as before.
Entering(tb, tb2, n, key) ==
    /\ Sound(tb2) /\ tb2.array = tb.array /\ tb2.lsizenode = tb.lsizenode
    /\ tb2.ok = tb.ok /\ tb2.nested = tb.nested
    /\ DOMAIN tb2.node = DOMAIN tb.node
    /\ n \in DOMAIN tb2.node /\ tb2.node[n].key = key /\ tb2.node[n].val = Nil
    /\ \A m \in DOMAIN tb.node : tb2.node[m].key \in {key} \cup {tb.node[x].key : x \in DOMAIN tb.node}
    /\ Live(tb2) = Live(tb)

\* The same, before the free position is looked for.
Placing(tb, tb2, n, key) ==
    /\ Entering(tb, tb2, n, key) /\ tb2.firstfree = tb.firstfree
    /\ \A m \in DOMAIN tb.node : tb.node[m].key # Nil => tb2.node[m].key # Nil

\* A node that was never used is no main position of a key, and in the chain of no other.
LEMMA FreeIs ==
    ASSUME NEW tb, Sound(tb), NEW free \in DOMAIN tb.node, tb.node[free].key = Nil
    PROVE  /\ tb.node[free].next = -1 /\ tb.node[free].val = Nil /\ free \notin Real(tb)
           /\ \A n \in DOMAIN tb.node : tb.node[n].next # free
           /\ \A n \in Real(tb) : Home(tb, n) # free
           /\ Chain(tb, free) = {free}
<1>1. tb.node[free].next = -1 /\ tb.node[free].val = Nil /\ free \notin Real(tb)
  BY KeysAre DEF Sound, LinksOK, Real
<1>2. \A n \in DOMAIN tb.node : tb.node[n].next # free
  <2>1. -1 \notin DOMAIN tb.node
    BY NodesAre DEF Sound
  <2>2. QED BY <2>1 DEF Sound, LinksOK
<1>3. Chain(tb, free) = {free}
  BY <1>1, ChainStep DEF Sound
<1>4. \A n \in Real(tb) : Home(tb, n) # free
  <2>1. \A n \in Real(tb) : n \in Chain(tb, Home(tb, n))
    BY DEF Sound, KeysOK
  <2>2. QED BY <1>1, <1>3, <2>1
<1>5. QED BY <1>1, <1>2, <1>3, <1>4

\* First case: its main position has no value.
LEMMA PlacedThere ==
    ASSUME NEW tb, Sound(tb), NEW key \in Keys, Unused(tb, key),
           NEW n, n = luaH_mainposition(tb, key), tb.node[n].val = Nil
    PROVE  Placing(tb, [tb EXCEPT !.node[n].key = key], n, key)
<1> DEFINE tb2 == [tb EXCEPT !.node[n].key = key]
           D   == DOMAIN tb.node
<1>1. TypeOK(tb) /\ LinksOK(tb) /\ KeysOK(tb) /\ n \in D
  BY MainIs DEF Sound
<1>2. /\ DOMAIN tb2 = Fields /\ tb2.array = tb.array /\ tb2.lsizenode = tb.lsizenode
      /\ tb2.firstfree = tb.firstfree /\ tb2.ok = tb.ok /\ tb2.nested = tb.nested
      /\ tb2.node = [tb.node EXCEPT ![n] = [tb.node[n] EXCEPT !.key = key]]
  BY <1>1 DEF TypeOK, Fields
<1>3. /\ DOMAIN tb2.node = D
      /\ \A m \in D : /\ tb2.node[m].key = IF m = n THEN key ELSE tb.node[m].key
                      /\ tb2.node[m].val = tb.node[m].val /\ tb2.node[m].next = tb.node[m].next
                      /\ tb2.node[m] \in Node
  BY <1>1, <1>2, NodesAre DEF Node
<1>4. TypeOK(tb2)
  <2>1. tb2.node \in [D -> Node]
    BY <1>2, <1>3
  <2>2. QED BY <1>1, <1>2, <1>3, <2>1 DEF TypeOK
<1>5. tb2.node[n].key = key /\ tb2.node[n].val = Nil
  BY <1>1, <1>3
<1> HIDE DEF tb2
<1>6. Linked(tb, tb2)
  BY <1>2, <1>3 DEF Linked
<1>7. \A m \in D : tb.node[m].key # Nil => tb2.node[m].key # Nil
  BY <1>3, KeysAre
<1>8. LinksOK(tb2)
  <2>1. /\ \A m \in D : /\ tb.node[m].next # -1 => tb.node[m].next \in D /\ tb.node[tb.node[m].next].key # Nil
                        /\ tb.node[m].key = Nil => tb.node[m].next = -1 /\ tb.node[m].val = Nil
        /\ \A m, x \in D : tb.node[m].next = tb.node[x].next /\ tb.node[x].next # -1 => m = x
        /\ \A C \in SUBSET D : C # {} => \E m \in C : tb.node[m].next \notin C
    BY <1>1 DEF LinksOK
  <2>2. /\ \A m, x \in D : tb2.node[m].next = tb2.node[x].next /\ tb2.node[x].next # -1 => m = x
        /\ \A C \in SUBSET D : C # {} => \E m \in C : tb2.node[m].next \notin C
    BY <1>3, <2>1
  <2>3. ASSUME NEW m \in D
        PROVE  /\ tb2.node[m].next # -1 => tb2.node[m].next \in D /\ tb2.node[tb2.node[m].next].key # Nil
               /\ tb2.node[m].key = Nil => tb2.node[m].next = -1 /\ tb2.node[m].val = Nil
    BY <1>3, <1>7, <2>1, KeysAre
  <2>4. QED BY <1>3, <2>2, <2>3 DEF LinksOK
<1>9. Real(tb2) = Real(tb) \cup {n}
  BY <1>1, <1>3 DEF Real
<1>10. Home(tb2, n) = n /\ \A m \in Real(tb) : m # n => Home(tb2, m) = Home(tb, m)
  BY <1>1, <1>2, <1>3, SameMain DEF Home, Real
<1>11. KeysOK(tb2)
  <2>1. \A m \in D : tb2.node[m].val # Nil => m \in Real(tb2)
    BY <1>1, <1>3, <1>9 DEF KeysOK
  <2>2. \A m, x \in Real(tb2) : tb2.node[m].key = tb2.node[x].key => m = x
    BY <1>1, <1>3, <1>9 DEF KeysOK, Unused, Real
  <2>3. ASSUME NEW m \in Real(tb2) PROVE m \in Chain(tb2, Home(tb2, m)) /\ ~InArray(tb2, tb2.node[m].key)
    <3>1. CASE m = n
      <4>1. n \in Chain(tb, n)
        BY <1>1, ChainIs
      <4>2. QED BY <1>2, <1>5, <1>6, <1>10, <3>1, <4>1, SameChains DEF Unused, InArray, sizearray
    <3>2. CASE m # n
      <4>1. m \in Real(tb) /\ m \in D
        BY <1>9, <3>2 DEF Real
      <4>2. m \in Chain(tb, Home(tb, m)) /\ ~InArray(tb, tb.node[m].key)
        BY <1>1, <4>1 DEF KeysOK
      <4>3. QED BY <1>2, <1>3, <1>6, <1>10, <3>2, <4>1, <4>2, SameChains DEF InArray, sizearray
    <3>3. QED BY <3>1, <3>2
  <2>4. \A m, x \in Real(tb2) : Home(tb2, m) # m => Home(tb2, x) # m
    BY <1>1, <1>9, <1>10 DEF KeysOK
  <2>5. QED BY <1>1, <1>2, <1>3, <2>1, <2>2, <2>3, <2>4 DEF KeysOK, sizearray
<1>12. Live(tb2) = Live(tb)
  <2>1. NodeUse(tb2) = NodeUse(tb) /\ n \notin NodeUse(tb)
    BY <1>1, <1>3 DEF NodeUse
  <2>2. \A m \in NodeUse(tb) : tb2.node[m].key = tb.node[m].key /\ tb2.node[m].val = tb.node[m].val
    BY <1>3, <2>1 DEF NodeUse
  <2>3. QED BY <2>1, <2>2 DEF Live
<1>13. \A m \in D : tb2.node[m].key \in {key} \cup {tb.node[x].key : x \in D}
  BY <1>3
<1>14. QED BY <1>1, <1>2, <1>3, <1>4, <1>5, <1>7, <1>8, <1>11, <1>12, <1>13 DEF Placing, Entering, Sound, tb2


\* Tables that differ in their nodes only.
Renoded(tb, tb2) ==
    /\ DOMAIN tb2 = Fields /\ tb2.array = tb.array /\ tb2.lsizenode = tb.lsizenode
    /\ tb2.firstfree = tb.firstfree /\ tb2.ok = tb.ok /\ tb2.nested = tb.nested
    /\ DOMAIN tb2.node = DOMAIN tb.node
    /\ tb2.node = [m \in DOMAIN tb.node |-> tb2.node[m]]

\* The new key is chained behind the one in its main position.
Behind(tb, tb2, mp, free, key) ==
    /\ Renoded(tb, tb2)
    /\ \A m \in DOMAIN tb.node :
          /\ tb2.node[m].key = IF m = free THEN key ELSE tb.node[m].key
          /\ tb2.node[m].val = tb.node[m].val
          /\ tb2.node[m].next = IF m = free THEN tb.node[mp].next
                                ELSE IF m = mp THEN free ELSE tb.node[m].next
          /\ tb2.node[m] \in Node

LEMMA BehindIs ==
    ASSUME NEW tb, TypeOK(tb), NEW key \in Keys, NEW mp \in DOMAIN tb.node,
           NEW free \in DOMAIN tb.node, mp # free
    PROVE  Behind(tb, [[tb EXCEPT !.node[free].next = tb.node[mp].next, !.node[mp].next = free]
                         EXCEPT !.node[free].key = key], mp, free, key)
<1> DEFINE D == DOMAIN tb.node
           f == [tb.node EXCEPT ![free].next = tb.node[mp].next]
           g == [f EXCEPT ![mp].next = free]
           h == [g EXCEPT ![free].key = key]
           tb2 == [tb EXCEPT !.node = h]
<1>1. [[tb EXCEPT !.node[free].next = tb.node[mp].next, !.node[mp].next = free]
          EXCEPT !.node[free].key = key] = tb2
  BY DEF TypeOK, Fields
<1>2. /\ DOMAIN tb2 = Fields /\ tb2.array = tb.array /\ tb2.lsizenode = tb.lsizenode
      /\ tb2.firstfree = tb.firstfree /\ tb2.ok = tb.ok /\ tb2.nested = tb.nested /\ tb2.node = h
  BY DEF TypeOK, Fields
<1> HIDE DEF tb2
<1>3. \A m \in D : /\ tb.node[m] \in Node /\ tb.node[m].next \in Nat \cup {-1} /\ m \in Nat
  BY NodesAre DEF Node
<1>4. DOMAIN f = D /\ \A m \in D : f[m] = IF m = free THEN [tb.node[m] EXCEPT !.next = tb.node[mp].next] ELSE tb.node[m]
  OBVIOUS
<1> HIDE DEF f
<1>5. DOMAIN g = D /\ \A m \in D : g[m] = IF m = mp THEN [f[m] EXCEPT !.next = free] ELSE f[m]
  BY <1>4
<1> HIDE DEF g
<1>6. DOMAIN h = D /\ \A m \in D : h[m] = IF m = free THEN [g[m] EXCEPT !.key = key] ELSE g[m]
  BY <1>5
<1>7. h = [m \in D |-> h[m]]
  <2>1. h = [m \in DOMAIN g |-> h[m]]
    OBVIOUS
  <2>2. QED BY <1>5, <2>1
<1> HIDE DEF h
<1>8. ASSUME NEW m \in D
      PROVE  /\ h[m].key = IF m = free THEN key ELSE tb.node[m].key
             /\ h[m].val = tb.node[m].val
             /\ h[m].next = IF m = free THEN tb.node[mp].next
                            ELSE IF m = mp THEN free ELSE tb.node[m].next
             /\ h[m] \in Node
  <2>1. CASE m = free
    <3>1. f[m] = [tb.node[m] EXCEPT !.next = tb.node[mp].next] /\ g[m] = f[m]
          /\ h[m] = [g[m] EXCEPT !.key = key]
      BY <1>4, <1>5, <1>6, <2>1
    <3>2. key \in Keys \cup {Nil, Dead} /\ tb.node[m] \in Node /\ tb.node[mp].next \in Nat \cup {-1}
      BY <1>3
    <3>3. f[m] \in Node /\ f[m].val = tb.node[m].val /\ f[m].next = tb.node[mp].next
      BY <3>1, <3>2 DEF Node
    <3>4. h[m] \in Node /\ h[m].key = key /\ h[m].val = f[m].val /\ h[m].next = f[m].next
      BY <3>1, <3>2, <3>3 DEF Node
    <3>5. QED BY <2>1, <3>3, <3>4
  <2>2. CASE m = mp
    <3>1. f[m] = tb.node[m] /\ g[m] = [f[m] EXCEPT !.next = free] /\ h[m] = g[m]
      BY <1>4, <1>5, <1>6, <2>2
    <3>2. tb.node[m] \in Node /\ free \in Nat \cup {-1}
      BY <1>3
    <3>3. h[m] \in Node /\ h[m].key = tb.node[m].key /\ h[m].val = tb.node[m].val /\ h[m].next = free
      BY <3>1, <3>2 DEF Node
    <3>4. QED BY <2>2, <3>3
  <2>3. CASE m # mp /\ m # free
    BY <1>3, <1>4, <1>5, <1>6, <2>3
  <2>4. QED BY <2>1, <2>2, <2>3
<1>9. QED BY <1>1, <1>2, <1>6, <1>7, <1>8 DEF Behind, Renoded

\* Second case: the key that is there is in its main position, and the new one is chained
\* behind it in the free node.
LEMMA PlacedBehind ==
    ASSUME NEW tb, Sound(tb), NEW key \in Keys, Unused(tb, key),
           NEW mp, mp = luaH_mainposition(tb, key), tb.node[mp].val # Nil, Home(tb, mp) = mp,
           NEW free \in DOMAIN tb.node, tb.node[free].key = Nil,
           NEW tb2, Behind(tb, tb2, mp, free, key)
    PROVE  Placing(tb, tb2, free, key)
<1> DEFINE D == DOMAIN tb.node
<1>1. TypeOK(tb) /\ LinksOK(tb) /\ KeysOK(tb) /\ mp \in D /\ mp \in Real(tb) /\ mp # free /\ -1 \notin D
  <2>1. mp \in D
    BY MainIs DEF Sound
  <2>2. QED BY <2>1, NodesAre, FreeIs DEF Sound, KeysOK
<1>2. /\ tb.node[free].next = -1 /\ tb.node[free].val = Nil /\ free \notin Real(tb)
      /\ \A n \in D : tb.node[n].next # free
      /\ \A n \in Real(tb) : Home(tb, n) # free
  BY FreeIs
<1>3. Renoded(tb, tb2)
  BY DEF Behind
<1>4. /\ DOMAIN tb2.node = D
      /\ \A m \in D : /\ tb2.node[m].key = IF m = free THEN key ELSE tb.node[m].key
                      /\ tb2.node[m].val = tb.node[m].val
                      /\ tb2.node[m].next = IF m = free THEN tb.node[mp].next
                                            ELSE IF m = mp THEN free ELSE tb.node[m].next
                      /\ tb2.node[m] \in Node
  BY DEF Behind, Renoded
<1>5. TypeOK(tb2)
  <2>1. tb2.node \in [D -> Node]
    BY <1>3, <1>4 DEF Renoded
  <2>2. QED BY <1>1, <1>3, <1>4, <2>1 DEF TypeOK, Renoded
<1>6. -1 # free /\ key # Nil /\ tb.node[mp].key # Nil /\ tb.node[mp].next # free
  BY <1>1, <1>2, KeysAre DEF Real
<1>7. LinksOK(tb2)
  <2>1. /\ \A m \in D : /\ tb.node[m].next # -1 => tb.node[m].next \in D /\ tb.node[tb.node[m].next].key # Nil
                        /\ tb.node[m].key = Nil => tb.node[m].next = -1 /\ tb.node[m].val = Nil
        /\ \A m, x \in D : tb.node[m].next = tb.node[x].next /\ tb.node[x].next # -1 => m = x
        /\ \A C \in SUBSET D : C # {} => \E m \in C : tb.node[m].next \notin C
    BY <1>1 DEF LinksOK
  <2>2. ASSUME NEW m \in D
        PROVE  /\ tb2.node[m].next # -1 => tb2.node[m].next \in D /\ tb2.node[tb2.node[m].next].key # Nil
               /\ tb2.node[m].key = Nil => tb2.node[m].next = -1 /\ tb2.node[m].val = Nil
    BY <1>1, <1>4, <1>6, <2>1
  <2>3. ASSUME NEW m \in D, NEW x \in D, tb2.node[m].next = tb2.node[x].next, tb2.node[x].next # -1
        PROVE  m = x
    BY <1>1, <1>2, <1>4, <1>6, <2>1, <2>3
  <2>4. ASSUME NEW C \in SUBSET D, C # {}
        PROVE  \E m \in C : tb2.node[m].next \notin C
    <3>1. CASE C = {free}
      BY <1>4, <1>6, <3>1
    <3>2. CASE C # {free}
      <4>1. C \ {free} \in SUBSET D /\ C \ {free} # {}
        BY <2>4, <3>2
      <4>2. PICK m \in C \ {free} : tb.node[m].next \notin C \ {free}
        BY <2>1, <4>1
      <4>3. tb.node[m].next \notin C
        BY <1>2, <4>2
      <4>4. QED BY <1>1, <1>4, <4>2, <4>3
    <3>3. QED BY <3>1, <3>2
  <2>5. QED BY <1>4, <2>2, <2>3, <2>4 DEF LinksOK
<1>8. \A a \in D : Chain(tb, a) \subseteq Chain(tb2, a)
  <2>1. SUFFICES ASSUME NEW a \in D, NEW b \in Chain(tb, a),
                        NEW C \in SUBSET D, a \in C, Leads(tb2, C)
                 PROVE  b \in C
    BY <1>4 DEF Chain
  <2>2. Leads(tb, C)
    BY <1>1, <1>2, <1>4, <1>6, <2>1 DEF Leads
  <2>3. QED BY <2>1, <2>2 DEF Chain
<1>9. free \in Chain(tb2, mp)
  BY <1>1, <1>4, <1>6 DEF Chain, Leads
<1>10. Real(tb2) = Real(tb) \cup {free}
  BY <1>4 DEF Real
<1>11. Home(tb2, free) = mp /\ \A m \in Real(tb) : m \in D /\ m # free /\ Home(tb2, m) = Home(tb, m) /\ Home(tb, m) \in D
  <2>1. Home(tb2, free) = mp
    BY <1>3, <1>4, SameMain DEF Home, Renoded
  <2>2. ASSUME NEW m \in Real(tb) PROVE m \in D /\ m # free /\ Home(tb2, m) = Home(tb, m) /\ Home(tb, m) \in D
    BY <1>1, <1>2, <1>3, <1>4, SameMain, HomeIs DEF Home, Renoded
  <2>3. QED BY <2>1, <2>2
<1>12. KeysOK(tb2)
  <2>1. \A m \in D : tb2.node[m].val # Nil => m \in Real(tb2)
    BY <1>1, <1>4, <1>10 DEF KeysOK
  <2>2. \A m, x \in Real(tb2) : tb2.node[m].key = tb2.node[x].key => m = x
    BY <1>1, <1>4, <1>10 DEF KeysOK, Unused, Real
  <2>3. ASSUME NEW m \in Real(tb2) PROVE m \in Chain(tb2, Home(tb2, m)) /\ ~InArray(tb2, tb2.node[m].key)
    <3>1. CASE m = free
      BY <1>3, <1>4, <1>9, <1>11, <3>1 DEF Unused, InArray, sizearray, Renoded
    <3>2. CASE m # free
      <4>1. m \in Real(tb)
        BY <1>10, <3>2
      <4>2. m \in Chain(tb, Home(tb, m)) /\ ~InArray(tb, tb.node[m].key)
        BY <1>1, <4>1 DEF KeysOK
      <4>3. QED BY <1>3, <1>4, <1>8, <1>11, <3>2, <4>1, <4>2 DEF InArray, sizearray, Renoded
    <3>3. QED BY <3>1, <3>2
  <2>4. \A m, x \in Real(tb2) : Home(tb2, m) # m => Home(tb2, x) # m
    BY <1>1, <1>2, <1>10, <1>11 DEF KeysOK
  <2>5. QED BY <1>1, <1>3, <1>4, <2>1, <2>2, <2>3, <2>4 DEF KeysOK, sizearray, Renoded
<1>13. Live(tb2) = Live(tb)
  <2>1. NodeUse(tb2) = NodeUse(tb) /\ free \notin NodeUse(tb)
    BY <1>2, <1>4 DEF NodeUse
  <2>2. \A m \in NodeUse(tb) : tb2.node[m].key = tb.node[m].key /\ tb2.node[m].val = tb.node[m].val
    BY <1>4, <2>1 DEF NodeUse
  <2>3. QED BY <2>1, <2>2 DEF Live
<1>14. \A m \in D : /\ tb2.node[m].key \in {key} \cup {tb.node[x].key : x \in D}
                    /\ tb.node[m].key # Nil => tb2.node[m].key # Nil
  BY <1>4, <1>6
<1>15. tb2.node[free].key = key /\ tb2.node[free].val = Nil
  BY <1>2, <1>4
<1>16. QED BY <1>3, <1>4, <1>5, <1>7, <1>12, <1>13, <1>14, <1>15 DEF Placing, Entering, Sound, Renoded

\* The colliding node has moved to the free one, which takes its place in its chain.
Swapped(tb, tb2, mp, free, prev, key) ==
    /\ Renoded(tb, tb2)
    /\ \A m \in DOMAIN tb.node :
          /\ tb2.node[m].key = IF m = free THEN tb.node[mp].key ELSE IF m = mp THEN key ELSE tb.node[m].key
          /\ tb2.node[m].val = IF m = free THEN tb.node[mp].val ELSE IF m = mp THEN Nil ELSE tb.node[m].val
          /\ tb2.node[m].next = IF m = prev THEN free ELSE IF m = free THEN tb.node[mp].next
                                ELSE IF m = mp THEN -1 ELSE tb.node[m].next
          /\ tb2.node[m] \in Node

LEMMA SwappedIs ==
    ASSUME NEW tb, TypeOK(tb), NEW key \in Keys, NEW mp \in DOMAIN tb.node, NEW othern,
           NEW free \in DOMAIN tb.node, free = tb.firstfree,
           NEW prev \in DOMAIN tb.node, prev = Before(tb, othern, mp),
           mp # free, prev # mp, prev # free
    PROVE  Swapped(tb, [Moved(tb, mp, othern) EXCEPT !.node[mp].key = key], mp, free, prev, key)
<1> DEFINE D == DOMAIN tb.node
           e == [tb.node EXCEPT ![prev].next = free]
           f == [e EXCEPT ![free] = tb.node[mp]]
           g == [f EXCEPT ![mp] = [f[mp] EXCEPT !.next = -1, !.val = Nil]]
           h == [g EXCEPT ![mp].key = key]
           tb2 == [tb EXCEPT !.node = h]
<1>1. [Moved(tb, mp, othern) EXCEPT !.node[mp].key = key] = tb2
  BY DEF TypeOK, Fields, Moved
<1>2. /\ DOMAIN tb2 = Fields /\ tb2.array = tb.array /\ tb2.lsizenode = tb.lsizenode
      /\ tb2.firstfree = tb.firstfree /\ tb2.ok = tb.ok /\ tb2.nested = tb.nested /\ tb2.node = h
  BY DEF TypeOK, Fields
<1> HIDE DEF tb2
<1>3. \A m \in D : tb.node[m] \in Node /\ tb.node[m].next \in Nat \cup {-1} /\ m \in Nat
  BY NodesAre
<1>4. DOMAIN e = D /\ \A m \in D : e[m] = IF m = prev THEN [tb.node[m] EXCEPT !.next = free] ELSE tb.node[m]
  OBVIOUS
<1> HIDE DEF e
<1>5. DOMAIN f = D /\ \A m \in D : f[m] = IF m = free THEN tb.node[mp] ELSE e[m]
  BY <1>4
<1> HIDE DEF f
<1>6. DOMAIN g = D /\ \A m \in D : g[m] = IF m = mp THEN [f[m] EXCEPT !.next = -1, !.val = Nil] ELSE f[m]
  BY <1>5
<1> HIDE DEF g
<1>7. DOMAIN h = D /\ \A m \in D : h[m] = IF m = mp THEN [g[m] EXCEPT !.key = key] ELSE g[m]
  BY <1>6
<1>8. h = [m \in D |-> h[m]]
  <2>1. h = [m \in DOMAIN g |-> h[m]]
    OBVIOUS
  <2>2. QED BY <1>6, <2>1
<1> HIDE DEF h
<1>9. ASSUME NEW m \in D
      PROVE  /\ h[m].key = IF m = free THEN tb.node[mp].key ELSE IF m = mp THEN key ELSE tb.node[m].key
             /\ h[m].val = IF m = free THEN tb.node[mp].val ELSE IF m = mp THEN Nil ELSE tb.node[m].val
             /\ h[m].next = IF m = prev THEN free ELSE IF m = free THEN tb.node[mp].next
                            ELSE IF m = mp THEN -1 ELSE tb.node[m].next
             /\ h[m] \in Node
  <2>1. CASE m = prev
    <3>1. e[m] = [tb.node[m] EXCEPT !.next = free] /\ f[m] = e[m] /\ g[m] = f[m] /\ h[m] = g[m]
      BY <1>4, <1>5, <1>6, <1>7, <2>1
    <3>2. tb.node[m] \in Node /\ free \in Nat \cup {-1}
      BY <1>3
    <3>3. h[m] \in Node /\ h[m].key = tb.node[m].key /\ h[m].val = tb.node[m].val /\ h[m].next = free
      BY <3>1, <3>2 DEF Node
    <3>4. QED BY <2>1, <3>3
  <2>2. CASE m = free
    <3>1. h[m] = tb.node[mp]
      BY <1>4, <1>5, <1>6, <1>7, <2>2
    <3>2. QED BY <1>3, <2>2, <3>1
  <2>3. CASE m = mp
    <3>1. e[m] = tb.node[m] /\ f[m] = e[m] /\ g[m] = [f[m] EXCEPT !.next = -1, !.val = Nil]
          /\ h[m] = [g[m] EXCEPT !.key = key]
      BY <1>4, <1>5, <1>6, <1>7, <2>3
    <3>2. f[m] \in Node /\ key \in Keys \cup {Nil, Dead} /\ Nil \in Vals
      BY <1>3, <3>1 DEF Vals
    <3>3. g[m] \in Node /\ g[m].val = Nil /\ g[m].next = -1
      BY <3>1, <3>2 DEF Node
    <3>4. h[m] \in Node /\ h[m].key = key /\ h[m].val = Nil /\ h[m].next = -1
      BY <3>1, <3>2, <3>3 DEF Node
    <3>5. QED BY <2>3, <3>4
  <2>4. CASE m # prev /\ m # free /\ m # mp
    BY <1>3, <1>4, <1>5, <1>6, <1>7, <2>4
  <2>5. QED BY <2>1, <2>2, <2>3, <2>4
<1>10. Renoded(tb, tb2)
  BY <1>2, <1>7, <1>8 DEF Renoded
<1>11. Swapped(tb, tb2, mp, free, prev, key)
  <2>1. \A m \in DOMAIN tb.node : tb2.node[m] = h[m]
    BY <1>2
  <2>2. QED BY <1>9, <1>10, <2>1 DEF Swapped
<1>12. QED BY <1>1, <1>11

\* The node in front of one that is not first in its chain.
LEMMA BeforeIs ==
    ASSUME NEW tb, Sound(tb), NEW mp \in Real(tb), Home(tb, mp) # mp
    PROVE  /\ Before(tb, Home(tb, mp), mp) \in DOMAIN tb.node
           /\ tb.node[Before(tb, Home(tb, mp), mp)].next = mp
           /\ Before(tb, Home(tb, mp), mp) # mp
<1> DEFINE D == DOMAIN tb.node
           home == Home(tb, mp)
           S == {n \in D : tb.node[n].next = mp}
<1>1. TypeOK(tb) /\ LinksOK(tb) /\ KeysOK(tb) /\ mp \in D /\ home \in D /\ -1 \notin D
  BY HomeIs, NodesAre DEF Sound
<1>2. S \in SUBSET D /\ \A x, y \in S : x = y
  BY <1>1 DEF LinksOK
<1>3. Before(tb, home, mp) = FirstIn(tb, home, S)
  BY DEF Before
<1>4. \/ Before(tb, home, mp) \in S
      \/ Chain(tb, home) \cap S = {}
  <2> HIDE DEF S, home
  <2>1. \/ FirstIn(tb, home, S) \in S /\ FirstIn(tb, home, S) \in Chain(tb, home)
        \/ FirstIn(tb, home, S) = -1 /\ Chain(tb, home) \cap S = {}
    BY <1>1, <1>2, FirstIs
  <2>2. QED BY <1>3, <2>1
<1>5. Chain(tb, home) \cap S # {}
  <2>1. SUFFICES ASSUME Chain(tb, home) \cap S = {} PROVE FALSE
    OBVIOUS
  <2> DEFINE C == Chain(tb, home) \ {mp}
  <2>2. home \in Chain(tb, home) /\ Leads(tb, Chain(tb, home)) /\ Chain(tb, home) \subseteq D
    BY <1>1, ChainIs
  <2>3. mp \in Chain(tb, home)
    BY <1>1 DEF KeysOK
  <2>4. Leads(tb, C)
    BY <2>1, <2>2 DEF Leads
  <2>5. C \in SUBSET D /\ home \in C
    BY <2>2
  <2> HIDE DEF C
  <2>6. Chain(tb, home) \subseteq C
    BY <1>1, <2>4, <2>5, ChainIs
  <2>7. QED BY <2>3, <2>6 DEF C
<1>6. tb.node[mp].next # mp
  <2>1. {mp} \in SUBSET D /\ {mp} # {}
    BY <1>1
  <2>2. QED BY <1>1, <2>1 DEF LinksOK
<1>7. QED BY <1>4, <1>5, <1>6

\* Third case: the key that is there is not in its main position.
LEMMA PlacedMoved ==
    ASSUME NEW tb, Sound(tb), NEW key \in Keys, Unused(tb, key),
           NEW mp, mp = luaH_mainposition(tb, key), tb.node[mp].val # Nil, Home(tb, mp) # mp,
           NEW free \in DOMAIN tb.node, tb.node[free].key = Nil,
           NEW prev \in DOMAIN tb.node, tb.node[prev].next = mp,
           NEW tb2, Swapped(tb, tb2, mp, free, prev, key)
    PROVE  Placing(tb, tb2, mp, key)
<1> DEFINE D == DOMAIN tb.node
           othern == Home(tb, mp)
           nx(m) == tb.node[m].next
<1>1. /\ TypeOK(tb) /\ LinksOK(tb) /\ KeysOK(tb) /\ mp \in D /\ mp \in Real(tb) /\ mp # free /\ -1 \notin D
      /\ othern \in D
  <2>1. mp \in D
    BY MainIs DEF Sound
  <2>2. QED BY <2>1, NodesAre, FreeIs, HomeIs DEF Sound, KeysOK
<1>2. /\ nx(free) = -1 /\ tb.node[free].val = Nil /\ free \notin Real(tb)
      /\ \A n \in D : nx(n) # free
      /\ \A n \in Real(tb) : Home(tb, n) # free
  BY FreeIs
<1>3. Renoded(tb, tb2)
  BY DEF Swapped
<1>4. /\ DOMAIN tb2.node = D
      /\ \A m \in D : /\ tb2.node[m].key = IF m = free THEN tb.node[mp].key ELSE IF m = mp THEN key ELSE tb.node[m].key
                      /\ tb2.node[m].val = IF m = free THEN tb.node[mp].val ELSE IF m = mp THEN Nil ELSE tb.node[m].val
                      /\ tb2.node[m].next = IF m = prev THEN free ELSE IF m = free THEN nx(mp)
                                            ELSE IF m = mp THEN -1 ELSE nx(m)
                      /\ tb2.node[m] \in Node
  BY DEF Swapped, Renoded
<1>5. TypeOK(tb2)
  <2>1. tb2.node \in [D -> Node]
    BY <1>3, <1>4 DEF Renoded
  <2>2. QED BY <1>1, <1>3, <1>4, <2>1 DEF TypeOK, Renoded
<1>6. /\ \A m \in D : /\ nx(m) # -1 => nx(m) \in D /\ tb.node[nx(m)].key # Nil
                      /\ tb.node[m].key = Nil => nx(m) = -1 /\ tb.node[m].val = Nil
      /\ \A m, x \in D : nx(m) = nx(x) /\ nx(x) # -1 => m = x
      /\ \A C \in SUBSET D : C # {} => \E m \in C : nx(m) \notin C
  BY <1>1 DEF LinksOK
<1>7. nx(mp) # mp /\ prev # mp /\ prev # free /\ \A m \in D : nx(m) = mp => m = prev
  <2>1. {mp} \in SUBSET D /\ {mp} # {}
    BY <1>1
  <2>2. nx(mp) # mp
    BY <1>6, <2>1
  <2>3. QED BY <1>1, <1>2, <1>6, <2>2
<1>8. -1 # free /\ key # Nil /\ tb.node[mp].key # Nil /\ nx(mp) # free
  BY <1>1, <1>2, KeysAre DEF Real
<1> HIDE DEF nx
<1>9. LinksOK(tb2)
  <2>1. ASSUME NEW m \in D
        PROVE  /\ tb2.node[m].next # -1 => tb2.node[m].next \in D /\ tb2.node[tb2.node[m].next].key # Nil
               /\ tb2.node[m].key = Nil => tb2.node[m].next = -1 /\ tb2.node[m].val = Nil
    <3>1. \A x \in D : tb.node[x].key # Nil => tb2.node[x].key # Nil
      BY <1>4, <1>8
    <3>2. tb2.node[m].next # -1 => tb2.node[m].next \in D /\ tb2.node[tb2.node[m].next].key # Nil
      <4>1. CASE m = prev
        BY <1>1, <1>4, <1>8, <4>1
      <4>2. CASE m # prev
        BY <1>1, <1>4, <1>6, <3>1, <4>2
      <4>3. QED BY <4>1, <4>2
    <3>3. tb2.node[m].key = Nil => tb2.node[m].next = -1 /\ tb2.node[m].val = Nil
      <4>1. SUFFICES ASSUME tb2.node[m].key = Nil PROVE tb2.node[m].next = -1 /\ tb2.node[m].val = Nil
        OBVIOUS
      <4>2. m # free /\ m # mp /\ tb.node[m].key = Nil
        BY <1>4, <1>8, <4>1
      <4>3. nx(m) = -1 /\ tb.node[m].val = Nil
        BY <1>6, <4>2
      <4>4. m # prev
        BY <1>1, <4>3 DEF nx
      <4>5. QED BY <1>4, <4>2, <4>3, <4>4
    <3>4. QED BY <3>2, <3>3
  <2>2. ASSUME NEW m \in D, NEW x \in D, tb2.node[m].next = tb2.node[x].next, tb2.node[x].next # -1
        PROVE  m = x
    BY <1>1, <1>2, <1>4, <1>6, <1>7, <1>8, <2>2
  <2>3. ASSUME NEW C \in SUBSET D, C # {}
        PROVE  \E m \in C : tb2.node[m].next \notin C
    <3>1. CASE free \notin C
      <4>1. PICK m \in C : nx(m) \notin C
        BY <1>6, <2>3
      <4>2. tb2.node[m].next \notin C
        BY <1>1, <1>4, <3>1, <4>1
      <4>3. QED BY <4>1, <4>2
    <3>2. CASE free \in C
      <4> DEFINE C2 == (C \ {free}) \cup {mp}
      <4>1. C2 \in SUBSET D /\ C2 # {}
        BY <1>1
      <4>2. PICK m \in C2 : nx(m) \notin C2
        BY <1>6, <4>1
      <4>3. nx(m) \notin C /\ m \in D /\ nx(m) # mp
        BY <1>2, <4>1, <4>2
      <4>4. CASE m = mp
        BY <1>1, <1>4, <1>7, <3>2, <4>3, <4>4
      <4>5. CASE m # mp
        <5>1. m \in C /\ m # free /\ m # prev
          BY <4>2, <4>3, <4>5 DEF nx
        <5>2. QED BY <1>4, <4>3, <4>5, <5>1
      <4>6. QED BY <4>4, <4>5
    <3>3. QED BY <3>1, <3>2
  <2>4. QED BY <1>4, <2>1, <2>2, <2>3 DEF LinksOK
<1>10. ASSUME NEW a \in D, a # mp, a # free, NEW b \in Chain(tb, a)
       PROVE  IF b = mp THEN free \in Chain(tb2, a) ELSE b \in Chain(tb2, a)
  <2>1. b \in D
    BY DEF Chain
  <2>2. SUFFICES ASSUME NEW C \in SUBSET D, a \in C, Leads(tb2, C)
                 PROVE  IF b = mp THEN free \in C ELSE b \in C
    BY <1>4, <2>1 DEF Chain
  <2> DEFINE C1 == (C \ {mp, free}) \cup (IF free \in C THEN {mp} ELSE {})
  <2>3. C1 \in SUBSET D /\ a \in C1
    BY <1>1, <1>10, <2>2
  <2>4. \A m \in C : tb2.node[m].next \in C \cup {-1} /\ m \in D
    BY <2>2 DEF Leads
  <2>5. ASSUME NEW m \in C1 PROVE nx(m) \in C1 \cup {-1}
    <3>1. CASE m = mp
      <4>1. free \in C /\ nx(mp) \in C \cup {-1}
        BY <1>4, <1>7, <2>4, <2>5, <3>1
      <4>2. QED BY <1>7, <1>8, <3>1, <4>1
    <3>2. CASE m = prev
      <4>1. m \in C /\ free \in C
        BY <1>4, <1>7, <1>8, <2>4, <2>5, <3>2
      <4>2. QED BY <3>2, <4>1 DEF nx
    <3>3. CASE m # mp /\ m # prev
      <4>1. m \in C /\ m # free /\ m \in D
        BY <2>4, <2>5, <3>3
      <4>2. nx(m) \in C \cup {-1} /\ nx(m) # free /\ nx(m) # mp
        BY <1>2, <1>4, <1>7, <2>4, <3>3, <4>1
      <4>3. QED BY <4>2
    <3>4. QED BY <3>1, <3>2, <3>3
  <2>6. Leads(tb, C1)
    BY <2>5 DEF Leads, nx
  <2> HIDE DEF C1
  <2>7. b \in C1
    BY <2>3, <2>6 DEF Chain
  <2>8. QED BY <2>7 DEF C1
<1>11. Real(tb2) = Real(tb) \cup {free}
  BY <1>1, <1>4 DEF Real
<1>12. /\ Home(tb2, mp) = mp /\ Home(tb2, free) = othern
       /\ \A m \in Real(tb) : m # mp => m \in D /\ m # free /\ Home(tb2, m) = Home(tb, m) /\ Home(tb, m) \in D
  <2>1. Home(tb2, mp) = mp
    BY <1>1, <1>3, <1>4, SameMain DEF Home, Renoded
  <2>2. Home(tb2, free) = othern
    BY <1>3, <1>4, SameMain DEF Home, Renoded
  <2>3. ASSUME NEW m \in Real(tb), m # mp PROVE m \in D /\ m # free /\ Home(tb2, m) = Home(tb, m) /\ Home(tb, m) \in D
    <3>1. m \in D /\ m # free /\ Home(tb, m) \in D
      BY <1>1, <1>2, HomeIs
    <3>2. tb2.node[m].key = tb.node[m].key
      BY <1>4, <2>3, <3>1
    <3>3. QED BY <1>3, <3>1, <3>2, SameMain DEF Home, Renoded
  <2>4. QED BY <2>1, <2>2, <2>3
<1>13. \A m \in Real(tb) : Home(tb, m) # mp /\ Home(tb, m) # free
  BY <1>1, <1>2 DEF KeysOK
<1> HIDE DEF othern
<1>14. othern # mp /\ othern # free /\ othern \in D
  BY <1>1, <1>13 DEF othern
<1>15. KeysOK(tb2)
  <2>1. \A m \in D : tb2.node[m].val # Nil => m \in Real(tb2)
    BY <1>1, <1>4, <1>11 DEF KeysOK
  <2>2. \A m, x \in Real(tb2) : tb2.node[m].key = tb2.node[x].key => m = x
    <3>1. \A m, x \in Real(tb) : tb.node[m].key = tb.node[x].key => m = x
      BY <1>1 DEF KeysOK
    <3>2. \A m \in Real(tb) : m \in D /\ tb.node[m].key # key
      BY DEF Unused, Real
    <3>3. QED BY <1>1, <1>2, <1>4, <1>11, <3>1, <3>2
  <2>3. ASSUME NEW m \in Real(tb2) PROVE m \in Chain(tb2, Home(tb2, m)) /\ ~InArray(tb2, tb2.node[m].key)
    <3>1. CASE m = free
      <4>1. mp \in Chain(tb, othern) /\ ~InArray(tb, tb.node[mp].key)
        BY <1>1 DEF KeysOK, othern
      <4>2. free \in Chain(tb2, othern)
        BY <1>10, <1>14, <4>1
      <4>3. tb2.node[m].key = tb.node[mp].key /\ Home(tb2, m) = othern
        BY <1>4, <1>12, <3>1
      <4>4. QED BY <1>3, <3>1, <4>1, <4>2, <4>3 DEF InArray, sizearray, Renoded
    <3>2. CASE m = mp
      <4>1. mp \in Chain(tb2, mp)
        BY <1>1, <1>4, <1>9, ChainIs
      <4>2. tb2.node[m].key = key
        BY <1>1, <1>4, <3>2
      <4>3. QED BY <1>3, <1>12, <3>2, <4>1, <4>2 DEF Unused, InArray, sizearray, Renoded
    <3>3. CASE m # free /\ m # mp
      <4>1. m \in Real(tb) /\ m \in D
        BY <1>11, <3>3 DEF Real
      <4>2. m \in Chain(tb, Home(tb, m)) /\ ~InArray(tb, tb.node[m].key)
        BY <1>1, <4>1 DEF KeysOK
      <4>3. Home(tb, m) \in D /\ Home(tb, m) # mp /\ Home(tb, m) # free /\ Home(tb2, m) = Home(tb, m)
        BY <1>12, <1>13, <3>3, <4>1
      <4>4. m \in Chain(tb2, Home(tb, m))
        BY <1>10, <3>3, <4>2, <4>3
      <4>5. tb2.node[m].key = tb.node[m].key
        BY <1>4, <3>3, <4>1
      <4>6. QED BY <1>3, <4>2, <4>3, <4>4, <4>5 DEF InArray, sizearray, Renoded
    <3>4. QED BY <3>1, <3>2, <3>3
  <2>4. ASSUME NEW m \in Real(tb2), NEW x \in Real(tb2), Home(tb2, m) # m PROVE Home(tb2, x) # m
    <3>1. \A y, z \in Real(tb) : Home(tb, y) # y => Home(tb, z) # y
      BY <1>1 DEF KeysOK
    <3>2. m # mp
      BY <1>12, <2>4
    <3>3. CASE m = free
      BY <1>1, <1>11, <1>12, <1>13, <1>14, <3>3
    <3>4. CASE m # free
      <4>1. m \in Real(tb) /\ Home(tb, m) # m
        BY <1>11, <1>12, <2>4, <3>2, <3>4
      <4>2. othern # m
        BY <1>1, <3>1, <4>1 DEF othern
      <4>3. QED BY <1>11, <1>12, <3>1, <3>2, <4>1, <4>2
    <3>5. QED BY <3>3, <3>4
  <2>5. QED BY <1>1, <1>3, <1>4, <2>1, <2>2, <2>3, <2>4 DEF KeysOK, sizearray, Renoded
<1>16. Live(tb2) = Live(tb)
  <2>1. /\ NodeUse(tb2) = (NodeUse(tb) \ {mp}) \cup {free}
        /\ mp \in NodeUse(tb) /\ free \notin NodeUse(tb)
    BY <1>1, <1>2, <1>4 DEF NodeUse
  <2>2. \A m \in NodeUse(tb) \ {mp} : tb2.node[m].key = tb.node[m].key /\ tb2.node[m].val = tb.node[m].val
    BY <1>4, <2>1 DEF NodeUse
  <2>3. tb2.node[free].key = tb.node[mp].key /\ tb2.node[free].val = tb.node[mp].val
    BY <1>4
  <2>4. ASSUME NEW z \in Live(tb) PROVE z \in Live(tb2)
    <3>1. PICK m \in NodeUse(tb) : z = <<tb.node[m].key, tb.node[m].val>>
      BY <2>4 DEF Live
    <3>2. QED BY <2>1, <2>2, <2>3, <3>1 DEF Live
  <2>5. ASSUME NEW z \in Live(tb2) PROVE z \in Live(tb)
    <3>1. PICK m \in NodeUse(tb2) : z = <<tb2.node[m].key, tb2.node[m].val>>
      BY <2>5 DEF Live
    <3>2. QED BY <2>1, <2>2, <2>3, <3>1 DEF Live
  <2>6. QED BY <2>4, <2>5
<1>17. \A m \in D : /\ tb2.node[m].key \in {key} \cup {tb.node[x].key : x \in D}
                    /\ tb.node[m].key # Nil => tb2.node[m].key # Nil
  BY <1>1, <1>4, <1>8
<1>18. tb2.node[mp].key = key /\ tb2.node[mp].val = Nil
  BY <1>1, <1>4
<1>19. QED BY <1>1, <1>3, <1>4, <1>5, <1>9, <1>15, <1>16, <1>17, <1>18 DEF Placing, Entering, Sound, Renoded

\* All cases of Placed.
LEMMA PlacedIs ==
    ASSUME NEW tb, Sound(tb), FreeOK(tb), NEW key \in Keys, Unused(tb, key)
    PROVE  LET pl == Placed(tb, key)
           IN  /\ Placing(tb, [pl.tb EXCEPT !.node[pl.n].key = key], pl.n, key)
               /\ pl.tb.node[pl.n].val = Nil
<1> DEFINE mp == luaH_mainposition(tb, key)
           home == Home(tb, mp)
           free == tb.firstfree
           prev == Before(tb, home, mp)
           pl == Placed(tb, key)
           chained == [tb EXCEPT !.node[free].next = tb.node[mp].next, !.node[mp].next = free]
<1>1. TypeOK(tb) /\ LinksOK(tb) /\ KeysOK(tb) /\ mp \in DOMAIN tb.node
      /\ free \in DOMAIN tb.node /\ tb.node[free].key = Nil /\ tb.node[free].val = Nil
  <2>1. TypeOK(tb) /\ LinksOK(tb) /\ KeysOK(tb)
    BY DEF Sound
  <2>2. free \in DOMAIN tb.node /\ tb.node[free].key = Nil
    BY <2>1 DEF TypeOK, FreeOK
  <2>3. tb.node[free].val = Nil
    BY <2>1, <2>2 DEF LinksOK
  <2>4. QED BY <2>1, <2>2, <2>3, MainIs
<1>2. pl = IF tb.node[mp].val = Nil THEN [tb |-> tb, n |-> mp]
           ELSE IF home # mp THEN [tb |-> Moved(tb, mp, home), n |-> mp]
           ELSE [tb |-> chained, n |-> free]
  BY DEF Placed, Home
<1> HIDE DEF pl
<1>3. CASE tb.node[mp].val = Nil
  <2>1. pl.tb = tb /\ pl.n = mp
    BY <1>2, <1>3
  <2>2. Placing(tb, [tb EXCEPT !.node[mp].key = key], mp, key)
    BY <1>3, PlacedThere
  <2>3. QED BY <1>3, <2>1, <2>2 DEF pl
<1>4. CASE tb.node[mp].val # Nil /\ home # mp
  <2>1. pl.tb = Moved(tb, mp, home) /\ pl.n = mp
    BY <1>2, <1>4
  <2>2. mp \in Real(tb) /\ mp # free
    BY <1>1, <1>4 DEF KeysOK
  <2>3. prev \in DOMAIN tb.node /\ tb.node[prev].next = mp /\ prev # mp
    BY <1>4, <2>2, BeforeIs
  <2>4. prev # free
    <3>1. tb.node[free].next = -1 /\ -1 \notin DOMAIN tb.node
      BY <1>1, FreeIs, NodesAre
    <3>2. QED BY <1>1, <2>3, <3>1
  <2> DEFINE tb2 == [Moved(tb, mp, home) EXCEPT !.node[mp].key = key]
  <2>5. Swapped(tb, tb2, mp, free, prev, key)
    BY <1>1, <2>2, <2>3, <2>4, SwappedIs
  <2> HIDE DEF tb2
  <2>6. Placing(tb, tb2, mp, key)
    BY <1>1, <1>4, <2>3, <2>5, PlacedMoved
  <2>7. Moved(tb, mp, home).node[mp].val = Nil
    BY <1>1, <2>2, <2>3 DEF Moved, TypeOK, Fields
  <2>8. QED BY <2>1, <2>6, <2>7 DEF pl, tb2
<1>5. CASE tb.node[mp].val # Nil /\ home = mp
  <2>1. pl.tb = chained /\ pl.n = free
    BY <1>2, <1>5
  <2>2. mp # free
    BY <1>1, <1>5
  <2> DEFINE tb2 == [chained EXCEPT !.node[free].key = key]
  <2>3. Behind(tb, tb2, mp, free, key)
    BY <1>1, <2>2, BehindIs
  <2> HIDE DEF tb2
  <2>4. Placing(tb, tb2, free, key)
    BY <1>1, <1>5, <2>3, PlacedBehind
  <2>5. chained.node[free].val = Nil
    <3> DEFINE f == [tb.node EXCEPT ![free].next = tb.node[mp].next]
               g == [f EXCEPT ![mp].next = free]
    <3>1. chained.node = g
      BY <1>1 DEF TypeOK, Fields
    <3>2. f[free] = [tb.node[free] EXCEPT !.next = tb.node[mp].next] /\ DOMAIN f = DOMAIN tb.node
      BY <1>1
    <3> HIDE DEF f
    <3>3. g[free] = f[free]
      BY <1>1, <2>2, <3>2
    <3>4. tb.node[free] \in Node
      BY <1>1, NodesAre
    <3>5. f[free].val = tb.node[free].val
      BY <3>2, <3>4 DEF Node
    <3>6. QED BY <1>1, <3>1, <3>3, <3>5
  <2>6. QED BY <2>1, <2>4, <2>5 DEF pl, tb2
<1>6. QED BY <1>3, <1>4, <1>5

\* The rest of a table does not count.
LEMMA SameSound ==
    ASSUME NEW tb, Sound(tb), NEW tb2, TypeOK(tb2),
           tb2.node = tb.node, tb2.array = tb.array, tb2.lsizenode = tb.lsizenode
    PROVE  /\ Sound(tb2) /\ Live(tb2) = Live(tb)
           /\ \A key \in Keys : luaH_get(tb2, key) = luaH_get(tb, key) /\ Value(tb2, key) = Value(tb, key)
<1>1. TypeOK(tb) /\ LinksOK(tb) /\ KeysOK(tb)
  BY DEF Sound
<1>2. LinksOK(tb2)
  BY <1>1 DEF LinksOK
<1>3. /\ Linked(tb, tb2) /\ Real(tb2) = Real(tb) /\ sizearray(tb2) = sizearray(tb)
      /\ \A key : InArray(tb2, key) <=> InArray(tb, key)
  BY DEF Linked, Real, InArray, sizearray
<1>4. \A n : Home(tb2, n) = Home(tb, n) /\ Chain(tb2, n) = Chain(tb, n)
  BY <1>3, SameMain, SameChains DEF Home
<1>5. KeysOK(tb2)
  BY <1>1, <1>3, <1>4 DEF KeysOK
<1>6. Live(tb2) = Live(tb)
  BY DEF Live, NodeUse
<1>7. Sound(tb2)
  BY <1>2, <1>5 DEF Sound
<1>8. ASSUME NEW key \in Keys PROVE luaH_get(tb2, key) = luaH_get(tb, key)
  <2>1. CASE InArray(tb, key)
    BY <1>3, <1>7, <2>1, GetIs
  <2>2. CASE \E n \in DOMAIN tb.node : tb.node[n].key = key
    BY <1>7, <2>2, ValueIs
  <2>3. CASE Unused(tb, key)
    BY <1>3, <1>7, <2>3, GetIs DEF Unused
  <2>4. QED BY <2>1, <2>2, <2>3 DEF Unused
<1>9. \A key \in Keys : Value(tb2, key) = Value(tb, key)
  BY <1>8 DEF Value, ValueAt
<1>10. QED BY <1>6, <1>7, <1>8, <1>9

\* Entering a key gives it a node, and the free position stays the last node with no key
\* unless there is none left.
LEMMA EnteredIs ==
    ASSUME NEW tb, Sound(tb), FreeOK(tb), NEW key \in Keys, Unused(tb, key)
    PROVE  LET e == Entered(tb, key)
           IN  /\ Entering(tb, e.tb, e.n, key) /\ e.full \in BOOLEAN
               /\ ~e.full => FreeOK(e.tb)
               /\ e.full => \A n \in DOMAIN e.tb.node : e.tb.node[n].key # Nil
<1> DEFINE pl   == Placed(tb, key)
           put  == [pl.tb EXCEPT !.node[pl.n].key = key]
           free == {n \in 0..put.firstfree : put.node[n].key = Nil}
           last == IF free = {} THEN 0 ELSE CHOOSE n \in free : \A m \in free : m <= n
           e == Entered(tb, key)
           tb2 == [put EXCEPT !.firstfree = last]
<1>1. Placing(tb, put, pl.n, key) /\ pl.tb.node[pl.n].val = Nil
  BY PlacedIs
<1>2. e.tb = tb2 /\ e.n = pl.n /\ e.full = (free = {})
  BY <1>1 DEF Entered, Corrected, Asserted
<1> HIDE DEF e, put, pl
<1>3. Sound(put) /\ TypeOK(put) /\ put.firstfree \in DOMAIN put.node /\ put.firstfree \in Nat
      /\ DOMAIN put.node \subseteq Nat /\ 0 \in DOMAIN put.node /\ \A n \in 0..put.firstfree : n \in DOMAIN put.node
  <2>1. Sound(put) /\ TypeOK(put)
    BY <1>1 DEF Placing, Entering, Sound
  <2>2. QED BY <2>1, NodesAre DEF TypeOK
<1>4. free # {} => last \in free /\ \A m \in free : m <= last
  <2>1. SUFFICES ASSUME free # {} PROVE \E n \in free : \A m \in free : m <= n
    BY Zenon
  <2> DEFINE N == {k \in 0..put.firstfree : put.firstfree - k \in free}
  <2>2. N \in SUBSET Nat /\ N # {}
    <3>1. PICK n \in free : TRUE
      BY <2>1
    <3>2. put.firstfree - n \in 0..put.firstfree /\ put.firstfree - (put.firstfree - n) = n
      BY <1>3, <3>1
    <3>3. put.firstfree - n \in N
      BY <3>1, <3>2
    <3>4. QED BY <1>3, <3>3
  <2>3. PICK k \in N : \A j \in N : k <= j
    BY <2>2, Least
  <2>4. put.firstfree - k \in free
    BY <2>3
  <2>5. ASSUME NEW m \in free PROVE m <= put.firstfree - k
    <3>1. put.firstfree - m \in 0..put.firstfree /\ put.firstfree - (put.firstfree - m) = m
      BY <1>3, <2>5
    <3>2. put.firstfree - m \in N
      BY <2>5, <3>1
    <3>3. QED BY <1>3, <2>3, <2>5, <3>2
  <2>6. QED BY <2>4, <2>5
<1>5. last \in DOMAIN put.node
  BY <1>3, <1>4
<1> HIDE DEF last
<1>6. /\ tb2.node = put.node /\ tb2.array = put.array /\ tb2.lsizenode = put.lsizenode
      /\ tb2.ok = put.ok /\ tb2.nested = put.nested /\ tb2.firstfree = last /\ DOMAIN tb2 = DOMAIN put
  BY <1>3 DEF TypeOK, Fields
<1> HIDE DEF tb2
<1>7. TypeOK(tb2)
  BY <1>3, <1>5, <1>6 DEF TypeOK
<1>8. Sound(tb2) /\ Live(tb2) = Live(put)
  BY <1>3, <1>6, <1>7, SameSound
<1>9. Entering(tb, tb2, pl.n, key)
  BY <1>1, <1>6, <1>8 DEF Placing, Entering
<1>10. \A n \in DOMAIN put.node : n > put.firstfree => put.node[n].key # Nil
  BY <1>1 DEF Placing, Entering, FreeOK
<1>11. \A n \in DOMAIN put.node : n > put.firstfree \/ n \in 0..put.firstfree
  BY <1>3
<1>12. ASSUME free # {} PROVE FreeOK(tb2)
  <2>1. \A n \in DOMAIN put.node : n \in 0..put.firstfree /\ n > last => put.node[n].key # Nil
    BY <1>3, <1>4, <1>12
  <2>2. put.node[last].key = Nil
    BY <1>4, <1>12
  <2>3. QED BY <1>6, <1>10, <1>11, <2>1, <2>2 DEF FreeOK
<1>13. ASSUME free = {} PROVE \A n \in DOMAIN tb2.node : tb2.node[n].key # Nil
  BY <1>6, <1>10, <1>11, <1>13
<1>14. /\ Entering(tb, e.tb, e.n, key) /\ e.full \in BOOLEAN
       /\ ~e.full => FreeOK(e.tb)
       /\ e.full => \A n \in DOMAIN e.tb.node : e.tb.node[n].key # Nil
  <2> HIDE DEF free
  <2>1. QED BY <1>2, <1>9, <1>12, <1>13
<1>15. QED BY <1>14 DEF e

-----------------------------------------------------------------------------
(* Storing a value.                                                            *)

\* Only values have changed, and those of keys only.
Refilled(tb, tb2) ==
    /\ DOMAIN tb2 = Fields /\ tb2.lsizenode = tb.lsizenode /\ tb2.firstfree = tb.firstfree
    /\ tb2.ok = tb.ok /\ tb2.nested = tb.nested
    /\ tb2.array \in Seq(Vals) /\ sizearray(tb2) = sizearray(tb)
    /\ \A i \in 1..sizearray(tb) : tb2.array[i] # Nil => <<"num", i>> \in Keys
    /\ tb2.node \in [DOMAIN tb.node -> Node]
    /\ \A n \in DOMAIN tb.node :
          /\ tb2.node[n].key = tb.node[n].key /\ tb2.node[n].next = tb.node[n].next
          /\ tb2.node[n].val # Nil => tb.node[n].key \in Keys

LEMMA RefilledIs ==
    ASSUME NEW tb, Sound(tb), NEW tb2, Refilled(tb, tb2)
    PROVE  /\ Sound(tb2) /\ (FreeOK(tb) => FreeOK(tb2))
           /\ \A key \in Keys : luaH_get(tb2, key) = luaH_get(tb, key) /\ (Unused(tb2, key) <=> Unused(tb, key))
<1>1. TypeOK(tb) /\ LinksOK(tb) /\ KeysOK(tb)
  BY DEF Sound
<1>2. /\ DOMAIN tb2.node = DOMAIN tb.node /\ Linked(tb, tb2) /\ Real(tb2) = Real(tb)
      /\ \A key : (InArray(tb2, key) <=> InArray(tb, key)) /\ (Unused(tb2, key) <=> Unused(tb, key))
  <2>1. DOMAIN tb2.node = DOMAIN tb.node
    BY DEF Refilled
  <2>2. Linked(tb, tb2)
    BY <2>1 DEF Refilled, Linked
  <2>3. Real(tb2) = Real(tb)
    BY <2>1 DEF Refilled, Real
  <2>4. \A key : (InArray(tb2, key) <=> InArray(tb, key))
    BY DEF Refilled, InArray
  <2>5. \A key : (Unused(tb2, key) <=> Unused(tb, key))
    BY <2>1, <2>4 DEF Refilled, Unused
  <2>6. QED BY <2>1, <2>2, <2>3, <2>4, <2>5
<1>3. TypeOK(tb2)
  BY <1>1, <1>2 DEF TypeOK, Refilled
<1>4. LinksOK(tb2)
  <2>1. \A n \in DOMAIN tb.node : /\ tb2.node[n].key = tb.node[n].key /\ tb2.node[n].next = tb.node[n].next
                                  /\ tb2.node[n].val # Nil => tb.node[n].key # Nil
    BY KeysAre DEF Refilled
  <2>2. \A n \in DOMAIN tb2.node :
          /\ tb2.node[n].next # -1 =>
                tb2.node[n].next \in DOMAIN tb2.node /\ tb2.node[tb2.node[n].next].key # Nil
          /\ tb2.node[n].key = Nil => tb2.node[n].next = -1 /\ tb2.node[n].val = Nil
    BY <1>1, <1>2, <2>1 DEF LinksOK
  <2>3. /\ \A m, n \in DOMAIN tb2.node : tb2.node[m].next = tb2.node[n].next /\ tb2.node[n].next # -1 => m = n
        /\ \A C \in SUBSET (DOMAIN tb2.node) : C # {} => \E n \in C : tb2.node[n].next \notin C
    BY <1>1, <1>2, <2>1 DEF LinksOK
  <2>4. QED BY <2>2, <2>3 DEF LinksOK
<1>5. ASSUME NEW n \in Real(tb) PROVE /\ n \in DOMAIN tb.node /\ tb2.node[n].key = tb.node[n].key
                                      /\ Home(tb2, n) = Home(tb, n) /\ Chain(tb2, Home(tb, n)) = Chain(tb, Home(tb, n))
  <2>1. n \in DOMAIN tb.node /\ tb2.node[n].key = tb.node[n].key
    BY DEF Real, Refilled
  <2>2. tb2.lsizenode = tb.lsizenode
    BY DEF Refilled
  <2>3. QED BY <1>2, <2>1, <2>2, SameMain, SameChains DEF Home
<1>6. KeysOK(tb2)
  <2>1. \A n \in DOMAIN tb2.node : tb2.node[n].val # Nil => n \in Real(tb2)
    BY <1>2 DEF Refilled, Real
  <2>2. \A m, n \in Real(tb2) : tb2.node[m].key = tb2.node[n].key => m = n
    BY <1>1, <1>2, <1>5 DEF KeysOK
  <2>3. \A n \in Real(tb2) : n \in Chain(tb2, Home(tb2, n)) /\ ~InArray(tb2, tb2.node[n].key)
    BY <1>1, <1>2, <1>5 DEF KeysOK
  <2>4. \A m, n \in Real(tb2) : Home(tb2, m) # m => Home(tb2, n) # m
    BY <1>1, <1>2, <1>5 DEF KeysOK
  <2>5. (\A i \in 1..sizearray(tb2) : tb2.array[i] # Nil => <<"num", i>> \in Keys) /\ sizearray(tb2) <= twoto(MAXBITS)
    BY <1>1 DEF Refilled, KeysOK
  <2>6. QED BY <2>1, <2>2, <2>3, <2>4, <2>5 DEF KeysOK
<1>7. Sound(tb2)
  BY <1>3, <1>4, <1>6 DEF Sound
<1>8. FreeOK(tb) => FreeOK(tb2)
  BY <1>1, <1>2 DEF FreeOK, Refilled, TypeOK
<1>9. ASSUME NEW key \in Keys PROVE luaH_get(tb2, key) = luaH_get(tb, key)
  <2>1. CASE InArray(tb, key)
    BY <1>2, <1>7, <2>1, GetIs
  <2>2. CASE \E n \in DOMAIN tb.node : tb.node[n].key = key
    BY <1>2, <1>7, <2>2, ValueIs DEF Refilled
  <2>3. CASE Unused(tb, key)
    BY <1>2, <1>7, <2>3, GetIs DEF Unused
  <2>4. QED BY <2>1, <2>2, <2>3 DEF Unused
<1>10. QED BY <1>2, <1>7, <1>8, <1>9

\* Where a key was found its value is stored, and nothing else changes.
LEMMA StoredIs ==
    ASSUME NEW tb, Sound(tb), NEW key \in Keys, NEW v \in Vals, ~Unused(tb, key),
           NEW tb2, tb2 = StoreAt(tb, luaH_get(tb, key), v)
    PROVE  /\ Refilled(tb, tb2)
           /\ Value(tb2, key) = v /\ \A k \in Keys : k # key => Value(tb2, k) = Value(tb, k)
<1>1. TypeOK(tb) /\ LinksOK(tb) /\ KeysOK(tb)
  BY DEF Sound
<1>2. CASE InArray(tb, key)
  <2>1. /\ luaH_get(tb, key) = <<"array", key[2]>> /\ key[2] \in 1..sizearray(tb) /\ <<"num", key[2]>> \in Keys
        /\ key[1] = "num"
    BY <1>2, GetIs, KeysAre DEF InArray
  <2> DEFINE arr == [tb.array EXCEPT ![key[2]] = v]
             i == key[2]
  <2>2. tb2 = [tb EXCEPT !.array[i] = v]
    BY <2>1, PlacesAre DEF StoreAt
  <2>3. /\ DOMAIN tb2 = Fields /\ tb2.lsizenode = tb.lsizenode /\ tb2.firstfree = tb.firstfree
        /\ tb2.ok = tb.ok /\ tb2.nested = tb.nested /\ tb2.node = tb.node /\ tb2.array = arr
    BY <1>1, <2>2 DEF TypeOK, Fields
  <2>4. arr \in Seq(Vals) /\ Len(arr) = Len(tb.array) /\ \A j \in 1..Len(tb.array) : arr[j] = IF j = i THEN v ELSE tb.array[j]
    BY <1>1, <2>1 DEF TypeOK, sizearray
  <2> HIDE DEF arr, i
  <2>5. \A j \in 1..sizearray(tb) : arr[j] # Nil => <<"num", j>> \in Keys
    BY <1>1, <2>1, <2>4 DEF KeysOK, sizearray, i
  <2>6. tb2.node \in [DOMAIN tb.node -> Node]
    BY <1>1, <2>3 DEF TypeOK
  <2>7. \A n \in DOMAIN tb.node : tb.node[n].val # Nil => tb.node[n].key \in Keys
    BY <1>1 DEF KeysOK, Real
  <2>8. Refilled(tb, tb2)
    BY <2>3, <2>4, <2>5, <2>6, <2>7 DEF Refilled, sizearray
  <2>9. Sound(tb2) /\ \A k \in Keys : luaH_get(tb2, k) = luaH_get(tb, k)
    BY <2>8, RefilledIs
  <2>10. Value(tb2, key) = v
    BY <2>1, <2>3, <2>4, <2>9, PlacesAre DEF Value, ValueAt, sizearray, i
  <2>11. ASSUME NEW k \in Keys, k # key PROVE Value(tb2, k) = Value(tb, k)
    <3>1. InArray(tb, k) => k[2] # i /\ k[2] \in 1..sizearray(tb)
      BY <2>1, <2>11, KeysAre DEF InArray, i
    <3>2. CASE InArray(tb, k)
      <4>1. luaH_get(tb, k) = <<"array", k[2]>>
        BY <3>2, GetIs
      <4>2. QED BY <2>3, <2>4, <2>9, <3>1, <3>2, <4>1, PlacesAre DEF Value, ValueAt, sizearray
    <3>3. CASE ~InArray(tb, k)
      <4>1. luaH_get(tb, k)[1] # "array"
        BY <3>3, GetIs, PlacesAre
      <4>2. QED BY <2>3, <2>9, <4>1 DEF Value, ValueAt
    <3>4. QED BY <3>2, <3>3
  <2>12. QED BY <2>8, <2>10, <2>11
<1>3. CASE ~InArray(tb, key)
  <2>1. PICK n \in DOMAIN tb.node : tb.node[n].key = key /\ luaH_get(tb, key) = <<"node", n>>
    BY <1>3, ValueIs DEF Unused
  <2> DEFINE nodes == [tb.node EXCEPT ![n].val = v]
  <2>2. tb2 = [tb EXCEPT !.node[n].val = v]
    BY <2>1, PlacesAre DEF StoreAt
  <2>3. /\ DOMAIN tb2 = Fields /\ tb2.lsizenode = tb.lsizenode /\ tb2.firstfree = tb.firstfree
        /\ tb2.ok = tb.ok /\ tb2.nested = tb.nested /\ tb2.array = tb.array /\ tb2.node = nodes
    BY <1>1, <2>2 DEF TypeOK, Fields
  <2>4. \A m \in DOMAIN tb.node : tb.node[m] \in Node
    BY <1>1, NodesAre
  <2>5. DOMAIN nodes = DOMAIN tb.node /\ nodes = [m \in DOMAIN tb.node |-> nodes[m]]
        /\ \A m \in DOMAIN tb.node : nodes[m] = IF m = n THEN [tb.node[m] EXCEPT !.val = v] ELSE tb.node[m]
    OBVIOUS
  <2> HIDE DEF nodes
  <2>6. ASSUME NEW m \in DOMAIN tb.node
        PROVE  /\ nodes[m] \in Node /\ nodes[m].key = tb.node[m].key /\ nodes[m].next = tb.node[m].next
               /\ nodes[m].val = IF m = n THEN v ELSE tb.node[m].val
    <3>1. tb.node[m] \in Node
      BY <2>4
    <3>2. CASE m = n
      <4>1. nodes[m] = [tb.node[m] EXCEPT !.val = v]
        BY <2>5, <3>2
      <4>2. QED BY <3>1, <3>2, <4>1 DEF Node
    <3>3. CASE m # n
      BY <2>5, <3>1, <3>3
    <3>4. QED BY <3>2, <3>3
  <2>7. nodes \in [DOMAIN tb.node -> Node]
    BY <2>5, <2>6
  <2>8. \A m \in DOMAIN tb.node : nodes[m].val # Nil => tb.node[m].key \in Keys
    BY <1>1, <2>1, <2>6 DEF KeysOK, Real
  <2>9. tb.array \in Seq(Vals) /\ \A j \in 1..sizearray(tb) : tb.array[j] # Nil => <<"num", j>> \in Keys
    BY <1>1 DEF TypeOK, KeysOK
  <2>10. Refilled(tb, tb2)
    BY <2>3, <2>6, <2>7, <2>8, <2>9 DEF Refilled, sizearray
  <2>11. Sound(tb2) /\ \A k \in Keys : luaH_get(tb2, k) = luaH_get(tb, k)
    BY <2>10, RefilledIs
  <2>12. Value(tb2, key) = v
    BY <2>1, <2>3, <2>6, <2>11, PlacesAre DEF Value, ValueAt
  <2>13. ASSUME NEW k \in Keys, k # key PROVE Value(tb2, k) = Value(tb, k)
    <3>1. CASE InArray(tb, k)
      <4>1. luaH_get(tb, k) = <<"array", k[2]>>
        BY <3>1, GetIs
      <4>2. QED BY <2>3, <2>11, <4>1, PlacesAre DEF Value, ValueAt
    <3>2. CASE Unused(tb, k)
      <4>1. luaH_get(tb, k) = <<"none">>
        BY <3>2, GetIs DEF Unused
      <4>2. QED BY <2>11, <4>1, PlacesAre DEF Value, ValueAt
    <3>3. CASE \E m \in DOMAIN tb.node : tb.node[m].key = k
      <4>1. PICK m \in DOMAIN tb.node : tb.node[m].key = k
        BY <3>3
      <4>2. luaH_get(tb, k) = <<"node", m>> /\ m # n
        BY <2>1, <2>13, <4>1, ValueIs
      <4>3. QED BY <2>3, <2>6, <2>11, <4>2, PlacesAre DEF Value, ValueAt
    <3>4. QED BY <3>1, <3>2, <3>3 DEF Unused
  <2>14. QED BY <2>10, <2>12, <2>13
<1>4. QED BY <1>2, <1>3

-----------------------------------------------------------------------------
(* Inserting what a table held before it was resized.                          *)

\* The nodes are new: none has a key.
LEMMA ClearedIs ==
    ASSUME NEW tb, DOMAIN tb = Fields, tb.array \in Seq(Vals), tb.ok \in BOOLEAN, tb.nested \in BOOLEAN,
           \A i \in 1..sizearray(tb) : tb.array[i] # Nil => <<"num", i>> \in Keys,
           sizearray(tb) <= twoto(MAXBITS), NEW lsize \in Nat, lsize <= MAXBITS,
           NEW tb2, tb2 = setnodevector(tb, lsize)
    PROVE  /\ Sound(tb2) /\ FreeOK(tb2) /\ tb2.array = tb.array /\ tb2.lsizenode = lsize
           /\ tb2.ok = tb.ok /\ tb2.nested = tb.nested
           /\ \A n \in DOMAIN tb2.node : tb2.node[n].key = Nil
<1> DEFINE last == twoto(lsize) - 1
           nodes == [n \in 0..last |-> EmptyNode]
<1>1. tb2 = [tb EXCEPT !.node = nodes, !.lsizenode = lsize, !.firstfree = last]
  BY DEF setnodevector, Asserted
<1>2. /\ DOMAIN tb2 = Fields /\ tb2.array = tb.array /\ tb2.node = nodes /\ tb2.lsizenode = lsize
      /\ tb2.firstfree = last /\ tb2.ok = tb.ok /\ tb2.nested = tb.nested
  BY <1>1 DEF Fields
<1>3. last \in Nat /\ last \in 0..last
  <2>1. twoto(lsize) \in Nat \ {0}
    BY TwotoNext
  <2>2. QED BY <2>1
<1> HIDE DEF last
<1>4. /\ EmptyNode \in Node /\ EmptyNode.key = Nil /\ EmptyNode.val = Nil /\ EmptyNode.next = -1
  BY DEF EmptyNode, Node, Vals
<1>5. DOMAIN tb2.node = 0..last /\ \A n \in 0..last : tb2.node[n] = EmptyNode
  BY <1>2
<1>6. TypeOK(tb2)
  <2>1. tb2.node \in [0..last -> Node]
    BY <1>2, <1>4
  <2>2. QED BY <1>2, <1>3, <1>5, <2>1 DEF TypeOK, last
<1>7. LinksOK(tb2)
  <2>1. -1 \notin 0..last
    BY <1>3
  <2>2. QED BY <1>4, <1>5, <2>1 DEF LinksOK
<1>8. Real(tb2) = {}
  BY <1>4, <1>5, KeysAre DEF Real
<1>9. KeysOK(tb2)
  BY <1>2, <1>4, <1>5, <1>8 DEF KeysOK, sizearray
<1>10. FreeOK(tb2)
  <2>1. \A n \in 0..last : ~(n > last)
    BY <1>3
  <2>2. QED BY <1>2, <1>3, <1>4, <1>5, <2>1 DEF FreeOK
<1>11. QED BY <1>2, <1>4, <1>5, <1>6, <1>7, <1>9, <1>10 DEF Sound

\* The keys that are in nodes are among those of K, and these are fewer than the nodes.
Steady(tb, K) ==
    /\ Sound(tb) /\ FreeOK(tb)
    /\ \A n \in DOMAIN tb.node : tb.node[n].key \in K \cup {Nil}
    /\ K \subseteq Keys /\ IsFiniteSet(K) /\ Cardinality(K) < sizenode(tb)

\* Then a node is left without a key.
LEMMA NotFull ==
    ASSUME NEW tb, Sound(tb), NEW K, K \subseteq Keys, IsFiniteSet(K), Cardinality(K) < sizenode(tb),
           \A n \in DOMAIN tb.node : tb.node[n].key \in K \cup {Nil}
    PROVE  \E n \in DOMAIN tb.node : tb.node[n].key = Nil
<1>1. SUFFICES ASSUME \A n \in DOMAIN tb.node : tb.node[n].key # Nil PROVE FALSE
  OBVIOUS
<1> DEFINE D == DOMAIN tb.node
           f == [n \in D |-> tb.node[n].key]
           N == sizenode(tb)
<1>2. D = 0..(N - 1) /\ N \in Nat \ {0}
  BY NodesAre DEF Sound
<1>3. IsFiniteSet(D) /\ Cardinality(D) = N
  <2>1. 0 \in Int /\ N - 1 \in Int /\ ~(0 > N - 1) /\ N - 1 - 0 + 1 = N
    BY <1>2
  <2> HIDE DEF N
  <2>2. IsFiniteSet(0..(N - 1)) /\ Cardinality(0..(N - 1)) = IF 0 > N - 1 THEN 0 ELSE N - 1 - 0 + 1
    BY <2>1, FS_Interval
  <2>3. QED BY <1>2, <2>1, <2>2
<1>4. f \in Injection(D, K)
  <2>1. \A n \in D : tb.node[n].key \in K /\ n \in Real(tb)
    BY <1>1 DEF Real
  <2>2. \A m, n \in D : f[m] = f[n] => m = n
    BY <2>1 DEF Sound, KeysOK
  <2>3. f \in [D -> K]
    BY <2>1
  <2>4. QED BY <2>2, <2>3 DEF Injection, IsInjective
<1> HIDE DEF f, D, N
<1>5. Cardinality(D) <= Cardinality(K)
  BY <1>4, FS_Injection
<1>6. Cardinality(K) \in Nat /\ N \in Nat
  BY <1>2, FS_CardinalityType
<1>7. QED BY <1>3, <1>5, <1>6 DEF N

\* Inserting an element needs no second resize then, and sets the value of its key only.
LEMMA InsertedIs ==
    ASSUME NEW tb, NEW K, Steady(tb, K), NEW key \in Keys, NEW v \in Vals,
           InArray(tb, key) \/ key \in K, NEW tb2, tb2 = Inserted(tb, key, v)
    PROVE  /\ Steady(tb2, K) /\ sizearray(tb2) = sizearray(tb) /\ tb2.lsizenode = tb.lsizenode
           /\ tb2.ok = tb.ok /\ tb2.nested = tb.nested
           /\ Value(tb2, key) = v /\ \A k \in Keys : k # key => Value(tb2, k) = Value(tb, k)
<1> DEFINE p == luaH_get(tb, key)
           e == Entered(tb, key)
<1>1. Sound(tb) /\ FreeOK(tb)
  BY DEF Steady
<1>2. CASE ~Unused(tb, key)
  <2>1. p[1] # "none"
    BY <1>1, <1>2, GetIs, PlacesAre DEF Unused
  <2>2. tb2 = StoreAt(tb, p, v)
    BY <2>1 DEF Inserted
  <2>3. /\ Refilled(tb, tb2)
        /\ Value(tb2, key) = v /\ \A k \in Keys : k # key => Value(tb2, k) = Value(tb, k)
    BY <1>1, <1>2, <2>2, StoredIs
  <2>4. Sound(tb2) /\ FreeOK(tb2)
    BY <1>1, <2>3, RefilledIs
  <2>5. /\ DOMAIN tb2.node = DOMAIN tb.node /\ \A n \in DOMAIN tb.node : tb2.node[n].key = tb.node[n].key
        /\ sizearray(tb2) = sizearray(tb) /\ tb2.lsizenode = tb.lsizenode
        /\ tb2.ok = tb.ok /\ tb2.nested = tb.nested
    BY <2>3 DEF Refilled
  <2>6. Steady(tb2, K)
    BY <2>4, <2>5 DEF Steady, sizenode
  <2>7. QED BY <2>3, <2>5, <2>6
<1>3. CASE Unused(tb, key)
  <2>1. key \in K
    BY <1>3 DEF Unused
  <2>2. /\ Entering(tb, e.tb, e.n, key) /\ e.full \in BOOLEAN
        /\ ~e.full => FreeOK(e.tb)
        /\ e.full => \A n \in DOMAIN e.tb.node : e.tb.node[n].key # Nil
    BY <1>1, <1>3, EnteredIs
  <2>3. p[1] = "none"
    BY <1>1, <1>3, GetIs, PlacesAre DEF Unused
  <2> DEFINE s == StoreAt(e.tb, <<"node", e.n>>, v)
  <2>4. tb2 = [s EXCEPT !.nested = @ \/ e.full]
    BY <2>3 DEF Inserted
  <2> HIDE DEF e
  <2>5. /\ Sound(e.tb) /\ e.tb.array = tb.array /\ e.tb.lsizenode = tb.lsizenode /\ e.tb.ok = tb.ok
        /\ e.tb.nested = tb.nested /\ e.n \in DOMAIN e.tb.node /\ e.tb.node[e.n].key = key
        /\ DOMAIN e.tb.node = DOMAIN tb.node /\ Live(e.tb) = Live(tb)
    BY <2>2 DEF Entering
  <2>6. \A n \in DOMAIN e.tb.node : e.tb.node[n].key \in K \cup {Nil}
    BY <2>1, <2>2, <2>5 DEF Entering, Steady
  <2>7. Cardinality(K) < sizenode(e.tb) /\ K \subseteq Keys /\ IsFiniteSet(K)
    BY <2>5 DEF Steady, sizenode
  <2>8. ~e.full /\ FreeOK(e.tb)
    BY <2>2, <2>5, <2>6, <2>7, NotFull
  <2>9. luaH_get(e.tb, key) = <<"node", e.n>> /\ ~Unused(e.tb, key)
    BY <2>5, ValueIs DEF Unused
  <2>10. /\ Refilled(e.tb, s)
         /\ Value(s, key) = v /\ \A k \in Keys : k # key => Value(s, k) = Value(e.tb, k)
    BY <2>5, <2>9, StoredIs
  <2> HIDE DEF s
  <2>11. Sound(s) /\ FreeOK(s)
    BY <2>5, <2>8, <2>10, RefilledIs
  <2>12. /\ tb2.node = s.node /\ tb2.array = s.array /\ tb2.lsizenode = s.lsizenode
         /\ tb2.firstfree = s.firstfree /\ tb2.ok = s.ok /\ tb2.nested = s.nested
         /\ TypeOK(tb2)
    <3>1. TypeOK(s)
      BY <2>11 DEF Sound
    <3>2. /\ tb2.node = s.node /\ tb2.array = s.array /\ tb2.lsizenode = s.lsizenode
          /\ tb2.firstfree = s.firstfree /\ tb2.ok = s.ok /\ tb2.nested = (s.nested \/ e.full)
          /\ DOMAIN tb2 = Fields
      BY <2>4, <3>1 DEF TypeOK, Fields
    <3>3. tb2.nested = s.nested
      BY <2>2, <2>8, <3>1, <3>2 DEF TypeOK
    <3>4. QED BY <3>1, <3>2, <3>3 DEF TypeOK
  <2>13. \A k \in Keys : Value(e.tb, k) = Value(tb, k)
    BY <1>1, <2>5, SameLive
  <2>14. /\ DOMAIN s.node = DOMAIN e.tb.node /\ \A n \in DOMAIN e.tb.node : s.node[n].key = e.tb.node[n].key
         /\ sizearray(s) = sizearray(e.tb) /\ s.lsizenode = e.tb.lsizenode
         /\ s.ok = e.tb.ok /\ s.nested = e.tb.nested
    BY <2>10 DEF Refilled
  <2>15. Sound(tb2) /\ \A k \in Keys : Value(tb2, k) = Value(s, k)
    BY <2>11, <2>12, SameSound
  <2>16. FreeOK(tb2)
    BY <2>11, <2>12 DEF FreeOK
  <2>17. Steady(tb2, K)
    BY <2>6, <2>7, <2>12, <2>14, <2>15, <2>16 DEF Steady, sizenode
  <2>18. QED BY <2>5, <2>10, <2>12, <2>13, <2>14, <2>15, <2>17 DEF sizearray
<1>4. QED BY <1>2, <1>3

\* The table after the first i elements of a list.
Steps(tb, es, f, m) ==
    \A i \in 0..m : f[i] = IF i = 0 THEN tb
                           ELSE IF es[i][2] = Nil THEN f[i - 1]
                           ELSE Inserted(f[i - 1], es[i][1], es[i][2])

LEMMA ReinsertSteps ==
    ASSUME NEW tb, NEW es, Len(es) \in Nat
    PROVE  \E f : Steps(tb, es, f, Len(es)) /\ Reinsert(tb, es) = f[Len(es)]
<1> DEFINE N == Len(es)
           body(f, i) == IF i = 0 THEN tb
                         ELSE IF es[i][2] = Nil THEN f[i - 1]
                         ELSE Inserted(f[i - 1], es[i][1], es[i][2])
           Is(f, m) == f = [i \in 0..m |-> body(f, i)]
           bad == {m \in Nat : \A f : ~Is(f, m)}
           upto == CHOOSE f : Is(f, N)
<1>1. Reinsert(tb, es) = upto[N]
  BY DEF Reinsert
<1>2. bad = {}
  <2>1. SUFFICES ASSUME bad # {} PROVE FALSE
    OBVIOUS
  <2>2. PICK m \in bad : \A j \in bad : m <= j
    <3>1. bad \in SUBSET Nat
      OBVIOUS
    <3>2. QED BY <2>1, <3>1, Least
  <2>3. m \in Nat /\ \A f : ~Is(f, m)
    BY <2>2
  <2>4. CASE m = 0
    <3> DEFINE f == [i \in 0..0 |-> tb]
    <3>1. f = [i \in 0..0 |-> body(f, i)]
      OBVIOUS
    <3>2. Is(f, m)
      BY <2>4, <3>1
    <3>3. QED BY <2>3, <3>2
  <2>5. CASE m # 0
    <3>1. m - 1 \in Nat /\ m - 1 \notin bad
      <4> HIDE DEF bad
      <4>1. m - 1 \in Nat /\ ~(m <= m - 1)
        BY <2>3, <2>5
      <4>2. QED BY <2>2, <4>1
    <3>2. PICK f : Is(f, m - 1)
      BY <3>1
    <3> DEFINE g == [i \in 0..m |-> IF i = m THEN body(f, m) ELSE f[i]]
    <3>3. \A i \in 0..(m - 1) : f[i] = body(f, i)
      <4> HIDE DEF body
      <4>1. f = [i \in 0..(m - 1) |-> body(f, i)]
        BY <3>2
      <4>2. QED BY <4>1
    <3>4. ASSUME NEW i \in 0..m PROVE g[i] = body(g, i)
      <4>1. i # 0 => g[i - 1] = f[i - 1]
        BY <2>3, <2>5
      <4>2. body(g, i) = body(f, i)
        BY <4>1
      <4>3. CASE i = m
        BY <4>2, <4>3
      <4>4. CASE i # m
        <5>1. i \in 0..(m - 1)
          BY <2>3, <4>4
        <5>2. g[i] = f[i]
          BY <4>4
        <5> HIDE DEF body, g
        <5>3. QED BY <3>3, <4>2, <5>1, <5>2
      <4>5. QED BY <4>3, <4>4
    <3>5. g = [i \in 0..m |-> g[i]]
      OBVIOUS
    <3> HIDE DEF g, body
    <3>6. Is(g, m)
      BY <3>4, <3>5
    <3>7. QED BY <2>3, <3>6
  <2>6. QED BY <2>4, <2>5
<1>3. Is(upto, N)
  <2>1. N \notin bad /\ N \in Nat
    BY <1>2
  <2>2. \E f : Is(f, N)
    BY <2>1
  <2> HIDE DEF Is
  <2>3. QED BY <2>2, Zenon
<1> HIDE DEF upto
<1>4. \A i \in 0..N : upto[i] = body(upto, i)
  <2> HIDE DEF body
  <2>1. upto = [i \in 0..N |-> body(upto, i)]
    BY <1>3
  <2>2. QED BY <2>1
<1>5. Steps(tb, es, upto, N)
  BY <1>4 DEF Steps
<1>6. QED BY <1>1, <1>5

\* What is inserted is found with its values, and the rest is as it was.
LEMMA ReinsertIs ==
    ASSUME NEW tb, NEW K, Steady(tb, K), NEW es, Len(es) \in Nat, NEW Old,
           \A i \in 1..Len(es) : es[i][2] # Nil =>
              /\ es[i][1] \in Keys /\ es[i][2] \in Vals /\ es[i][2] = Old[es[i][1]]
              /\ InArray(tb, es[i][1]) \/ es[i][1] \in K,
           NEW tb2, tb2 = Reinsert(tb, es)
    PROVE  /\ Steady(tb2, K) /\ sizearray(tb2) = sizearray(tb) /\ tb2.lsizenode = tb.lsizenode
           /\ tb2.ok = tb.ok /\ tb2.nested = tb.nested
           /\ \A k \in Keys : Value(tb2, k) = IF \E i \in 1..Len(es) : es[i][2] # Nil /\ es[i][1] = k
                                              THEN Old[k] ELSE Value(tb, k)
<1> DEFINE N == Len(es)
           Did(i, k) == \E j \in 1..i : es[j][2] # Nil /\ es[j][1] = k
           Good(x, i) == /\ Steady(x, K) /\ sizearray(x) = sizearray(tb) /\ x.lsizenode = tb.lsizenode
                         /\ x.ok = tb.ok /\ x.nested = tb.nested
                         /\ \A k \in Keys : Value(x, k) = IF Did(i, k) THEN Old[k] ELSE Value(tb, k)
<1>1. PICK f : Steps(tb, es, f, N) /\ tb2 = f[N]
  BY ReinsertSteps
<1> DEFINE bad == {i \in 0..N : ~Good(f[i], i)}
<1>2. bad = {}
  <2>1. SUFFICES ASSUME bad # {} PROVE FALSE
    OBVIOUS
  <2>2. PICK i \in bad : \A j \in bad : i <= j
    <3>1. bad \in SUBSET Nat
      OBVIOUS
    <3>2. QED BY <2>1, <3>1, Least
  <2>3. i \in 0..N /\ i \in Nat /\ ~Good(f[i], i)
    BY <2>2
  <2>4. i # 0
    <3>1. f[0] = tb /\ \A k : ~Did(0, k)
      BY <1>1 DEF Steps
    <3> HIDE DEF Did
    <3>2. Good(tb, 0)
      BY <3>1
    <3>3. QED BY <2>3, <3>1, <3>2
  <2>5. i - 1 \in 0..N /\ i - 1 \notin bad /\ i \in 1..N
    BY <2>2, <2>3, <2>4
  <2> DEFINE x == f[i - 1]
  <2>6. Good(x, i - 1)
    BY <2>5
  <2>7. f[i] = IF es[i][2] = Nil THEN x ELSE Inserted(x, es[i][1], es[i][2])
    BY <1>1, <2>3, <2>4 DEF Steps
  <2> HIDE DEF x
  <2>8. \A k : Did(i, k) <=> Did(i - 1, k) \/ (es[i][2] # Nil /\ es[i][1] = k)
    <3>1. \A j : j \in 1..i <=> j \in 1..(i - 1) \/ j = i
      BY <2>3, <2>4
    <3>2. QED BY <3>1
  <2> HIDE DEF Did
  <2>9. CASE es[i][2] = Nil
    <3>1. f[i] = x /\ \A k : Did(i, k) <=> Did(i - 1, k)
      BY <2>7, <2>8, <2>9
    <3>2. Good(x, i)
      BY <2>6, <3>1
    <3>3. QED BY <2>3, <3>1, <3>2
  <2>10. CASE es[i][2] # Nil
    <3> DEFINE key == es[i][1]
               v == es[i][2]
    <3>1. key \in Keys /\ v \in Vals /\ v = Old[key] /\ (InArray(tb, key) \/ key \in K)
      BY <2>5, <2>10
    <3>2. f[i] = Inserted(x, key, v)
      BY <2>7, <2>10
    <3>3. \A k : Did(i, k) <=> Did(i - 1, k) \/ key = k
      BY <2>8, <2>10
    <3> HIDE DEF key, v
    <3>4. InArray(x, key) \/ key \in K
      BY <2>6, <3>1 DEF InArray
    <3>5. Steady(x, K)
      BY <2>6
    <3>6. /\ Steady(f[i], K) /\ sizearray(f[i]) = sizearray(x) /\ f[i].lsizenode = x.lsizenode
          /\ f[i].ok = x.ok /\ f[i].nested = x.nested
          /\ Value(f[i], key) = v /\ \A k \in Keys : k # key => Value(f[i], k) = Value(x, k)
      BY <3>1, <3>2, <3>4, <3>5, InsertedIs
    <3>7. \A k \in Keys : Value(f[i], k) = IF Did(i, k) THEN Old[k] ELSE Value(tb, k)
      BY <2>6, <3>1, <3>3, <3>6
    <3>8. Good(f[i], i)
      BY <2>6, <3>6, <3>7
    <3>9. QED BY <2>3, <3>8
  <2>11. QED BY <2>9, <2>10
<1>3. N \in 0..N
  OBVIOUS
<1>4. Good(f[N], N)
  <2> HIDE DEF Good
  <2>1. QED BY <1>2, <1>3
<1>5. QED BY <1>1, <1>4

\* What does not go to the array part when a table is resized.
Rest(tb, nasize) ==
    {k \in Keys : Value(tb, k) # Nil /\ ~(k[1] = "num" /\ k[2] \in 1..nasize)}

\* Resizing keeps all fields, if the nodes suffice for those that do not go to the array.
LEMMA ResizeIs ==
    ASSUME NEW tb, Sound(tb), NEW nasize \in Nat, nasize <= twoto(MAXBITS),
           NEW lsize \in Nat, lsize <= MAXBITS, Cardinality(Rest(tb, nasize)) < twoto(lsize),
           NEW tb2, tb2 = resize(tb, nasize, lsize)
    PROVE  /\ Sound(tb2) /\ FreeOK(tb2) /\ tb2.ok = tb.ok /\ tb2.nested = tb.nested /\ NoDead(tb2)
           /\ \A k \in Keys : Value(tb2, k) = Value(tb, k)
<1> DEFINE K == Rest(tb, nasize)
           Old == [k \in Keys |-> Value(tb, k)]
           r == Resized(tb, nasize)
           t0 == setnodevector(r, lsize)
           es1 == Gone(tb, nasize)
           t1 == Reinsert(t0, es1)
           es2 == Nodes(tb)
<1>1. /\ TypeOK(tb) /\ LinksOK(tb) /\ KeysOK(tb) /\ sizearray(tb) \in Nat
      /\ \A i \in 1..sizearray(tb) : tb.array[i] \in Vals /\ (tb.array[i] # Nil => <<"num", i>> \in Keys)
  <2>1. TypeOK(tb) /\ LinksOK(tb) /\ KeysOK(tb)
    BY DEF Sound
  <2>2. QED BY <2>1, NodesAre DEF KeysOK
<1>2. tb2 = Reinsert(t1, es2)
  BY DEF resize
<1>3. K \subseteq Keys /\ IsFiniteSet(K)
  <2>1. K \in SUBSET Keys
    BY DEF Rest
  <2>2. QED BY <2>1, FewKeys, FS_Subset
<1>4. /\ DOMAIN r = Fields /\ r.array \in Seq(Vals) /\ sizearray(r) = nasize
      /\ r.ok = tb.ok /\ r.nested = tb.nested /\ r.ok \in BOOLEAN /\ r.nested \in BOOLEAN
      /\ \A i \in 1..nasize : r.array[i] = IF i <= sizearray(tb) THEN tb.array[i] ELSE Nil
  <2> DEFINE arr == [i \in 1..nasize |-> IF i <= sizearray(tb) THEN tb.array[i] ELSE Nil]
  <2>1. arr \in [1..nasize -> Vals]
    <3>1. ASSUME NEW i \in 1..nasize PROVE (IF i <= sizearray(tb) THEN tb.array[i] ELSE Nil) \in Vals
      <4>1. CASE i <= sizearray(tb)
        <5>1. i \in 1..sizearray(tb)
          BY <1>1, <4>1
        <5>2. QED BY <1>1, <4>1, <5>1
      <4>2. CASE ~(i <= sizearray(tb))
        BY <4>2 DEF Vals
      <4>3. QED BY <4>1, <4>2
    <3>2. QED BY <3>1
  <2>2. /\ DOMAIN r = Fields /\ r.array = arr /\ r.ok = tb.ok /\ r.nested = tb.nested
        /\ r.ok \in BOOLEAN /\ r.nested \in BOOLEAN
    BY <1>1 DEF Resized, TypeOK, Fields
  <2>3. \A i \in 1..nasize : arr[i] = IF i <= sizearray(tb) THEN tb.array[i] ELSE Nil
    OBVIOUS
  <2> HIDE DEF arr, r
  <2>4. arr \in Seq(Vals) /\ Len(arr) = nasize
    BY <2>1
  <2>5. QED BY <2>2, <2>3, <2>4 DEF sizearray
<1> HIDE DEF r
<1>5. /\ Sound(t0) /\ FreeOK(t0) /\ t0.array = r.array /\ t0.lsizenode = lsize
      /\ t0.ok = r.ok /\ t0.nested = r.nested
      /\ \A n \in DOMAIN t0.node : t0.node[n].key = Nil
  <2>1. \A i \in 1..sizearray(r) : r.array[i] # Nil => <<"num", i>> \in Keys
    BY <1>1, <1>4
  <2>2. QED BY <1>4, <2>1, ClearedIs
<1> HIDE DEF t0, K
<1>6. Steady(t0, K)
  BY <1>3, <1>5 DEF Steady, sizenode, K
<1>7. /\ sizearray(t0) = nasize
      /\ \A k : InArray(t0, k) <=> k[1] = "num" /\ k[2] \in 1..nasize
  BY <1>4, <1>5 DEF sizearray, InArray
<1>8. \A k \in Keys : Value(tb, k) # Nil => InArray(t0, k) \/ k \in K
  BY <1>7 DEF K, Rest
<1>9. /\ Len(es1) \in Nat
      /\ \A i \in 1..Len(es1) : /\ nasize + i \in 1..sizearray(tb) /\ nasize + i > nasize
                                /\ es1[i][1] = <<"num", nasize + i>> /\ es1[i][2] = tb.array[nasize + i]
      /\ \A j \in 1..sizearray(tb) : j > nasize => j - nasize \in 1..Len(es1) /\ nasize + (j - nasize) = j
  <2> DEFINE N == IF nasize < sizearray(tb) THEN sizearray(tb) - nasize ELSE 0
  <2>1. N \in Nat /\ es1 = [i \in 1..N |-> <<<<"num", nasize + i>>, tb.array[nasize + i]>>]
    BY <1>1 DEF Gone
  <2>2. Len(es1) = N
    <3> HIDE DEF N, es1
    <3>1. DOMAIN es1 = 1..N /\ es1 \in [1..N -> {<<<<"num", nasize + i>>, tb.array[nasize + i]>> : i \in 1..N}]
      BY <2>1
    <3>2. QED BY <2>1, <3>1
  <2>3. \A i \in 1..N : es1[i][1] = <<"num", nasize + i>> /\ es1[i][2] = tb.array[nasize + i]
    BY <2>1
  <2>4. /\ \A i \in 1..N : nasize + i \in 1..sizearray(tb) /\ nasize + i > nasize
        /\ \A j \in 1..sizearray(tb) : j > nasize => j - nasize \in 1..N /\ nasize + (j - nasize) = j
    BY <1>1
  <2> HIDE DEF es1, N
  <2>5. QED BY <2>1, <2>2, <2>3, <2>4
<1>10. /\ Len(es2) \in Nat
       /\ \A i \in 1..Len(es2) : \E n \in DOMAIN tb.node : es2[i][1] = tb.node[n].key /\ es2[i][2] = tb.node[n].val
       /\ \A n \in DOMAIN tb.node : \E i \in 1..Len(es2) : es2[i][1] = tb.node[n].key /\ es2[i][2] = tb.node[n].val
  <2> DEFINE N == sizenode(tb)
  <2>1. N \in Nat \ {0} /\ es2 = [i \in 1..N |-> <<tb.node[N - i].key, tb.node[N - i].val>>]
        /\ DOMAIN tb.node = 0..(N - 1)
    BY <1>1, NodesAre DEF Nodes
  <2> HIDE DEF N, es2
  <2>2. Len(es2) = N
    <3>1. DOMAIN es2 = 1..N /\ es2 \in [1..N -> {<<tb.node[N - i].key, tb.node[N - i].val>> : i \in 1..N}]
      BY <2>1
    <3>2. QED BY <2>1, <3>1
  <2>3. \A i \in 1..N : N - i \in 0..(N - 1) /\ es2[i][1] = tb.node[N - i].key /\ es2[i][2] = tb.node[N - i].val
    BY <2>1
  <2>4. \A n \in 0..(N - 1) : N - n \in 1..N /\ N - (N - n) = n
    BY <2>1
  <2>5. ASSUME NEW n \in DOMAIN tb.node
        PROVE  \E i \in 1..Len(es2) : es2[i][1] = tb.node[n].key /\ es2[i][2] = tb.node[n].val
    <3>1. N - n \in 1..N /\ N - (N - n) = n
      BY <2>1, <2>4
    <3>2. es2[N - n][1] = tb.node[n].key /\ es2[N - n][2] = tb.node[n].val
      BY <2>3, <3>1
    <3>3. QED BY <2>2, <3>1, <3>2
  <2>6. QED BY <2>1, <2>2, <2>3, <2>5
<1> HIDE DEF es1, es2
<1>11. \A i \in 1..sizearray(tb) : tb.array[i] # Nil =>
          /\ <<"num", i>> \in Keys /\ tb.array[i] \in Vals /\ tb.array[i] = Value(tb, <<"num", i>>)
  <2>1. ASSUME NEW i \in 1..sizearray(tb), tb.array[i] # Nil PROVE tb.array[i] = Value(tb, <<"num", i>>)
    <3>1. <<"num", i>> \in Keys /\ InArray(tb, <<"num", i>>) /\ <<"num", i>>[2] = i
      BY <1>1, <2>1 DEF InArray
    <3>2. QED BY <3>1, ValueIs
  <2>2. QED BY <1>1, <2>1
<1>12. \A n \in DOMAIN tb.node : tb.node[n].val # Nil =>
          /\ tb.node[n].key \in Keys /\ tb.node[n].val \in Vals /\ tb.node[n].val = Value(tb, tb.node[n].key)
  <2>1. ASSUME NEW n \in DOMAIN tb.node, tb.node[n].val # Nil
        PROVE  tb.node[n].key \in Keys /\ tb.node[n].val \in Vals /\ tb.node[n].val = Value(tb, tb.node[n].key)
    <3>1. tb.node[n].key \in Keys /\ tb.node[n].val \in Vals
      BY <1>1, <2>1, NodesAre DEF KeysOK, Real
    <3>2. QED BY <3>1, ValueIs
  <2>2. QED BY <2>1
<1>13. \A k \in Keys : Old[k] = Value(tb, k)
  OBVIOUS
<1> HIDE DEF Old
<1>14. \A i \in 1..Len(es1) : es1[i][2] # Nil =>
          /\ es1[i][1] \in Keys /\ es1[i][2] \in Vals /\ es1[i][2] = Old[es1[i][1]]
          /\ InArray(t0, es1[i][1]) \/ es1[i][1] \in K
  BY <1>8, <1>9, <1>11, <1>13
<1> DEFINE In(es, k) == \E i \in 1..Len(es) : es[i][2] # Nil /\ es[i][1] = k
<1>15. /\ Steady(t1, K) /\ sizearray(t1) = sizearray(t0) /\ t1.lsizenode = t0.lsizenode
       /\ t1.ok = t0.ok /\ t1.nested = t0.nested
       /\ \A k \in Keys : Value(t1, k) = IF In(es1, k) THEN Old[k] ELSE Value(t0, k)
  BY <1>6, <1>9, <1>14, ReinsertIs
<1> HIDE DEF t1
<1>16. \A i \in 1..Len(es2) : es2[i][2] # Nil =>
          /\ es2[i][1] \in Keys /\ es2[i][2] \in Vals /\ es2[i][2] = Old[es2[i][1]]
          /\ InArray(t1, es2[i][1]) \/ es2[i][1] \in K
  <2>1. \A k : InArray(t1, k) <=> InArray(t0, k)
    BY <1>15 DEF InArray
  <2>2. ASSUME NEW i \in 1..Len(es2), es2[i][2] # Nil
        PROVE  /\ es2[i][1] \in Keys /\ es2[i][2] \in Vals /\ es2[i][2] = Old[es2[i][1]]
               /\ InArray(t1, es2[i][1]) \/ es2[i][1] \in K
    <3>1. PICK n \in DOMAIN tb.node : es2[i][1] = tb.node[n].key /\ es2[i][2] = tb.node[n].val
      BY <1>10
    <3>2. /\ tb.node[n].key \in Keys /\ tb.node[n].val \in Vals /\ tb.node[n].val = Value(tb, tb.node[n].key)
          /\ tb.node[n].val # Nil
      BY <1>12, <2>2, <3>1
    <3>3. InArray(t0, tb.node[n].key) \/ tb.node[n].key \in K
      BY <1>8, <3>2
    <3>4. QED BY <1>13, <2>1, <3>1, <3>2, <3>3
  <2>3. QED BY <2>2
<1>17. /\ Steady(tb2, K) /\ tb2.ok = t1.ok /\ tb2.nested = t1.nested
       /\ \A k \in Keys : Value(tb2, k) = IF In(es2, k) THEN Old[k] ELSE Value(t1, k)
  BY <1>2, <1>10, <1>15, <1>16, ReinsertIs
<1>18. ASSUME NEW k \in Keys PROVE Value(tb2, k) = Value(tb, k)
  <2>1. SUFFICES ASSUME ~In(es1, k), ~In(es2, k) PROVE Value(t0, k) = Value(tb, k)
    <3> HIDE DEF In
    <3>1. QED BY <1>13, <1>15, <1>17
  <2>2. \A n \in DOMAIN tb.node : tb.node[n].key = k => tb.node[n].val = Nil
    BY <1>10, <2>1
  <2>3. ~InArray(tb, k) => Value(tb, k) = Nil
    <3>1. CASE Unused(tb, k)
      BY <3>1, ValueIs
    <3>2. CASE \E n \in DOMAIN tb.node : tb.node[n].key = k
      BY <2>2, <3>2, ValueIs
    <3>3. QED BY <3>1, <3>2 DEF Unused
  <2>4. CASE InArray(t0, k)
    <3>1. Value(t0, k) = r.array[k[2]] /\ k[1] = "num" /\ k[2] \in 1..nasize
      BY <1>5, <1>7, <2>4, ValueIs
    <3>2. CASE k[2] <= sizearray(tb)
      <4>1. InArray(tb, k)
        BY <1>1, <3>1, <3>2 DEF InArray
      <4>2. QED BY <1>4, <3>1, <3>2, <4>1, ValueIs
    <3>3. CASE ~(k[2] <= sizearray(tb))
      <4>1. ~InArray(tb, k) /\ r.array[k[2]] = Nil
        BY <1>1, <1>4, <3>1, <3>3 DEF InArray
      <4>2. QED BY <2>3, <3>1, <4>1
    <3>4. QED BY <3>2, <3>3
  <2>5. CASE ~InArray(t0, k)
    <3>1. Unused(t0, k)
      BY <1>5, <2>5, KeysAre DEF Unused
    <3>2. Value(t0, k) = Nil
      BY <1>5, <3>1, ValueIs
    <3>3. CASE ~InArray(tb, k)
      BY <2>3, <3>2, <3>3
    <3>4. CASE InArray(tb, k)
      <4> DEFINE j == k[2]
      <4>1. j \in 1..sizearray(tb) /\ k = <<"num", j>> /\ Value(tb, k) = tb.array[j] /\ k[1] = "num"
        BY <3>4, ValueIs, KeysAre DEF InArray
      <4>2. j > nasize
        BY <1>7, <2>5, <4>1
      <4>3. j - nasize \in 1..Len(es1) /\ nasize + (j - nasize) = j
        BY <1>9, <4>1, <4>2
      <4>4. es1[j - nasize][1] = k /\ es1[j - nasize][2] = tb.array[j]
        BY <1>9, <4>1, <4>3
      <4>5. tb.array[j] = Nil
        BY <2>1, <4>3, <4>4
      <4>6. QED BY <3>2, <4>1, <4>5
    <3>5. QED BY <3>3, <3>4
  <2>6. QED BY <2>4, <2>5
<1>19. NoDead(tb2)
  BY <1>17, KeysAre DEF Steady, NoDead
<1>20. QED BY <1>4, <1>5, <1>15, <1>17, <1>18, <1>19 DEF Steady

-----------------------------------------------------------------------------
(* Counting.                                                                   *)

\* A set that is made up of two others has as many elements as both.
LEMMA TwoParts ==
    ASSUME NEW A, NEW B, NEW C, IsFiniteSet(A), IsFiniteSet(B), NEW f \in [A -> C], NEW g \in [B -> C],
           \A x, y \in A : f[x] = f[y] => x = y, \A x, y \in B : g[x] = g[y] => x = y,
           \A x \in A, y \in B : f[x] # g[y],
           \A z \in C : (\E x \in A : f[x] = z) \/ (\E y \in B : g[y] = z)
    PROVE  IsFiniteSet(C) /\ Cardinality(C) = Cardinality(A) + Cardinality(B)
<1> DEFINE FA == {f[x] : x \in A}
           GB == {g[y] : y \in B}
<1>1. /\ IsFiniteSet(FA) /\ Cardinality(FA) = Cardinality(A)
  <2> DEFINE h == [x \in A |-> f[x]]
  <2>1. h \in Bijection(A, FA)
    BY DEF Bijection, Injection, IsInjective, Surjection
  <2> HIDE DEF h, FA
  <2>2. QED BY <2>1, FS_Bijection DEF ExistsBijection
<1>2. /\ IsFiniteSet(GB) /\ Cardinality(GB) = Cardinality(B)
  <2> DEFINE h == [x \in B |-> g[x]]
  <2>1. h \in Bijection(B, GB)
    BY DEF Bijection, Injection, IsInjective, Surjection
  <2> HIDE DEF h, GB
  <2>2. QED BY <2>1, FS_Bijection DEF ExistsBijection
<1>3. C = FA \cup GB /\ FA \cap GB = {}
  <2>1. FA \subseteq C /\ GB \subseteq C
    OBVIOUS
  <2>2. \A z \in C : z \in FA \/ z \in GB
    OBVIOUS
  <2>3. \A z \in FA : z \notin GB
    OBVIOUS
  <2> HIDE DEF FA, GB
  <2>4. QED BY <2>1, <2>2, <2>3
<1> HIDE DEF FA, GB
<1>4. /\ IsFiniteSet(FA \cup GB)
      /\ Cardinality(FA \cup GB) = Cardinality(FA) + Cardinality(GB) - Cardinality(FA \cap GB)
  BY <1>1, <1>2, FS_Union
<1>5. Cardinality(FA \cap GB) = 0 /\ Cardinality(FA) \in Nat /\ Cardinality(GB) \in Nat
  BY <1>1, <1>2, <1>3, FS_EmptySet, FS_CardinalityType
<1>6. QED BY <1>1, <1>2, <1>3, <1>4, <1>5

\* The slice that an index is in.
Slot(k) == luaO_log2(k - 1) + 1

LEMMA SlotIs ==
    ASSUME NEW k \in Nat, k >= 1
    PROVE  /\ Slot(k) \in Nat /\ (Slot(k) = 0 <=> k <= twoto(0))
           /\ \A lg \in Nat : lg # 0 => (Slot(k) = lg <=> twoto(lg - 1) < k /\ k <= twoto(lg))
<1>1. CASE k = 1
  <2>1. Slot(k) = 0
    <3>1. k - 1 \in Nat /\ k - 1 = 0
      BY <1>1
    <3>2. luaO_log2(k - 1) = -1
      BY <3>1, Log2Is
    <3>3. QED BY <3>2 DEF Slot
  <2>2. \A lg \in Nat : lg # 0 => ~(twoto(lg - 1) < k)
    <3>1. \A lg \in Nat : lg # 0 => lg - 1 \in Nat
      OBVIOUS
    <3>2. \A j \in Nat : twoto(j) \in Nat \ {0}
      BY TwotoNext
    <3>3. QED BY <1>1, <3>1, <3>2
  <2>3. QED BY <1>1, <2>1, <2>2, TwotoZero
<1>2. CASE k # 1
  <2> DEFINE m == luaO_log2(k - 1)
  <2>1. m \in Nat /\ twoto(m) <= k - 1 /\ k - 1 < twoto(m + 1)
    <3>1. k - 1 \in Nat /\ k - 1 # 0
      BY <1>2
    <3>2. QED BY <3>1, Log2Is
  <2>2. Slot(k) = m + 1
    BY DEF Slot
  <2> HIDE DEF m
  <2>3. twoto(m) \in Nat /\ twoto(m + 1) \in Nat /\ m + 1 \in Nat
    BY <2>1, TwotoNext
  <2>4. twoto(m) < k /\ k <= twoto(m + 1)
    BY <2>1, <2>3
  <2>5. ASSUME NEW lg \in Nat, lg # 0, twoto(lg - 1) < k, k <= twoto(lg) PROVE lg = m + 1
    <3>1. lg - 1 \in Nat /\ twoto(lg - 1) \in Nat /\ twoto(lg) \in Nat
      BY <2>5, TwotoNext
    <3>2. ~(m + 1 <= lg - 1)
      <4>1. SUFFICES ASSUME m + 1 <= lg - 1 PROVE FALSE
        OBVIOUS
      <4>2. twoto(m + 1) <= twoto(lg - 1)
        BY <2>3, <3>1, <4>1, TwotoGrows
      <4>3. QED BY <2>3, <2>4, <2>5, <3>1, <4>2
    <3>3. ~(lg <= m)
      <4>1. SUFFICES ASSUME lg <= m PROVE FALSE
        OBVIOUS
      <4>2. twoto(lg) <= twoto(m)
        BY <2>1, <4>1, TwotoGrows
      <4>3. QED BY <2>3, <2>4, <2>5, <3>1, <4>2
    <3>4. QED BY <2>1, <3>2, <3>3
  <2>6. ASSUME NEW lg \in Nat, lg # 0, Slot(k) = lg PROVE twoto(lg - 1) < k /\ k <= twoto(lg)
    <3>1. lg - 1 = m /\ lg = m + 1
      BY <2>1, <2>2, <2>6
    <3>2. QED BY <2>4, <3>1
  <2>7. ~(k <= twoto(0)) /\ Slot(k) # 0
    BY <1>2, <2>1, <2>2, TwotoZero
  <2>8. QED BY <2>2, <2>3, <2>5, <2>6, <2>7
<1>3. QED BY <1>1, <1>2

\* The keys that have a value, and those of them that could be in an array part.
Held(tb)    == {k \in Keys : Value(tb, k) # Nil}
Indexes(tb) == {i \in 1..twoto(MAXBITS) : <<"num", i>> \in Held(tb)}
IntNodes(tb) == {n \in NodeUse(tb) : arrayindex(tb.node[n].key) >= 0}

\* Where these keys are.
LEMMA HeldAre ==
    ASSUME NEW tb, Sound(tb)
    PROVE  /\ \A i \in ArrayUse(tb) : i \in Indexes(tb) /\ <<"num", i>> \in Held(tb)
           /\ \A n \in NodeUse(tb) : tb.node[n].key \in Held(tb) /\ ~InArray(tb, tb.node[n].key)
           /\ \A m, n \in NodeUse(tb) : tb.node[m].key = tb.node[n].key => m = n
           /\ \A k \in Held(tb) : \/ \E i \in ArrayUse(tb) : k = <<"num", i>>
                                  \/ \E n \in NodeUse(tb) : k = tb.node[n].key
           /\ IsFiniteSet(ArrayUse(tb)) /\ IsFiniteSet(NodeUse(tb)) /\ IsFiniteSet(Held(tb))
           /\ IsFiniteSet(Indexes(tb))
<1>1. TypeOK(tb) /\ KeysOK(tb) /\ sizearray(tb) \in Nat /\ DOMAIN tb.node = 0..(sizenode(tb) - 1)
      /\ sizenode(tb) \in Nat \ {0} /\ twoto(MAXBITS) \in Nat
  BY NodesAre, TableConstants, TwotoNext DEF Sound
<1>2. ASSUME NEW i \in ArrayUse(tb) PROVE i \in Indexes(tb) /\ <<"num", i>> \in Held(tb)
  <2>1. i \in 1..sizearray(tb) /\ tb.array[i] # Nil
    BY DEF ArrayUse
  <2>2. <<"num", i>> \in Keys /\ InArray(tb, <<"num", i>>)
    BY <1>1, <2>1 DEF KeysOK, InArray
  <2>3. Value(tb, <<"num", i>>) = tb.array[i]
    BY <2>2, ValueIs
  <2>4. i \in 1..twoto(MAXBITS)
    BY <1>1, <2>1 DEF KeysOK
  <2>5. QED BY <2>1, <2>2, <2>3, <2>4 DEF Held, Indexes
<1>3. ASSUME NEW n \in NodeUse(tb)
      PROVE  tb.node[n].key \in Held(tb) /\ ~InArray(tb, tb.node[n].key) /\ n \in Real(tb)
  <2>1. n \in DOMAIN tb.node /\ tb.node[n].val # Nil
    BY DEF NodeUse
  <2>2. n \in Real(tb) /\ tb.node[n].key \in Keys
    BY <1>1, <2>1 DEF KeysOK, Real
  <2>3. Value(tb, tb.node[n].key) = tb.node[n].val /\ ~InArray(tb, tb.node[n].key)
    BY <2>1, <2>2, ValueIs
  <2>4. QED BY <2>1, <2>2, <2>3 DEF Held
<1>4. \A m, n \in NodeUse(tb) : tb.node[m].key = tb.node[n].key => m = n
  BY <1>1, <1>3 DEF KeysOK
<1>5. ASSUME NEW k \in Held(tb)
      PROVE  \/ \E i \in ArrayUse(tb) : k = <<"num", i>>
             \/ \E n \in NodeUse(tb) : k = tb.node[n].key
  <2>1. k \in Keys /\ Value(tb, k) # Nil
    BY DEF Held
  <2>2. CASE InArray(tb, k)
    <3>1. k[2] \in 1..sizearray(tb) /\ Value(tb, k) = tb.array[k[2]] /\ k = <<"num", k[2]>>
      BY <2>1, <2>2, ValueIs, KeysAre DEF InArray
    <3>2. k[2] \in ArrayUse(tb)
      BY <2>1, <3>1 DEF ArrayUse
    <3>3. QED BY <3>1, <3>2
  <2>3. CASE ~InArray(tb, k)
    <3>1. ~Unused(tb, k)
      BY <2>1, ValueIs
    <3>2. PICK n \in DOMAIN tb.node : tb.node[n].key = k
      BY <2>3, <3>1 DEF Unused
    <3>3. n \in NodeUse(tb)
      BY <2>1, <3>2, ValueIs DEF NodeUse
    <3>4. QED BY <3>2, <3>3
  <2>4. QED BY <2>2, <2>3
<1>6. IsFiniteSet(ArrayUse(tb)) /\ IsFiniteSet(NodeUse(tb)) /\ IsFiniteSet(Held(tb)) /\ IsFiniteSet(Indexes(tb))
  <2>1. ArrayUse(tb) \in SUBSET (1..sizearray(tb)) /\ NodeUse(tb) \in SUBSET (0..(sizenode(tb) - 1))
        /\ Held(tb) \in SUBSET Keys /\ Indexes(tb) \in SUBSET (1..twoto(MAXBITS))
    BY <1>1 DEF ArrayUse, NodeUse, Held, Indexes
  <2>2. 1 \in Int /\ 0 \in Int /\ sizearray(tb) \in Int /\ sizenode(tb) - 1 \in Int /\ twoto(MAXBITS) \in Int
    BY <1>1
  <2>3. IsFiniteSet(1..sizearray(tb)) /\ IsFiniteSet(0..(sizenode(tb) - 1)) /\ IsFiniteSet(1..twoto(MAXBITS))
    BY <2>2, FS_Interval
  <2>4. QED BY <2>1, <2>3, FewKeys, FS_Subset
<1>7. QED BY <1>2, <1>3, <1>4, <1>5, <1>6

\* What numuse counts: the indexes, slice by slice, and all keys.
LEMMA NumuseIs ==
    ASSUME NEW tb, Sound(tb)
    PROVE  LET u == numuse(tb)
           IN  /\ \A lg \in 0..MAXBITS : u.nums[lg] = Cardinality({i \in Indexes(tb) : Slot(i) = lg})
               /\ u.narray = Cardinality(Indexes(tb)) /\ u.total = Cardinality(Held(tb))
<1> DEFINE AU == ArrayUse(tb)
           ix(n) == arrayindex(tb.node[n].key)
           ints == IntNodes(tb)
<1>1. \A n \in ints : /\ ix(n) \in 1..twoto(MAXBITS) /\ tb.node[n].key = <<"num", ix(n)>>
                      /\ ix(n) \in Indexes(tb) /\ ix(n) \notin AU /\ n \in NodeUse(tb)
  <2>1. SUFFICES ASSUME NEW n \in ints
                 PROVE  /\ ix(n) \in 1..twoto(MAXBITS) /\ tb.node[n].key = <<"num", ix(n)>>
                        /\ ix(n) \in Indexes(tb) /\ ix(n) \notin AU /\ n \in NodeUse(tb)
    OBVIOUS
  <2>2. n \in NodeUse(tb) /\ ix(n) >= 0
    BY DEF IntNodes
  <2> DEFINE k == tb.node[n].key
  <2>3. k \in Held(tb) /\ ~InArray(tb, k)
    BY <2>2, HeldAre
  <2> HIDE DEF k
  <2>4. ix(n) = IF k[1] = "num" /\ k[2] >= 1 /\ k[2] <= twoto(MAXBITS) THEN k[2] ELSE -1
    BY DEF arrayindex, k
  <2>5. k[1] = "num" /\ k[2] >= 1 /\ k[2] <= twoto(MAXBITS) /\ ix(n) = k[2]
    BY <2>2, <2>4
  <2>6. k[2] \in Int /\ k = <<"num", k[2]>> /\ twoto(MAXBITS) \in Nat
    BY <2>3, <2>5, KeysAre, TwotoNext, TableConstants DEF Held
  <2>7. ix(n) \in 1..twoto(MAXBITS) /\ k = <<"num", ix(n)>>
    BY <2>5, <2>6
  <2>8. ix(n) \in Indexes(tb)
    BY <2>3, <2>7 DEF Indexes
  <2>9. ix(n) \notin AU
    BY <2>3, <2>5 DEF InArray, ArrayUse
  <2>10. QED BY <2>2, <2>7, <2>8, <2>9 DEF k
<1>2. \A m, n \in ints : ix(m) = ix(n) => m = n
  <2>1. \A m, n \in ints : ix(m) = ix(n) => tb.node[m].key = tb.node[n].key
    BY <1>1
  <2>2. QED BY <1>1, <2>1, HeldAre
<1>3. \A i \in Indexes(tb) : i \in AU \/ \E n \in ints : ix(n) = i
  <2>1. SUFFICES ASSUME NEW i \in Indexes(tb), i \notin AU PROVE \E n \in ints : ix(n) = i
    OBVIOUS
  <2>2. <<"num", i>> \in Held(tb) /\ i \in 1..twoto(MAXBITS)
    BY DEF Indexes
  <2>3. \A j \in AU : <<"num", i>> # <<"num", j>>
    BY <2>1
  <2>4. PICK n \in NodeUse(tb) : tb.node[n].key = <<"num", i>>
    BY <2>2, <2>3, HeldAre
  <2>5. twoto(MAXBITS) \in Nat
    BY TwotoNext, TableConstants
  <2>6. ix(n) = i
    BY <2>2, <2>4, <2>5 DEF arrayindex
  <2>7. n \in ints
    BY <2>2, <2>6 DEF IntNodes
  <2>8. QED BY <2>6, <2>7
<1>4. IsFiniteSet(AU) /\ IsFiniteSet(ints) /\ \A i \in AU : i \in Indexes(tb)
  <2>1. ints \in SUBSET NodeUse(tb)
    BY DEF IntNodes
  <2>2. QED BY <2>1, HeldAre, FS_Subset
<1> HIDE DEF AU, ints, ix
<1>5. ASSUME NEW S
      PROVE  Cardinality({i \in AU : i \in S}) + Cardinality({n \in ints : ix(n) \in S})
               = Cardinality({i \in Indexes(tb) : i \in S})
  <2> DEFINE A == {i \in AU : i \in S}
             B == {n \in ints : ix(n) \in S}
             C == {i \in Indexes(tb) : i \in S}
             f == [i \in A |-> i]
             g == [n \in B |-> ix(n)]
  <2>1. IsFiniteSet(A) /\ IsFiniteSet(B)
    <3>1. A \in SUBSET AU /\ B \in SUBSET ints
      OBVIOUS
    <3>2. QED BY <1>4, <3>1, FS_Subset
  <2>2. f \in [A -> C] /\ g \in [B -> C]
    BY <1>1, <1>4
  <2>3. (\A x, y \in A : f[x] = f[y] => x = y) /\ \A x, y \in B : g[x] = g[y] => x = y
    BY <1>2
  <2>4. \A x \in A, y \in B : f[x] # g[y]
    BY <1>1
  <2>5. \A z \in C : (\E x \in A : f[x] = z) \/ (\E y \in B : g[y] = z)
    BY <1>3
  <2> HIDE DEF A, B, C, f, g
  <2>6. Cardinality(C) = Cardinality(A) + Cardinality(B)
    BY <2>1, <2>2, <2>3, <2>4, <2>5, TwoParts
  <2>7. QED BY <2>6 DEF A, B, C
<1>6. Cardinality(AU) + Cardinality(ints) = Cardinality(Indexes(tb))
  <2> DEFINE S == Indexes(tb)
  <2>1. {i \in AU : i \in S} = AU /\ {n \in ints : ix(n) \in S} = ints /\ {i \in Indexes(tb) : i \in S} = Indexes(tb)
    BY <1>1, <1>4
  <2>2. QED BY <1>5, <2>1
<1>7. ASSUME NEW lg \in 0..MAXBITS
      PROVE  Cardinality({i \in AU : Slot(i) = lg}) + Cardinality({n \in ints : Slot(ix(n)) = lg})
               = Cardinality({i \in Indexes(tb) : Slot(i) = lg})
  <2> DEFINE S == {i \in Indexes(tb) : Slot(i) = lg}
  <2>1. /\ {i \in AU : i \in S} = {i \in AU : Slot(i) = lg}
        /\ {n \in ints : ix(n) \in S} = {n \in ints : Slot(ix(n)) = lg}
        /\ {i \in Indexes(tb) : i \in S} = S
    BY <1>1, <1>4
  <2>2. QED BY <1>5, <2>1
<1>8. Cardinality(AU) + Cardinality(NodeUse(tb)) = Cardinality(Held(tb))
  <2> DEFINE A == AU
             B == NodeUse(tb)
             C == Held(tb)
             f == [i \in A |-> <<"num", i>>]
             g == [n \in B |-> tb.node[n].key]
  <2>1. IsFiniteSet(A) /\ IsFiniteSet(B)
    BY HeldAre DEF AU
  <2>2. f \in [A -> C] /\ g \in [B -> C]
    BY HeldAre DEF AU
  <2>3. (\A x, y \in A : f[x] = f[y] => x = y) /\ \A x, y \in B : g[x] = g[y] => x = y
    BY HeldAre
  <2>4. \A x \in A, y \in B : f[x] # g[y]
    <3>1. \A x \in A : InArray(tb, <<"num", x>>)
      BY DEF AU, ArrayUse, InArray
    <3>2. \A y \in B : ~InArray(tb, tb.node[y].key)
      BY HeldAre
    <3>3. QED BY <3>1, <3>2
  <2>5. \A z \in C : (\E x \in A : f[x] = z) \/ (\E y \in B : g[y] = z)
    BY HeldAre DEF AU
  <2> HIDE DEF A, B, C, f, g
  <2>6. Cardinality(C) = Cardinality(A) + Cardinality(B)
    BY <2>1, <2>2, <2>3, <2>4, <2>5, TwoParts
  <2>7. QED BY <2>6 DEF A, B, C
<1>9. numuse(tb) =
        [nums   |-> [lg \in 0..MAXBITS |->
                       Cardinality({i \in AU : Slot(i) = lg}) + Cardinality({n \in ints : Slot(ix(n)) = lg})],
         narray |-> Cardinality(AU) + Cardinality(ints),
         total  |-> Cardinality(AU) + Cardinality(NodeUse(tb))]
  BY DEF numuse, Slot, AU, ints, ix, IntNodes
<1>10. QED BY <1>6, <1>7, <1>8, <1>9

\* How many of a set of indexes are up to a power of two.
UpTo(S, lg) == Cardinality({i \in S : i <= twoto(lg)})

LEMMA UpToIs ==
    ASSUME NEW S \in SUBSET (Nat \ {0}), IsFiniteSet(S), NEW lg \in Nat
    PROVE  /\ UpTo(S, lg) \in Nat /\ UpTo(S, lg) <= twoto(lg) /\ UpTo(S, lg) <= Cardinality(S)
           /\ UpTo(S, 0) = Cardinality({i \in S : Slot(i) = 0})
           /\ lg # 0 => UpTo(S, lg) = UpTo(S, lg - 1) + Cardinality({i \in S : Slot(i) = lg})
<1> DEFINE A(m) == {i \in S : i <= twoto(m)}
           B == {i \in S : Slot(i) = lg}
<1>1. \A i \in S : i \in Nat /\ i >= 1
  OBVIOUS
<1>2. \A m \in Nat : A(m) \in SUBSET S /\ IsFiniteSet(A(m)) /\ Cardinality(A(m)) <= Cardinality(S)
  <2>1. SUFFICES ASSUME NEW m \in Nat PROVE IsFiniteSet(A(m)) /\ Cardinality(A(m)) <= Cardinality(S)
    OBVIOUS
  <2>2. A(m) \in SUBSET S
    OBVIOUS
  <2> HIDE DEF A
  <2>3. QED BY <2>2, FS_Subset
<1>3. UpTo(S, lg) \in Nat /\ UpTo(S, lg) <= Cardinality(S)
  <2>1. UpTo(S, lg) = Cardinality(A(lg))
    BY DEF UpTo
  <2> HIDE DEF A
  <2>2. QED BY <1>2, <2>1, FS_CardinalityType
<1>4. UpTo(S, lg) <= twoto(lg)
  <2>1. twoto(lg) \in Nat \ {0}
    BY TwotoNext
  <2>2. A(lg) \in SUBSET (1..twoto(lg))
    <3>1. \A i \in S : i <= twoto(lg) => i \in 1..twoto(lg)
      BY <1>1, <2>1
    <3>2. QED BY <3>1
  <2>3. 1 \in Int /\ twoto(lg) \in Int /\ ~(1 > twoto(lg)) /\ twoto(lg) - 1 + 1 = twoto(lg)
    BY <2>1
  <2>4. IsFiniteSet(1..twoto(lg)) /\ Cardinality(1..twoto(lg)) = IF 1 > twoto(lg) THEN 0 ELSE twoto(lg) - 1 + 1
    BY <2>3, FS_Interval
  <2>5. UpTo(S, lg) = Cardinality(A(lg))
    BY DEF UpTo
  <2> HIDE DEF A
  <2>6. Cardinality(A(lg)) <= Cardinality(1..twoto(lg))
    BY <2>2, <2>4, FS_Subset
  <2>7. QED BY <2>3, <2>4, <2>5, <2>6
<1>5. UpTo(S, 0) = Cardinality({i \in S : Slot(i) = 0})
  <2>1. A(0) = {i \in S : Slot(i) = 0}
    BY <1>1, SlotIs
  <2>2. QED BY <2>1 DEF UpTo
<1>6. ASSUME lg # 0 PROVE UpTo(S, lg) = UpTo(S, lg - 1) + Cardinality(B)
  <2>1. lg - 1 \in Nat /\ twoto(lg - 1) \in Nat /\ twoto(lg) \in Nat /\ twoto(lg - 1) <= twoto(lg)
    <3>1. lg - 1 \in Nat /\ lg - 1 <= lg
      BY <1>6
    <3>2. QED BY <3>1, TwotoNext, TwotoGrows
  <2>2. \A i \in S : i \in B <=> twoto(lg - 1) < i /\ i <= twoto(lg)
    BY <1>1, <1>6, SlotIs
  <2>3. A(lg) = A(lg - 1) \cup B /\ A(lg - 1) \cap B = {}
    <3>1. \A i \in S : i \in A(lg) <=> i \in A(lg - 1) \/ i \in B
      BY <1>1, <2>1, <2>2
    <3>2. \A i \in S : ~(i \in A(lg - 1) /\ i \in B)
      BY <1>1, <2>1, <2>2
    <3>3. \A m : A(m) \subseteq S
      OBVIOUS
    <3>4. B \subseteq S
      OBVIOUS
    <3> HIDE DEF A, B
    <3>5. QED BY <3>1, <3>2, <3>3, <3>4
  <2>4. UpTo(S, lg) = Cardinality(A(lg)) /\ UpTo(S, lg - 1) = Cardinality(A(lg - 1))
    BY DEF UpTo
  <2>5. B \in SUBSET S
    OBVIOUS
  <2> HIDE DEF A, B
  <2>6. IsFiniteSet(B) /\ IsFiniteSet(A(lg - 1))
    BY <1>2, <2>1, <2>5, FS_Subset
  <2>7. /\ Cardinality(A(lg - 1) \cup B) = Cardinality(A(lg - 1)) + Cardinality(B) - Cardinality(A(lg - 1) \cap B)
        /\ Cardinality(A(lg - 1) \cap B) = 0 /\ Cardinality(B) \in Nat /\ Cardinality(A(lg - 1)) \in Nat
    BY <2>3, <2>6, FS_Union, FS_EmptySet, FS_CardinalityType
  <2>8. QED BY <2>3, <2>4, <2>7
<1>7. QED BY <1>3, <1>4, <1>5, <1>6

\* The turns of computesizes.
Turn(u, f, i) ==
    IF i = 0 THEN [a |-> u.nums[0], na |-> u.nums[0], n |-> IF u.nums[0] = 0 THEN -1 ELSE 0]
    ELSE LET s == f[i - 1]
             a == s.a + u.nums[i]
         IN IF ~(s.a < u.narray /\ u.narray >= twoto(i - 1)) THEN s
            ELSE IF u.nums[i] > 0 /\ a >= twoto(i - 1) THEN [a |-> a, na |-> a, n |-> i]
            ELSE [s EXCEPT !.a = a]

LEMMA ComputesizesTurns ==
    ASSUME NEW u
    PROVE  \E f : /\ \A i \in 0..MAXBITS : f[i] = Turn(u, f, i)
                  /\ LET s == f[MAXBITS]
                         nasize == IF s.n = -1 THEN 0 ELSE twoto(s.n)
                     IN computesizes(u) =
                          [nasize |-> nasize, nhash |-> u.total - s.na,
                           ok |-> s.na <= u.narray /\ u.narray <= u.total /\ s.na <= nasize /\ s.na >= nasize \div 2]
<1> DEFINE N == MAXBITS
           Is(f, m) == f = [i \in 0..m |-> Turn(u, f, i)]
           bad == {m \in Nat : \A f : ~Is(f, m)}
           loop == CHOOSE f : Is(f, N)
<1>1. LET s == loop[MAXBITS]
          nasize == IF s.n = -1 THEN 0 ELSE twoto(s.n)
      IN computesizes(u) =
           [nasize |-> nasize, nhash |-> u.total - s.na,
            ok |-> s.na <= u.narray /\ u.narray <= u.total /\ s.na <= nasize /\ s.na >= nasize \div 2]
  BY DEF computesizes, Turn
<1>2. bad = {}
  <2>1. SUFFICES ASSUME bad # {} PROVE FALSE
    OBVIOUS
  <2>2. PICK m \in bad : \A j \in bad : m <= j
    <3>1. bad \in SUBSET Nat
      OBVIOUS
    <3>2. QED BY <2>1, <3>1, Least
  <2>3. m \in Nat /\ \A f : ~Is(f, m)
    BY <2>2
  <2>4. CASE m = 0
    <3> DEFINE f == [i \in 0..0 |-> Turn(u, << >>, 0)]
    <3>1. \A i \in 0..0 : f[i] = Turn(u, f, i)
      BY DEF Turn
    <3>2. f = [i \in 0..0 |-> f[i]]
      OBVIOUS
    <3> HIDE DEF f
    <3>3. Is(f, m)
      BY <2>4, <3>1, <3>2
    <3>4. QED BY <2>3, <3>3
  <2>5. CASE m # 0
    <3>1. m - 1 \in Nat /\ m - 1 \notin bad
      <4> HIDE DEF bad
      <4>1. m - 1 \in Nat /\ ~(m <= m - 1)
        BY <2>3, <2>5
      <4>2. QED BY <2>2, <4>1
    <3>2. PICK f : Is(f, m - 1)
      BY <3>1
    <3> DEFINE g == [i \in 0..m |-> IF i = m THEN Turn(u, f, m) ELSE f[i]]
    <3>3. \A i \in 0..(m - 1) : f[i] = Turn(u, f, i)
      <4>1. f = [i \in 0..(m - 1) |-> Turn(u, f, i)]
        BY <3>2
      <4>2. QED BY <4>1
    <3>4. ASSUME NEW i \in 0..m PROVE g[i] = Turn(u, g, i)
      <4>1. i # 0 => g[i - 1] = f[i - 1]
        BY <2>3, <2>5
      <4>2. Turn(u, g, i) = Turn(u, f, i)
        <5> HIDE DEF g
        <5>1. QED BY <4>1 DEF Turn
      <4>3. CASE i = m
        BY <4>2, <4>3
      <4>4. CASE i # m
        <5>1. i \in 0..(m - 1)
          BY <2>3, <4>4
        <5>2. g[i] = f[i]
          BY <4>4
        <5> HIDE DEF g
        <5>3. QED BY <3>3, <4>2, <5>1, <5>2
      <4>5. QED BY <4>3, <4>4
    <3>5. g = [i \in 0..m |-> g[i]]
      OBVIOUS
    <3> HIDE DEF g
    <3>6. Is(g, m)
      BY <3>4, <3>5
    <3>7. QED BY <2>3, <3>6
  <2>6. QED BY <2>4, <2>5
<1>3. Is(loop, N)
  <2>1. N \notin bad /\ N \in Nat
    BY <1>2, TableConstants
  <2>2. \E f : Is(f, N)
    BY <2>1
  <2> HIDE DEF Is
  <2>3. QED BY <2>2, Zenon
<1> HIDE DEF loop
<1>4. \A i \in 0..MAXBITS : loop[i] = Turn(u, loop, i)
  <2>1. loop = [i \in 0..N |-> Turn(u, loop, i)]
    BY <1>3
  <2>2. QED BY <2>1
<1>5. QED BY <1>1, <1>4

\* The array part gets a power of two of elements of which at least half are in use, and the
\* rest is counted right.
LEMMA ComputesizesIs ==
    ASSUME NEW u, NEW S \in SUBSET (1..twoto(MAXBITS)), IsFiniteSet(S),
           \A lg \in 0..MAXBITS : u.nums[lg] = Cardinality({i \in S : Slot(i) = lg}),
           u.narray = Cardinality(S), u.total \in Nat, u.narray <= u.total
    PROVE  LET c == computesizes(u)
           IN  /\ c.ok /\ c.nasize \in Nat /\ c.nasize <= twoto(MAXBITS)
               /\ c.nhash = u.total - Cardinality({i \in S : i <= c.nasize})
<1> DEFINE c == computesizes(u)
           nums == u.nums
<1>1. PICK f : /\ \A i \in 0..MAXBITS : f[i] = Turn(u, f, i)
               /\ LET s == f[MAXBITS]
                      nasize == IF s.n = -1 THEN 0 ELSE twoto(s.n)
                  IN c = [nasize |-> nasize, nhash |-> u.total - s.na,
                          ok |-> s.na <= u.narray /\ u.narray <= u.total /\ s.na <= nasize /\ s.na >= nasize \div 2]
  BY ComputesizesTurns
<1> HIDE DEF c
<1>2. S \in SUBSET (Nat \ {0}) /\ u.narray \in Nat /\ MAXBITS \in Nat
  <2>1. twoto(MAXBITS) \in Nat /\ MAXBITS \in Nat
    BY TwotoNext, TableConstants
  <2>2. QED BY <2>1, FS_CardinalityType
<1>3. \A lg \in Nat : UpTo(S, lg) \in Nat /\ UpTo(S, lg) <= twoto(lg) /\ UpTo(S, lg) <= u.narray
  BY <1>2, UpToIs
<1>4. UpTo(S, 0) = u.nums[0] /\ \A lg \in 0..MAXBITS : lg # 0 => UpTo(S, lg) = UpTo(S, lg - 1) + u.nums[lg]
  <2>1. 0 \in 0..MAXBITS /\ \A lg \in 0..MAXBITS : lg \in Nat
    BY <1>2
  <2>2. QED BY <1>2, <2>1, UpToIs
<1> DEFINE Good(s, i) ==
             /\ s.n \in -1..i /\ s.na = IF s.n = -1 THEN 0 ELSE UpTo(S, s.n)
             /\ s.n # -1 => 2 * s.na >= twoto(s.n)
             /\ s.a \in Nat
             /\ s.a = UpTo(S, i) \/ s.a >= u.narray \/ u.narray < twoto(i)
             /\ s = [a |-> s.a, na |-> s.na, n |-> s.n]
           bad == {i \in 0..MAXBITS : ~Good(f[i], i)}
<1>5. bad = {}
  <2>1. SUFFICES ASSUME bad # {} PROVE FALSE
    OBVIOUS
  <2>2. PICK i \in bad : \A j \in bad : i <= j
    <3>1. bad \in SUBSET Nat
      BY <1>2
    <3>2. QED BY <2>1, <3>1, Least
  <2>3. i \in 0..MAXBITS /\ i \in Nat /\ ~Good(f[i], i)
    BY <2>2
  <2>4. i # 0
    <3>1. SUFFICES ASSUME i = 0 PROVE FALSE
      OBVIOUS
    <3>2. f[0] = [a |-> nums[0], na |-> nums[0], n |-> IF nums[0] = 0 THEN -1 ELSE 0]
      BY <1>1, <2>3, <3>1 DEF Turn
    <3>3. nums[0] = UpTo(S, 0) /\ nums[0] \in Nat /\ twoto(0) = 1
      BY <1>3, <1>4, TwotoZero
    <3>4. f[0].a = nums[0] /\ f[0].na = nums[0] /\ f[0].n = (IF nums[0] = 0 THEN -1 ELSE 0)
          /\ f[0] = [a |-> f[0].a, na |-> f[0].na, n |-> f[0].n]
      BY <3>2
    <3>5. Good(f[0], 0)
      BY <3>3, <3>4
    <3>6. QED BY <2>3, <3>1, <3>5
  <2>5. i - 1 \in 0..MAXBITS /\ i - 1 \in Nat /\ i - 1 \notin bad
    <3> HIDE DEF bad
    <3>1. i - 1 \in 0..MAXBITS /\ i - 1 \in Nat /\ ~(i <= i - 1)
      BY <1>2, <2>3, <2>4
    <3>2. QED BY <2>2, <3>1
  <2> DEFINE s == f[i - 1]
             a == s.a + nums[i]
  <2>6. Good(s, i - 1)
    BY <2>5
  <2>7. f[i] = IF ~(s.a < u.narray /\ u.narray >= twoto(i - 1)) THEN s
               ELSE IF nums[i] > 0 /\ a >= twoto(i - 1) THEN [a |-> a, na |-> a, n |-> i]
               ELSE [s EXCEPT !.a = a]
    BY <1>1, <2>3, <2>4 DEF Turn
  <2> HIDE DEF s
  <2>8. /\ twoto(i) = 2 * twoto(i - 1) /\ twoto(i - 1) \in Nat \ {0}
    <3>1. i - 1 + 1 = i
      BY <2>3
    <3>2. QED BY <2>5, <3>1, TwotoNext
  <2>9. nums[i] \in Nat /\ UpTo(S, i) = UpTo(S, i - 1) + nums[i] /\ UpTo(S, i) \in Nat /\ UpTo(S, i - 1) \in Nat
    <3>1. {j \in S : Slot(j) = i} \in SUBSET S
      OBVIOUS
    <3>2. IsFiniteSet({j \in S : Slot(j) = i})
      BY <3>1, FS_Subset
    <3>3. nums[i] \in Nat
      BY <2>3, <3>2, FS_CardinalityType
    <3>4. QED BY <1>3, <1>4, <2>3, <2>4, <2>5, <3>3
  <2>10. s.n \in -1..i /\ s.n \in Int
    BY <2>3, <2>6
  <2>11. CASE ~(s.a < u.narray /\ u.narray >= twoto(i - 1))
    <3>1. f[i] = s
      BY <2>7, <2>11
    <3>2. s.a >= u.narray \/ u.narray < twoto(i)
      BY <1>2, <2>6, <2>8, <2>11
    <3>3. Good(s, i)
      BY <2>6, <2>10, <3>2
    <3>4. QED BY <2>3, <3>1, <3>3
  <2>12. CASE s.a < u.narray /\ u.narray >= twoto(i - 1)
    <3>1. s.a = UpTo(S, i - 1)
      BY <1>2, <2>6, <2>8, <2>12
    <3>2. a = UpTo(S, i) /\ a \in Nat
      BY <2>9, <3>1
    <3>3. CASE nums[i] > 0 /\ a >= twoto(i - 1)
      <4>1. f[i] = [a |-> a, na |-> a, n |-> i]
        BY <2>7, <2>12, <3>3
      <4> HIDE DEF a
      <4>2. f[i].a = a /\ f[i].na = a /\ f[i].n = i /\ f[i] = [a |-> f[i].a, na |-> f[i].na, n |-> f[i].n]
        BY <4>1
      <4>3. 2 * a >= twoto(i)
        BY <2>8, <3>2, <3>3
      <4>4. Good(f[i], i)
        BY <2>3, <3>2, <4>2, <4>3
      <4>5. QED BY <2>3, <4>4
    <3>4. CASE ~(nums[i] > 0 /\ a >= twoto(i - 1))
      <4>1. f[i] = [s EXCEPT !.a = a]
        BY <2>7, <2>12, <3>4
      <4> HIDE DEF a
      <4>2. s = [a |-> s.a, na |-> s.na, n |-> s.n]
        BY <2>6
      <4>3. f[i] = [a |-> a, na |-> s.na, n |-> s.n]
        BY <4>1, <4>2
      <4>4. f[i].a = a /\ f[i].na = s.na /\ f[i].n = s.n /\ f[i] = [a |-> f[i].a, na |-> f[i].na, n |-> f[i].n]
        BY <4>3
      <4>5. Good(f[i], i)
        BY <2>6, <2>10, <3>2, <4>4
      <4>6. QED BY <2>3, <4>5
    <3>5. QED BY <3>3, <3>4
  <2>13. QED BY <2>11, <2>12
<1> DEFINE s == f[MAXBITS]
           nasize == IF s.n = -1 THEN 0 ELSE twoto(s.n)
<1>6. Good(s, MAXBITS)
  <2>1. MAXBITS \in 0..MAXBITS
    BY <1>2
  <2> HIDE DEF Good
  <2>2. QED BY <1>5, <2>1
<1>7. c.nasize = nasize /\ c.nhash = u.total - s.na
      /\ c.ok = (s.na <= u.narray /\ u.narray <= u.total /\ s.na <= nasize /\ s.na >= nasize \div 2)
  BY <1>1
<1> HIDE DEF s
<1>8. CASE s.n = -1
  <2>1. s.na = 0 /\ nasize = 0
    BY <1>6, <1>8
  <2>2. {i \in S : i <= 0} = {}
    <3>1. \A i \in S : i \in Nat /\ i # 0
      BY <1>2
    <3>2. \A i \in S : ~(i <= 0)
      BY <3>1
    <3>3. QED BY <3>2
  <2>3. Cardinality({i \in S : i <= 0}) = 0
    BY <2>2, FS_EmptySet
  <2>4. 0 \div 2 = 0 /\ twoto(MAXBITS) \in Nat
    BY TwotoNext, TableConstants
  <2> HIDE DEF nasize
  <2>5. c.nasize = 0 /\ c.nhash = u.total - 0 /\ c.ok
    <3>1. 0 <= u.narray /\ u.narray <= u.total /\ 0 <= 0 /\ 0 >= 0 \div 2
      BY <1>2, <2>4
    <3>2. c.ok = (0 <= u.narray /\ u.narray <= u.total /\ 0 <= 0 /\ 0 >= 0 \div 2)
      BY <1>7, <2>1
    <3>3. QED BY <1>7, <2>1, <3>1, <3>2
  <2>6. u.total - 0 = u.total - Cardinality({i \in S : i <= c.nasize})
    BY <2>3, <2>5
  <2>7. c.nasize \in Nat /\ c.nasize <= twoto(MAXBITS)
    BY <2>4, <2>5
  <2>8. QED BY <2>5, <2>6, <2>7 DEF c
<1>9. CASE s.n # -1
  <2>1. s.n \in Nat /\ s.n <= MAXBITS /\ s.na = UpTo(S, s.n) /\ 2 * s.na >= twoto(s.n) /\ nasize = twoto(s.n)
    BY <1>2, <1>6, <1>9
  <2>2. twoto(s.n) \in Nat /\ twoto(MAXBITS) \in Nat /\ twoto(s.n) <= twoto(MAXBITS)
    BY <1>2, <2>1, TwotoNext, TwotoGrows
  <2>3. s.na \in Nat /\ s.na <= twoto(s.n) /\ s.na <= u.narray
    BY <1>3, <2>1
  <2>4. s.na >= twoto(s.n) \div 2
    BY <2>1, <2>2, <2>3
  <2>5. s.na = Cardinality({i \in S : i <= twoto(s.n)})
    BY <2>1 DEF UpTo
  <2> HIDE DEF nasize
  <2>6. QED BY <1>7, <2>1, <2>2, <2>3, <2>4, <2>5 DEF c
<1>10. QED BY <1>8, <1>9

-----------------------------------------------------------------------------
(* Assigning.                                                                  *)

\* What goes to the array part and the rest are all keys that have a value.
LEMMA RestIs ==
    ASSUME NEW tb, Sound(tb), NEW nasize \in Nat, nasize <= twoto(MAXBITS)
    PROVE  /\ IsFiniteSet(Rest(tb, nasize))
           /\ Cardinality(Held(tb)) = Cardinality({i \in Indexes(tb) : i <= nasize}) + Cardinality(Rest(tb, nasize))
<1> DEFINE A == {i \in Indexes(tb) : i <= nasize}
           B == Rest(tb, nasize)
           C == Held(tb)
           f == [i \in A |-> <<"num", i>>]
           g == [k \in B |-> k]
<1>1. IsFiniteSet(A) /\ IsFiniteSet(B)
  <2>1. A \in SUBSET Indexes(tb) /\ B \in SUBSET C
    BY DEF Rest, Held
  <2> HIDE DEF A, B, C
  <2>2. IsFiniteSet(Indexes(tb)) /\ IsFiniteSet(C)
    BY HeldAre DEF C
  <2>3. QED BY <2>1, <2>2, FS_Subset
<1>2. f \in [A -> C] /\ g \in [B -> C]
  BY DEF Indexes, Rest, Held
<1>3. (\A x, y \in A : f[x] = f[y] => x = y) /\ \A x, y \in B : g[x] = g[y] => x = y
  OBVIOUS
<1>4. twoto(MAXBITS) \in Nat
  BY TwotoNext, TableConstants
<1>5. \A x \in A, y \in B : f[x] # g[y]
  <2>1. SUFFICES ASSUME NEW x \in A, <<"num", x>> \in B PROVE FALSE
    OBVIOUS
  <2>2. x \in 1..nasize
    BY <1>4 DEF Indexes
  <2>3. <<"num", x>>[1] = "num" /\ <<"num", x>>[2] = x
    OBVIOUS
  <2>4. QED BY <2>1, <2>2, <2>3 DEF Rest
<1>6. \A z \in C : (\E x \in A : f[x] = z) \/ (\E y \in B : g[y] = z)
  <2>1. SUFFICES ASSUME NEW z \in C, z \notin B PROVE \E x \in A : f[x] = z
    OBVIOUS
  <2>2. z \in Keys /\ z[1] = "num" /\ z[2] \in 1..nasize
    BY <2>1 DEF Rest, Held
  <2>3. z = <<"num", z[2]>>
    BY <2>2, KeysAre
  <2>4. z[2] \in A
    BY <1>4, <2>1, <2>2, <2>3 DEF Indexes
  <2>5. QED BY <2>3, <2>4
<1> HIDE DEF A, B, C, f, g
<1>7. Cardinality(C) = Cardinality(A) + Cardinality(B)
  BY <1>1, <1>2, <1>3, <1>5, <1>6, TwoParts
<1>8. QED BY <1>1, <1>7 DEF A, B, C

\* The sizes that are computed are right, so a table is resized once and keeps its fields.
LEMMA RehashIs ==
    ASSUME NEW tb, Sound(tb), NEW tb2, tb2 = rehash(tb)
    PROVE  /\ Sound(tb2) /\ FreeOK(tb2) /\ tb2.ok = tb.ok /\ tb2.nested = tb.nested /\ NoDead(tb2)
           /\ \A k \in Keys : Value(tb2, k) = Value(tb, k)
<1> DEFINE u == numuse(tb)
           c == computesizes(u)
           S == Indexes(tb)
           H == Cardinality(Held(tb))
           lsize == luaO_log2(c.nhash) + 1
           max == twoto(MAXBITS)
<1>1. max \in Nat /\ MAXBITS \in Nat
  BY TwotoNext, TableConstants
<1>2. /\ S \in SUBSET (1..max) /\ IsFiniteSet(S) /\ IsFiniteSet(Held(tb)) /\ H \in Nat /\ H < max
  <2>1. S \in SUBSET (1..max) /\ Held(tb) \in SUBSET Keys
    BY DEF Indexes, Held
  <2>2. IsFiniteSet(S) /\ IsFiniteSet(Held(tb))
    BY HeldAre
  <2>3. IsFiniteSet(Keys) /\ Cardinality(Keys) < max
    BY FewKeys DEF twoto
  <2>4. Cardinality(Held(tb)) <= Cardinality(Keys) /\ Cardinality(Keys) \in Nat /\ H \in Nat
    BY <2>1, <2>2, <2>3, FS_Subset, FS_CardinalityType
  <2> HIDE DEF max, H, S
  <2>5. H <= Cardinality(Keys)
    BY <2>4 DEF H
  <2>6. QED BY <1>1, <2>1, <2>2, <2>3, <2>4, <2>5
<1>3. /\ \A lg \in 0..MAXBITS : u.nums[lg] = Cardinality({i \in S : Slot(i) = lg})
      /\ u.narray = Cardinality(S) /\ u.total = H
  BY NumuseIs
<1>4. u.narray <= u.total
  <2>1. H = Cardinality({i \in S : i <= max}) + Cardinality(Rest(tb, max)) /\ IsFiniteSet(Rest(tb, max))
    <3>1. max <= max
      BY <1>1
    <3>2. QED BY <1>1, <3>1, RestIs
  <2>2. {i \in S : i <= max} = S
    BY <1>1, <1>2
  <2>3. Cardinality(S) \in Nat /\ Cardinality(Rest(tb, max)) \in Nat
    BY <1>2, <2>1, FS_CardinalityType
  <2> HIDE DEF S, H, max, u
  <2>4. QED BY <1>3, <2>1, <2>2, <2>3
<1> HIDE DEF u
<1>5. /\ c.ok /\ c.nasize \in Nat /\ c.nasize <= max
      /\ c.nhash = u.total - Cardinality({i \in S : i <= c.nasize})
  <2> HIDE DEF S, H, max
  <2>1. u.total \in Nat
    BY <1>2, <1>3
  <2>2. QED BY <1>2, <1>3, <1>4, <2>1, ComputesizesIs DEF max
<1> HIDE DEF c
<1>6. c.nhash = Cardinality(Rest(tb, c.nasize)) /\ c.nhash \in Nat /\ c.nhash <= H
  <2>1. H = Cardinality({i \in S : i <= c.nasize}) + Cardinality(Rest(tb, c.nasize)) /\ IsFiniteSet(Rest(tb, c.nasize))
    BY <1>5, RestIs
  <2>2. {i \in S : i <= c.nasize} \in SUBSET S
    OBVIOUS
  <2>3. IsFiniteSet({i \in S : i <= c.nasize})
    BY <1>2, <2>2, FS_Subset
  <2>4. Cardinality({i \in S : i <= c.nasize}) \in Nat /\ Cardinality(Rest(tb, c.nasize)) \in Nat
    BY <2>1, <2>3, FS_CardinalityType
  <2> HIDE DEF S, H
  <2>5. QED BY <1>3, <1>5, <2>1, <2>4
<1>7. lsize \in Nat /\ lsize <= MAXBITS /\ c.nhash < twoto(lsize)
  <2>1. CASE c.nhash = 0
    <3>1. lsize = 0
      BY <1>6, <2>1, Log2Is
    <3>2. QED BY <1>1, <2>1, <3>1, TwotoZero
  <2>2. CASE c.nhash # 0
    <3> DEFINE m == luaO_log2(c.nhash)
    <3>1. m \in Nat /\ twoto(m) <= c.nhash /\ c.nhash < twoto(m + 1)
      BY <1>6, <2>2, Log2Is
    <3>2. m < MAXBITS
      <4>1. SUFFICES ASSUME MAXBITS <= m PROVE FALSE
        BY <1>1, <3>1
      <4>2. max <= twoto(m) /\ twoto(m) \in Nat
        BY <1>1, <3>1, <4>1, TwotoGrows, TwotoNext
      <4> HIDE DEF H, max, m
      <4>3. QED BY <1>1, <1>2, <1>6, <3>1, <4>2
    <3>3. QED BY <1>1, <3>1, <3>2
  <2>3. QED BY <2>1, <2>2
<1>8. tb2 = resize(tb, c.nasize, lsize)
  BY <1>5 DEF rehash, Asserted, c, u
<1>9. Cardinality(Rest(tb, c.nasize)) < twoto(lsize)
  BY <1>6, <1>7
<1> HIDE DEF lsize
<1>10. QED BY <1>5, <1>7, <1>8, <1>9, ResizeIs

\* A new key gets a place, without a value, and the other fields stay.
LEMMA NewkeyIs ==
    ASSUME NEW tb, Sound(tb), FreeOK(tb), tb.ok, ~tb.nested, NEW key \in Keys, Unused(tb, key)
    PROVE  LET w == newkey(tb, key)
           IN  /\ Sound(w.tb) /\ FreeOK(w.tb) /\ w.tb.ok /\ ~w.tb.nested
               /\ w.p = luaH_get(w.tb, key) /\ ~Unused(w.tb, key) /\ (NoDead(tb) => NoDead(w.tb))
               /\ \A k \in Keys : Value(w.tb, k) = Value(tb, k)
<1> DEFINE e == Entered(tb, key)
           full == [e.tb EXCEPT !.node[e.n].val = False]
           r == rehash(full)
           p == luaH_get(r, key)
           w == newkey(tb, key)
<1>1. /\ Entering(tb, e.tb, e.n, key) /\ e.full \in BOOLEAN
      /\ ~e.full => FreeOK(e.tb)
  BY EnteredIs
<1>2. w = IF ~e.full THEN [tb |-> e.tb, p |-> <<"node", e.n>>]
          ELSE [tb |-> StoreAt(Asserted(r, ValueAt(r, p) = False), p, Nil), p |-> p]
  BY DEF newkey, Found
<1> HIDE DEF w, e
<1>3. /\ Sound(e.tb) /\ e.tb.array = tb.array /\ e.tb.ok = tb.ok /\ e.tb.nested = tb.nested
      /\ e.n \in DOMAIN e.tb.node /\ e.tb.node[e.n].key = key /\ Live(e.tb) = Live(tb)
  BY <1>1 DEF Entering
<1>4. /\ luaH_get(e.tb, key) = <<"node", e.n>> /\ ~Unused(e.tb, key)
      /\ \A k \in Keys : Value(e.tb, k) = Value(tb, k)
  <2>1. luaH_get(e.tb, key) = <<"node", e.n>> /\ ~Unused(e.tb, key)
    BY <1>3, ValueIs DEF Unused
  <2>2. QED BY <1>3, <2>1, SameLive
<1>5. CASE ~e.full
  <2>1. w.tb = e.tb /\ w.p = <<"node", e.n>>
    BY <1>2, <1>5
  <2>2. NoDead(tb) => NoDead(e.tb)
    BY <1>1, KeysAre DEF Entering, NoDead
  <2>3. QED BY <1>1, <1>3, <1>4, <1>5, <2>1, <2>2 DEF w
<1>6. CASE e.full
  <2>1. full = StoreAt(e.tb, luaH_get(e.tb, key), False) /\ False \in Vals /\ False # Nil /\ Nil \in Vals
    BY <1>4, PlacesAre, KeysAre DEF StoreAt, Vals
  <2> HIDE DEF full
  <2>2. /\ Refilled(e.tb, full)
        /\ Value(full, key) = False /\ \A k \in Keys : k # key => Value(full, k) = Value(e.tb, k)
    BY <1>3, <1>4, <2>1, StoredIs
  <2>3. Sound(full) /\ full.ok = e.tb.ok /\ full.nested = e.tb.nested
    <3>1. Sound(full)
      BY <1>3, <2>2, RefilledIs
    <3>2. QED BY <2>2, <3>1 DEF Refilled
  <2>4. /\ Sound(r) /\ FreeOK(r) /\ r.ok = full.ok /\ r.nested = full.nested /\ NoDead(r)
        /\ \A k \in Keys : Value(r, k) = Value(full, k)
    BY <2>3, RehashIs
  <2> HIDE DEF r
  <2>5. Value(r, key) = False /\ ~Unused(r, key)
    BY <2>1, <2>2, <2>4, ValueIs
  <2>6. ValueAt(r, p) = False
    BY <2>5 DEF Value
  <2> DEFINE t2 == StoreAt(r, p, Nil)
  <2>7. w.tb = t2 /\ w.p = p
    BY <1>2, <1>6, <2>6 DEF Asserted
  <2>8. /\ Refilled(r, t2)
        /\ Value(t2, key) = Nil /\ \A k \in Keys : k # key => Value(t2, k) = Value(r, k)
    BY <2>1, <2>4, <2>5, StoredIs
  <2> HIDE DEF t2
  <2>9. Sound(t2) /\ FreeOK(t2) /\ luaH_get(t2, key) = p /\ ~Unused(t2, key)
    BY <2>4, <2>5, <2>8, RefilledIs
  <2>10. t2.ok /\ ~t2.nested
    BY <1>3, <2>3, <2>4, <2>8 DEF Refilled
  <2>11. Value(tb, key) = Nil
    BY ValueIs
  <2>12. \A k \in Keys : Value(t2, k) = Value(tb, k)
    BY <1>4, <2>2, <2>4, <2>8, <2>11
  <2>13. NoDead(t2)
    BY <2>4, <2>8 DEF Refilled, NoDead
  <2>14. QED BY <2>7, <2>9, <2>10, <2>12, <2>13 DEF w
<1>7. QED BY <1>1, <1>5, <1>6

\* So does any key that is assigned.
LEMMA SetIs ==
    ASSUME NEW tb, Sound(tb), FreeOK(tb), tb.ok, ~tb.nested, NEW key \in Keys
    PROVE  LET w == luaH_set(tb, key)
           IN  /\ Sound(w.tb) /\ FreeOK(w.tb) /\ w.tb.ok /\ ~w.tb.nested
               /\ w.p = luaH_get(w.tb, key) /\ ~Unused(w.tb, key) /\ (NoDead(tb) => NoDead(w.tb))
               /\ \A k \in Keys : Value(w.tb, k) = Value(tb, k)
               /\ ~Unused(tb, key) => w.tb = tb
<1>1. CASE Unused(tb, key)
  <2>1. luaH_get(tb, key)[1] = "none"
    BY <1>1, GetIs, PlacesAre DEF Unused
  <2>2. luaH_set(tb, key) = newkey(tb, key)
    BY <2>1 DEF luaH_set
  <2>3. QED BY <1>1, <2>2, NewkeyIs
<1>2. CASE ~Unused(tb, key)
  <2>1. luaH_get(tb, key)[1] # "none"
    BY <1>2, GetIs, PlacesAre DEF Unused
  <2>2. luaH_set(tb, key) = [tb |-> tb, p |-> luaH_get(tb, key)]
    BY <2>1 DEF luaH_set
  <2>3. luaH_set(tb, key).tb = tb /\ luaH_set(tb, key).p = luaH_get(tb, key)
    BY <2>2
  <2>4. QED BY <1>2, <2>3
<1>3. QED BY <1>1, <1>2

-----------------------------------------------------------------------------
(* Collecting.                                                                 *)

\* What the collector did to a key that is not found any more.
Lost(tb, tb2, k) ==
    luaH_get(tb2, k) = <<"none">> /\ ~InArray(tb, k) /\ \E n \in DOMAIN tb2.node : tb2.node[n].key = Dead

\* Fields with the values that died are gone, and keys stay where they are or are dead.
LEMMA SweptIs ==
    ASSUME NEW tb, Sound(tb), FreeOK(tb), NEW dead, dead \subseteq WeakValues,
           NEW tb2, tb2 = cleartablevalues(tb, dead)
    PROVE  /\ Sound(tb2) /\ FreeOK(tb2) /\ tb2.ok = tb.ok /\ tb2.nested = tb.nested
           /\ sizearray(tb2) = sizearray(tb) /\ DOMAIN tb2.node = DOMAIN tb.node
           /\ \A n \in DOMAIN tb.node : tb.node[n].key = Dead => tb2.node[n].key = Dead
           /\ \A k \in Keys : /\ Value(tb2, k) = IF Value(tb, k) \in dead THEN Nil ELSE Value(tb, k)
                              /\ luaH_get(tb2, k) = luaH_get(tb, k) \/ Lost(tb, tb2, k)
<1> DEFINE D == DOMAIN tb.node
           hit(n) == tb.node[n].val \in dead
           nodes == [n \in D |-> IF hit(n) THEN removekey(tb.node[n]) ELSE tb.node[n]]
           arr == [n \in DOMAIN tb.array |-> IF tb.array[n] \in dead THEN Nil ELSE tb.array[n]]
<1>1. /\ TypeOK(tb) /\ LinksOK(tb) /\ KeysOK(tb) /\ Nil \notin dead
      /\ \A n \in D : tb.node[n] \in Node /\ tb.node[n].val \in Vals
      /\ sizearray(tb) \in Nat /\ DOMAIN tb.array = 1..sizearray(tb)
      /\ \A i \in 1..sizearray(tb) : tb.array[i] \in Vals
  <2>1. Nil \notin dead
    BY KeysAre, TableConstants
  <2>2. QED BY <2>1, NodesAre DEF Sound
<1>2. /\ DOMAIN tb2 = Fields /\ tb2.node = nodes /\ tb2.array = arr /\ tb2.lsizenode = tb.lsizenode
      /\ tb2.firstfree = tb.firstfree /\ tb2.ok = tb.ok /\ tb2.nested = tb.nested
  <2>1. tb2 = [tb EXCEPT !.node = nodes, !.array = arr] /\ DOMAIN tb = Fields
    BY <1>1 DEF cleartablevalues, TypeOK
  <2> HIDE DEF nodes, arr
  <2>2. QED BY <2>1 DEF Fields
<1>3. ASSUME NEW n \in D
      PROVE  /\ nodes[n] \in Node /\ nodes[n].next = tb.node[n].next
             /\ nodes[n].val = IF hit(n) THEN Nil ELSE tb.node[n].val
             /\ nodes[n].key = IF hit(n) /\ tb.node[n].key[1] # "num" THEN Dead ELSE tb.node[n].key
  <2>1. CASE ~hit(n)
    <3>1. nodes[n] = tb.node[n]
      BY <2>1
    <3> HIDE DEF nodes
    <3>2. QED BY <1>1, <2>1, <3>1
  <2>2. CASE hit(n)
    <3>1. nodes[n] = removekey(tb.node[n])
      BY <2>2
    <3> HIDE DEF nodes
    <3>2. tb.node[n] \in Node
      BY <1>1
    <3>3. QED BY <2>2, <3>1, <3>2 DEF Node, Vals, removekey
  <2>3. QED BY <2>1, <2>2
<1>4. DOMAIN nodes = D /\ nodes = [n \in D |-> nodes[n]]
  OBVIOUS
<1> HIDE DEF nodes
<1>5. \A n \in D : hit(n) => n \in Real(tb) /\ tb.node[n].key \in Keys /\ tb.node[n].val # Nil
  BY <1>1 DEF KeysOK, Real
<1>6. arr \in Seq(Vals) /\ Len(arr) = sizearray(tb)
      /\ \A i \in 1..sizearray(tb) : arr[i] = IF tb.array[i] \in dead THEN Nil ELSE tb.array[i]
  <2>1. arr = [i \in 1..sizearray(tb) |-> arr[i]] /\ DOMAIN arr = 1..sizearray(tb)
        /\ \A i \in 1..sizearray(tb) : arr[i] = IF tb.array[i] \in dead THEN Nil ELSE tb.array[i]
    BY <1>1
  <2> HIDE DEF arr
  <2>2. arr \in [1..sizearray(tb) -> Vals]
    BY <1>1, <2>1 DEF Vals
  <2>3. arr \in Seq(Vals) /\ Len(arr) = sizearray(tb)
    BY <1>1, <2>2
  <2>4. QED BY <2>1, <2>3
<1> HIDE DEF arr, hit
<1>7. /\ DOMAIN tb2.node = D /\ sizearray(tb2) = sizearray(tb) /\ Linked(tb, tb2)
      /\ \A k : InArray(tb2, k) <=> InArray(tb, k)
  BY <1>2, <1>3, <1>4, <1>6 DEF sizearray, Linked, InArray
<1>8. TypeOK(tb2)
  <2>1. tb2.node \in [D -> Node]
    BY <1>2, <1>3, <1>4
  <2>2. QED BY <1>1, <1>2, <1>6, <1>7, <2>1 DEF TypeOK
<1>9. \A n \in D : /\ tb2.node[n].next = tb.node[n].next
                   /\ tb2.node[n].key = Nil <=> tb.node[n].key = Nil
                   /\ tb2.node[n].val # Nil => tb.node[n].val # Nil /\ ~hit(n)
                   /\ tb2.node[n].key \in Keys => tb2.node[n].key = tb.node[n].key
                   /\ ~hit(n) => tb2.node[n].key = tb.node[n].key /\ tb2.node[n].val = tb.node[n].val
                   /\ hit(n) => tb2.node[n].val = Nil /\ tb2.node[n].key \in {tb.node[n].key, Dead}
  BY <1>2, <1>3, <1>5, KeysAre
<1>10. LinksOK(tb2)
  <2>1. \A n \in D : /\ tb2.node[n].next # -1 => tb2.node[n].next \in D /\ tb2.node[tb2.node[n].next].key # Nil
                     /\ tb2.node[n].key = Nil => tb2.node[n].next = -1 /\ tb2.node[n].val = Nil
    BY <1>1, <1>9 DEF LinksOK
  <2>2. /\ \A m, n \in D : tb2.node[m].next = tb2.node[n].next /\ tb2.node[n].next # -1 => m = n
        /\ \A C \in SUBSET D : C # {} => \E n \in C : tb2.node[n].next \notin C
    BY <1>1, <1>9 DEF LinksOK
  <2>3. QED BY <1>7, <2>1, <2>2 DEF LinksOK
<1>11. \A n \in Real(tb2) : /\ n \in D /\ n \in Real(tb) /\ tb2.node[n].key = tb.node[n].key
                            /\ Home(tb2, n) = Home(tb, n) /\ Chain(tb2, Home(tb, n)) = Chain(tb, Home(tb, n))
  <2>1. \A n \in Real(tb2) : n \in D /\ n \in Real(tb) /\ tb2.node[n].key = tb.node[n].key
    BY <1>7, <1>9 DEF Real
  <2>2. QED BY <1>2, <1>7, <2>1, SameMain, SameChains DEF Home
<1>12. KeysOK(tb2)
  <2>1. \A n \in D : tb2.node[n].val # Nil => n \in Real(tb2)
    <3>1. \A n \in D : tb.node[n].val # Nil => tb.node[n].key \in Keys
      BY <1>1 DEF KeysOK, Real
    <3>2. QED BY <1>7, <1>9, <3>1 DEF Real
  <2>2. \A m, n \in Real(tb2) : tb2.node[m].key = tb2.node[n].key => m = n
    BY <1>1, <1>11 DEF KeysOK
  <2>3. \A n \in Real(tb2) : n \in Chain(tb2, Home(tb2, n)) /\ ~InArray(tb2, tb2.node[n].key)
    BY <1>1, <1>7, <1>11 DEF KeysOK
  <2>4. \A m, n \in Real(tb2) : Home(tb2, m) # m => Home(tb2, n) # m
    BY <1>1, <1>11 DEF KeysOK
  <2>5. \A i \in 1..sizearray(tb) : tb2.array[i] # Nil => <<"num", i>> \in Keys
    BY <1>1, <1>2, <1>6 DEF KeysOK
  <2>6. sizearray(tb) <= twoto(MAXBITS)
    BY <1>1 DEF KeysOK
  <2>7. QED BY <1>7, <2>1, <2>2, <2>3, <2>4, <2>5, <2>6 DEF KeysOK
<1>13. Sound(tb2) /\ FreeOK(tb2)
  <2>1. FreeOK(tb2)
    BY <1>1, <1>2, <1>7, <1>9 DEF FreeOK, TypeOK
  <2>2. QED BY <1>8, <1>10, <1>12, <2>1 DEF Sound
<1>14. ASSUME NEW k \in Keys
       PROVE  /\ Value(tb2, k) = IF Value(tb, k) \in dead THEN Nil ELSE Value(tb, k)
              /\ luaH_get(tb2, k) = luaH_get(tb, k) \/ Lost(tb, tb2, k)
  <2>1. CASE InArray(tb, k)
    <3>1. luaH_get(tb2, k) = luaH_get(tb, k)
      BY <1>7, <1>13, <2>1, GetIs
    <3>2. Value(tb, k) = tb.array[k[2]] /\ Value(tb2, k) = arr[k[2]] /\ k[2] \in 1..sizearray(tb)
      BY <1>2, <1>7, <1>13, <2>1, ValueIs
    <3>3. QED BY <1>6, <3>1, <3>2
  <2>2. CASE Unused(tb, k)
    <3>1. Unused(tb2, k)
      BY <1>7, <1>9, <2>2 DEF Unused
    <3>2. luaH_get(tb2, k) = luaH_get(tb, k)
      BY <1>13, <2>2, <3>1, GetIs DEF Unused
    <3>3. Value(tb, k) = Nil /\ Value(tb2, k) = Nil
      BY <1>13, <2>2, <3>1, ValueIs
    <3>4. QED BY <3>2, <3>3
  <2>3. CASE \E n \in D : tb.node[n].key = k
    <3>1. PICK n \in D : tb.node[n].key = k
      BY <2>3
    <3>2. ~InArray(tb, k) /\ Value(tb, k) = tb.node[n].val /\ luaH_get(tb, k) = <<"node", n>>
      BY <3>1, ValueIs
    <3>3. CASE tb2.node[n].key = k
      <4>1. Value(tb2, k) = tb2.node[n].val /\ luaH_get(tb2, k) = <<"node", n>>
        BY <1>7, <1>13, <3>3, ValueIs
      <4>2. QED BY <1>9, <3>1, <3>2, <4>1 DEF hit
    <3>4. CASE tb2.node[n].key # k
      <4>1. hit(n) /\ tb2.node[n].key = Dead
        BY <1>9, <3>1, <3>4
      <4>2. Unused(tb2, k)
        <5>1. \A m \in D : tb.node[m].key = k => m = n
          BY <1>1, <3>1 DEF KeysOK, Real
        <5>2. \A m \in D : tb2.node[m].key # k
          BY <1>9, <3>1, <3>4, <5>1
        <5>3. QED BY <1>7, <3>2, <5>2 DEF Unused
      <4>3. luaH_get(tb2, k) = <<"none">> /\ Value(tb2, k) = Nil
        BY <1>13, <4>2, GetIs, ValueIs DEF Unused
      <4>4. QED BY <1>7, <3>2, <4>1, <4>3 DEF hit, Lost
    <3>5. QED BY <3>3, <3>4
  <2>4. QED BY <2>1, <2>2, <2>3 DEF Unused
<1>15. \A n \in D : tb.node[n].key = Dead => tb2.node[n].key = Dead
  BY <1>2, <1>3
<1>16. QED BY <1>2, <1>7, <1>13, <1>14, <1>15

-----------------------------------------------------------------------------
(* Traversing.                                                                 *)

\* The numbers of keys.
LEMMA IndexIs ==
    ASSUME NEW tb, Sound(tb), NEW key \in Keys
    PROVE  /\ InArray(tb, key) => luaH_index(tb, key) = key[2] - 1
           /\ \A n \in DOMAIN tb.node : tb.node[n].key = key => luaH_index(tb, key) = n + sizearray(tb)
           /\ Unused(tb, key) => luaH_index(tb, key) = -2
<1> DEFINE i == arrayindex(key)
<1>1. /\ KeysOK(tb) /\ sizearray(tb) \in Nat /\ twoto(MAXBITS) \in Nat /\ sizearray(tb) <= twoto(MAXBITS)
      /\ key # Nil
  BY NodesAre, TwotoNext, TableConstants, KeysAre DEF Sound, KeysOK
<1>2. IF InArray(tb, key) THEN i = key[2] /\ i \in 0..sizearray(tb) ELSE i \notin 0..sizearray(tb)
  <2>1. key[1] = "num" => key[2] \in Int
    BY KeysAre
  <2>2. CASE InArray(tb, key)
    BY <1>1, <2>1, <2>2 DEF InArray, arrayindex
  <2>3. CASE ~InArray(tb, key)
    <3>1. i = -1 \/ (i = key[2] /\ key[1] = "num" /\ i >= 1)
      BY DEF arrayindex
    <3>2. QED BY <1>1, <2>1, <2>3, <3>1 DEF InArray
  <2>4. QED BY <2>2, <2>3
<1> HIDE DEF i
<1>3. luaH_index(tb, key) = IF i \in 0..sizearray(tb) THEN i - 1
                            ELSE IF luaH_get(tb, key)[1] = "none" THEN -2
                            ELSE luaH_get(tb, key)[2] + sizearray(tb)
  BY <1>1 DEF luaH_index, i
<1>4. InArray(tb, key) => luaH_index(tb, key) = key[2] - 1
  BY <1>2, <1>3
<1>5. ASSUME NEW n \in DOMAIN tb.node, tb.node[n].key = key
      PROVE  luaH_index(tb, key) = n + sizearray(tb)
  <2>1. ~InArray(tb, key) /\ luaH_get(tb, key) = <<"node", n>>
    BY <1>5, ValueIs
  <2>2. QED BY <1>2, <1>3, <2>1, PlacesAre
<1>6. ASSUME Unused(tb, key) PROVE luaH_index(tb, key) = -2
  <2>1. ~InArray(tb, key) /\ luaH_get(tb, key) = <<"none">>
    BY <1>6, GetIs DEF Unused
  <2>2. QED BY <1>2, <1>3, <2>1, PlacesAre
<1>7. QED BY <1>4, <1>5, <1>6

\* The numbers from 0 on are those of the places.
Numbers(tb) == 0..(sizearray(tb) + sizenode(tb) - 1)

LEMMA NumbersAre ==
    ASSUME NEW tb, Sound(tb)
    PROVE  /\ \A n \in Numbers(tb) : ValueNo(tb, n) # Nil =>
                 /\ KeyNo(tb, n) \in Held(tb) /\ luaH_index(tb, KeyNo(tb, n)) = n
           /\ \A k \in Held(tb) : /\ luaH_index(tb, k) \in Numbers(tb)
                                  /\ KeyNo(tb, luaH_index(tb, k)) = k /\ ValueNo(tb, luaH_index(tb, k)) # Nil
           /\ luaH_index(tb, Nil) = -1
<1>1. /\ KeysOK(tb) /\ sizearray(tb) \in Nat /\ DOMAIN tb.node = 0..(sizenode(tb) - 1)
      /\ sizenode(tb) \in Nat \ {0}
  BY NodesAre DEF Sound
<1>2. ASSUME NEW n \in Numbers(tb), ValueNo(tb, n) # Nil
      PROVE  KeyNo(tb, n) \in Held(tb) /\ luaH_index(tb, KeyNo(tb, n)) = n
  <2>1. CASE n < sizearray(tb)
    <3>1. n + 1 \in 1..sizearray(tb) /\ tb.array[n + 1] # Nil /\ KeyNo(tb, n) = <<"num", n + 1>>
      BY <1>1, <1>2, <2>1 DEF Numbers, ValueNo, KeyNo
    <3>2. <<"num", n + 1>> \in Keys /\ InArray(tb, <<"num", n + 1>>)
      BY <1>1, <3>1 DEF KeysOK, InArray
    <3> DEFINE i == n + 1
               k == <<"num", i>>
    <3>3. k[2] = i /\ i - 1 = n
      BY DEF Numbers
    <3> HIDE DEF i, k
    <3>4. k \in Keys /\ InArray(tb, k) /\ tb.array[i] # Nil /\ KeyNo(tb, n) = k
      BY <3>1, <3>2 DEF i, k
    <3>5. Value(tb, k) = tb.array[k[2]] /\ luaH_index(tb, k) = k[2] - 1
      BY <3>4, ValueIs, IndexIs
    <3>6. QED BY <3>3, <3>4, <3>5 DEF Held
  <2>2. CASE ~(n < sizearray(tb))
    <3> DEFINE m == n - sizearray(tb)
    <3>1. m \in DOMAIN tb.node /\ m + sizearray(tb) = n
      BY <1>1, <2>2 DEF Numbers
    <3>2. ValueNo(tb, n) = tb.node[m].val /\ KeyNo(tb, n) = tb.node[m].key
      BY <2>2 DEF ValueNo, KeyNo
    <3> HIDE DEF m
    <3>3. tb.node[m].key \in Keys /\ tb.node[m].val # Nil
      BY <1>1, <1>2, <3>1, <3>2 DEF KeysOK, Real
    <3>4. Value(tb, tb.node[m].key) = tb.node[m].val /\ luaH_index(tb, tb.node[m].key) = m + sizearray(tb)
      BY <3>1, <3>3, ValueIs, IndexIs
    <3>5. QED BY <3>1, <3>2, <3>3, <3>4 DEF Held
  <2>3. QED BY <2>1, <2>2
<1>3. ASSUME NEW k \in Held(tb)
      PROVE  /\ luaH_index(tb, k) \in Numbers(tb)
             /\ KeyNo(tb, luaH_index(tb, k)) = k /\ ValueNo(tb, luaH_index(tb, k)) # Nil
  <2>1. k \in Keys /\ Value(tb, k) # Nil
    BY DEF Held
  <2>2. CASE InArray(tb, k)
    <3>1. Value(tb, k) = tb.array[k[2]] /\ k[2] \in 1..sizearray(tb) /\ luaH_index(tb, k) = k[2] - 1
          /\ k = <<"num", k[2]>>
      BY <2>1, <2>2, ValueIs, IndexIs, KeysAre DEF InArray
    <3>2. k[2] - 1 \in Numbers(tb) /\ k[2] - 1 < sizearray(tb) /\ k[2] - 1 + 1 = k[2]
      BY <1>1, <3>1 DEF Numbers
    <3>3. QED BY <2>1, <3>1, <3>2 DEF KeyNo, ValueNo
  <2>3. CASE ~InArray(tb, k)
    <3>1. PICK n \in DOMAIN tb.node : tb.node[n].key = k
      BY <2>1, <2>3, ValueIs DEF Unused
    <3>2. Value(tb, k) = tb.node[n].val /\ luaH_index(tb, k) = n + sizearray(tb)
      BY <2>1, <3>1, ValueIs, IndexIs
    <3>3. n + sizearray(tb) \in Numbers(tb) /\ ~(n + sizearray(tb) < sizearray(tb))
          /\ n + sizearray(tb) - sizearray(tb) = n
      BY <1>1 DEF Numbers
    <3> DEFINE j == n + sizearray(tb)
    <3>4. j - sizearray(tb) = n /\ ~(j < sizearray(tb))
      BY <1>1, <3>3
    <3> HIDE DEF j
    <3>5. KeyNo(tb, j) = tb.node[n].key /\ ValueNo(tb, j) = tb.node[n].val
      BY <3>4 DEF KeyNo, ValueNo
    <3>6. QED BY <2>1, <3>1, <3>2, <3>3, <3>5 DEF j
  <2>4. QED BY <2>2, <2>3
<1>4. luaH_index(tb, Nil) = -1
  BY DEF luaH_index
<1>5. QED BY <1>2, <1>3, <1>4

\* Next goes to the key with a value that has the smallest number behind that of a key.
LEMMA NextIs ==
    ASSUME NEW tb, Sound(tb), NEW key \in Keys \cup {Nil}, luaH_index(tb, key) # -2
    PROVE  LET k == luaH_next(tb, key)
               n == luaH_index(tb, key)
           IN  /\ n \in Int /\ n >= -1
               /\ \/ k = Nil /\ \A j \in Held(tb) : luaH_index(tb, j) <= n
                  \/ /\ k \in Held(tb) /\ n < luaH_index(tb, k)
                     /\ \A j \in Held(tb) : j # k => luaH_index(tb, j) <= n \/ luaH_index(tb, k) < luaH_index(tb, j)
<1> DEFINE n == luaH_index(tb, key)
           later == {m \in (n + 1)..(sizearray(tb) + sizenode(tb) - 1) : ValueNo(tb, m) # Nil}
           k == luaH_next(tb, key)
           first == CHOOSE m \in later : \A j \in later : m <= j
<1>1. sizearray(tb) \in Nat /\ sizenode(tb) \in Nat \ {0} /\ DOMAIN tb.node = 0..(sizenode(tb) - 1)
  BY NodesAre DEF Sound
<1>2. n \in Int /\ n >= -1
  <2>1. CASE key = Nil
    BY <2>1, NumbersAre
  <2>2. CASE key # Nil
    <3>1. key \in Keys
      BY <2>2
    <3>2. CASE InArray(tb, key)
      <4>1. n = key[2] - 1 /\ key[2] \in 1..sizearray(tb)
        BY <3>1, <3>2, IndexIs DEF InArray
      <4>2. QED BY <1>1, <4>1
    <3>3. CASE \E m \in DOMAIN tb.node : tb.node[m].key = key
      <4>1. PICK m \in DOMAIN tb.node : tb.node[m].key = key
        BY <3>3
      <4>2. n = m + sizearray(tb) /\ m \in Nat
        BY <1>1, <3>1, <4>1, IndexIs
      <4>3. QED BY <1>1, <4>2
    <3>4. QED BY <3>1, <3>2, <3>3, IndexIs DEF Unused
  <2>3. QED BY <2>1, <2>2
<1>3. k = IF later = {} THEN Nil ELSE KeyNo(tb, first)
  BY DEF luaH_next
<1> HIDE DEF n, k
<1>4. later \in SUBSET Nat /\ \A m \in later : m \in Numbers(tb) /\ n < m /\ ValueNo(tb, m) # Nil
  BY <1>1, <1>2 DEF Numbers
<1>5. \A j \in Held(tb) : luaH_index(tb, j) \in Nat /\ (luaH_index(tb, j) <= n \/ luaH_index(tb, j) \in later)
  <2>1. ASSUME NEW j \in Held(tb)
        PROVE  luaH_index(tb, j) \in Nat /\ (luaH_index(tb, j) <= n \/ luaH_index(tb, j) \in later)
    <3>1. luaH_index(tb, j) \in Numbers(tb) /\ ValueNo(tb, luaH_index(tb, j)) # Nil
      BY NumbersAre
    <3>2. QED BY <1>1, <1>2, <3>1 DEF Numbers
  <2>2. QED BY <2>1
<1>6. CASE later = {}
  <2>1. k = Nil /\ \A j \in Held(tb) : luaH_index(tb, j) <= n
    BY <1>3, <1>5, <1>6
  <2>2. QED BY <1>2, <2>1 DEF k, n
<1>7. CASE later # {}
  <2>1. \E m \in later : \A j \in later : m <= j
    BY <1>4, <1>7, Least
  <2> HIDE DEF later
  <2>2. first \in later /\ \A j \in later : first <= j
    BY <2>1, Zenon
  <2> HIDE DEF first
  <2>3. k = KeyNo(tb, first) /\ k \in Held(tb) /\ luaH_index(tb, k) = first
    BY <1>3, <1>4, <1>7, <2>2, NumbersAre
  <2>4. ASSUME NEW j \in Held(tb), j # k PROVE luaH_index(tb, j) <= n \/ luaH_index(tb, k) < luaH_index(tb, j)
    <3>1. SUFFICES ASSUME ~(luaH_index(tb, j) <= n) PROVE first < luaH_index(tb, j)
      BY <2>3
    <3>2. luaH_index(tb, j) \in later
      BY <1>5, <3>1
    <3>3. luaH_index(tb, j) # first
      <4>1. KeyNo(tb, luaH_index(tb, j)) = j
        BY NumbersAre
      <4>2. QED BY <2>3, <2>4, <4>1
    <3>4. first \in Nat /\ luaH_index(tb, j) \in Nat /\ first <= luaH_index(tb, j)
      BY <1>4, <2>2, <3>2
    <3>5. QED BY <3>3, <3>4
  <2>5. n < luaH_index(tb, k)
    BY <1>4, <2>2, <2>3
  <2>6. QED BY <1>2, <2>3, <2>4, <2>5 DEF k, n
<1>8. QED BY <1>6, <1>7

-----------------------------------------------------------------------------
(* The invariant.                                                              *)

\* What holds from the start on.
LEMMA InitIs ==
    ASSUME Init
    PROVE  IInv /\ \A k \in Keys : Value(t, k) = Nil
<1> DEFINE new == [array |-> << >>, node |-> << >>, lsizenode |-> 0, firstfree |-> 0, ok |-> TRUE, nested |-> FALSE]
<1>1. t = setnodevector(new, 0) /\ going = FALSE /\ seen = {} /\ at = Nil
  BY DEF Init, luaH_new
<1>2. /\ DOMAIN new = Fields /\ new.array \in Seq(Vals) /\ new.ok = TRUE /\ new.nested = FALSE
      /\ sizearray(new) = 0 /\ new.array = << >>
  BY DEF Fields, sizearray
<1> HIDE DEF new
<1>3. 0 \in Nat /\ 0 <= MAXBITS /\ 0 <= twoto(MAXBITS) /\ 1..0 = {}
  BY TableConstants, TwotoNext
<1>4. /\ Sound(t) /\ FreeOK(t) /\ t.array = new.array /\ t.ok = new.ok /\ t.nested = new.nested
      /\ \A n \in DOMAIN t.node : t.node[n].key = Nil
  <2>1. /\ new.ok \in BOOLEAN /\ new.nested \in BOOLEAN /\ sizearray(new) <= twoto(MAXBITS)
        /\ \A i \in 1..sizearray(new) : new.array[i] # Nil => <<"num", i>> \in Keys
    BY <1>2, <1>3
  <2>2. t = setnodevector(new, 0)
    BY <1>1
  <2>3. DOMAIN new = Fields /\ new.array \in Seq(Vals) /\ 0 \in Nat /\ 0 <= MAXBITS
    BY <1>2, <1>3
  <2>4. Sound(t) /\ FreeOK(t) /\ t.array = new.array /\ t.ok = new.ok /\ t.nested = new.nested
    BY <2>1, <2>2, <2>3, ClearedIs
  <2>5. \A n \in DOMAIN t.node : t.node[n].key = Nil
    BY <2>1, <2>2, <2>3, ClearedIs
  <2>6. QED BY <2>4, <2>5
<1>5. NoDead(t)
  BY <1>4, KeysAre DEF NoDead
<1>6. TraversalOK
  BY <1>1 DEF TraversalOK
<1>7. ASSUME NEW k \in Keys PROVE Value(t, k) = Nil
  <2>1. Unused(t, k)
    BY <1>2, <1>4, KeysAre DEF Unused, InArray, sizearray
  <2>2. QED BY <1>4, <2>1, ValueIs
<1>8. QED BY <1>2, <1>4, <1>5, <1>6, <1>7 DEF IInv

\* Numbers depend on where keys are found.
LEMMA SameIndex ==
    ASSUME NEW tb, NEW tb2, sizearray(tb2) = sizearray(tb), NEW key, luaH_get(tb2, key) = luaH_get(tb, key)
    PROVE  luaH_index(tb2, key) = luaH_index(tb, key)
  BY DEF luaH_index

\* An assignment sets the value of its key; a traversal that goes on has that key already.
LEMMA SetStep ==
    ASSUME IInv, NEW key \in Keys, NEW v \in Values \cup {Nil}, Set(key, v)
    PROVE  /\ IInv' /\ going' = going /\ seen' = seen
           /\ \A k \in Keys : Value(t', k) = IF k = key THEN v ELSE Value(t, k)
           /\ going => key \in Held(t)
<1> DEFINE w == luaH_set(t, key)
<1>1. /\ going => Value(t, key) # Nil
      /\ t' = StoreAt(w.tb, w.p, v) /\ going' = going /\ seen' = seen /\ at' = at
  BY DEF Set, Present, Value
<1>2. Sound(t) /\ FreeOK(t) /\ t.ok /\ ~t.nested /\ (Weak \/ NoDead(t)) /\ TraversalOK
  BY DEF IInv
<1>3. /\ Sound(w.tb) /\ FreeOK(w.tb) /\ w.tb.ok /\ ~w.tb.nested
      /\ w.p = luaH_get(w.tb, key) /\ ~Unused(w.tb, key) /\ (NoDead(t) => NoDead(w.tb))
      /\ \A k \in Keys : Value(w.tb, k) = Value(t, k)
      /\ ~Unused(t, key) => w.tb = t
  BY <1>2, SetIs
<1> HIDE DEF w
<1>4. /\ Refilled(w.tb, t')
      /\ Value(t', key) = v /\ \A k \in Keys : k # key => Value(t', k) = Value(w.tb, k)
  <2>1. v \in Vals
    BY DEF Vals
  <2>2. t' = StoreAt(w.tb, luaH_get(w.tb, key), v)
    BY <1>1, <1>3
  <2>3. QED BY <1>3, <2>1, <2>2, StoredIs
<1>5. Sound(t') /\ FreeOK(t') /\ \A k \in Keys : luaH_get(t', k) = luaH_get(w.tb, k)
  BY <1>3, <1>4, RefilledIs
<1>6. t'.ok /\ ~t'.nested /\ (Weak \/ NoDead(t'))
  BY <1>2, <1>3, <1>4 DEF Refilled, NoDead
<1>7. \A k \in Keys : Value(t', k) = IF k = key THEN v ELSE Value(t, k)
  BY <1>3, <1>4
<1>8. going => key \in Held(t)
  BY <1>1 DEF Held
<1>9. TraversalOK'
  <2>1. CASE ~going
    BY <1>1, <1>2, <2>1 DEF TraversalOK
  <2>2. CASE going
    <3>1. w.tb = t
      BY <1>1, <1>2, <1>3, <2>2, ValueIs
    <3>2. /\ sizearray(t') = sizearray(t) /\ DOMAIN t'.node = DOMAIN t.node
          /\ \A n \in DOMAIN t.node : t'.node[n].key = t.node[n].key
      BY <1>4, <3>1 DEF Refilled
    <3>3. \A k \in Keys : luaH_index(t', k) = luaH_index(t, k)
      BY <1>5, <3>1, <3>2, SameIndex
    <3>4. luaH_index(t', Nil) = luaH_index(t, Nil)
      BY <1>2, <1>5, NumbersAre
    <3>5. \A k \in Keys : Value(t', k) # Nil => Value(t, k) # Nil
      BY <1>1, <1>7, <2>2
    <3>6. at \in Keys \cup {Nil} /\ seen \subseteq Keys
          /\ (InvalidKey => \E n \in DOMAIN t.node : t.node[n].key = Dead)
          /\ (~InvalidKey => \A k \in Keys : Value(t, k) # Nil => (k \in seen <=> luaH_index(t, k) <= luaH_index(t, at)))
      BY <1>2, <2>2 DEF TraversalOK, Present, Value
    <3>7. luaH_index(t', at') = luaH_index(t, at)
      BY <1>1, <3>3, <3>4, <3>6
    <3>8. InvalidKey' <=> InvalidKey
      BY <3>7 DEF InvalidKey
    <3>9. \A k \in Keys : Present(k)' <=> Value(t', k) # Nil
      BY DEF Present, Value
    <3>10. InvalidKey' => \E n \in DOMAIN t'.node : t'.node[n].key = Dead
      BY <3>2, <3>6, <3>8
    <3>11. ~InvalidKey' => \A k \in Keys : Present(k)' => (k \in seen <=> luaH_index(t', k) <= luaH_index(t', at'))
      BY <3>3, <3>5, <3>6, <3>7, <3>8, <3>9
    <3>12. QED BY <1>1, <2>2, <3>6, <3>10, <3>11 DEF TraversalOK
  <2>3. QED BY <2>1, <2>2
<1>10. QED BY <1>1, <1>5, <1>6, <1>7, <1>8, <1>9 DEF IInv

\* The collector takes entries away; what a traversal has behind it does not change, or
\* its place is lost and there is a dead key.
LEMMA CollectStep ==
    ASSUME IInv, Collect
    PROVE  /\ IInv' /\ going' = going /\ seen' = seen
           /\ \E dead \in SUBSET WeakValues :
                 \A k \in Keys : Value(t', k) = IF Value(t, k) \in dead THEN Nil ELSE Value(t, k)
<1>1. PICK dead \in SUBSET WeakValues : t' = cleartablevalues(t, dead)
  BY DEF Collect
<1>2. Weak /\ going' = going /\ seen' = seen /\ at' = at
  BY DEF Collect
<1>3. Sound(t) /\ FreeOK(t) /\ t.ok /\ ~t.nested /\ TraversalOK
  BY DEF IInv
<1>4. /\ Sound(t') /\ FreeOK(t') /\ t'.ok = t.ok /\ t'.nested = t.nested
      /\ sizearray(t') = sizearray(t) /\ DOMAIN t'.node = DOMAIN t.node
      /\ \A n \in DOMAIN t.node : t.node[n].key = Dead => t'.node[n].key = Dead
      /\ \A k \in Keys : /\ Value(t', k) = IF Value(t, k) \in dead THEN Nil ELSE Value(t, k)
                         /\ luaH_get(t', k) = luaH_get(t, k) \/ Lost(t, t', k)
  <2>1. /\ Sound(t') /\ FreeOK(t') /\ t'.ok = t.ok /\ t'.nested = t.nested
        /\ sizearray(t') = sizearray(t) /\ DOMAIN t'.node = DOMAIN t.node
        /\ \A n \in DOMAIN t.node : t.node[n].key = Dead => t'.node[n].key = Dead
    BY <1>1, <1>3, SweptIs
  <2>2. \A k \in Keys : Value(t', k) = IF Value(t, k) \in dead THEN Nil ELSE Value(t, k)
    BY <1>1, <1>3, SweptIs
  <2>3. \A k \in Keys : luaH_get(t', k) = luaH_get(t, k) \/ Lost(t, t', k)
    BY <1>1, <1>3, SweptIs
  <2>4. QED BY <2>1, <2>2, <2>3
<1>5. ASSUME NEW k \in Keys
      PROVE  \/ luaH_index(t', k) = luaH_index(t, k)
             \/ /\ luaH_index(t', k) = -2 /\ Value(t', k) = Nil
                /\ \E n \in DOMAIN t'.node : t'.node[n].key = Dead
  <2>1. CASE luaH_get(t', k) = luaH_get(t, k)
    BY <1>4, <2>1, SameIndex
  <2>2. CASE luaH_get(t', k) # luaH_get(t, k)
    <3> USE DEF Lost
    <3>1. CASE Unused(t', k)
      <4>1. luaH_index(t', k) = -2 /\ Value(t', k) = Nil
        BY <1>4, <3>1, IndexIs, ValueIs
      <4>2. QED BY <1>4, <2>2, <4>1
    <3>2. CASE ~Unused(t', k)
      BY <1>4, <2>2, <3>2, GetIs, PlacesAre DEF Unused, InArray
    <3>3. QED BY <3>1, <3>2
  <2>3. QED BY <2>1, <2>2
<1>6. TraversalOK'
  <2>1. CASE ~going
    BY <1>2, <1>3, <2>1 DEF TraversalOK
  <2>2. CASE going
    <3>1. at \in Keys \cup {Nil} /\ seen \subseteq Keys
          /\ (InvalidKey => \E n \in DOMAIN t.node : t.node[n].key = Dead)
          /\ (~InvalidKey => \A k \in Keys : Value(t, k) # Nil => (k \in seen <=> luaH_index(t, k) <= luaH_index(t, at)))
      BY <1>3, <2>2 DEF TraversalOK, Present, Value
    <3>2. \/ luaH_index(t', at) = luaH_index(t, at)
          \/ luaH_index(t', at) = -2 /\ \E n \in DOMAIN t'.node : t'.node[n].key = Dead
      <4>1. luaH_index(t', Nil) = luaH_index(t, Nil)
        BY <1>3, <1>4, NumbersAre
      <4>2. QED BY <1>5, <3>1, <4>1
    <3>3. /\ InvalidKey <=> luaH_index(t, at) = -2
          /\ InvalidKey' <=> luaH_index(t', at) = -2
      BY <1>2 DEF InvalidKey
    <3>4. InvalidKey' => \E n \in DOMAIN t'.node : t'.node[n].key = Dead
      BY <1>4, <3>1, <3>2, <3>3
    <3>5. ASSUME ~InvalidKey', NEW k \in Keys, Value(t', k) # Nil
          PROVE  k \in seen <=> luaH_index(t', k) <= luaH_index(t', at)
      <4>1. luaH_index(t', at) = luaH_index(t, at) /\ ~InvalidKey
        BY <3>2, <3>3, <3>5
      <4>2. luaH_index(t', k) = luaH_index(t, k) /\ Value(t, k) # Nil
        BY <1>4, <1>5, <3>5
      <4>3. QED BY <3>1, <4>1, <4>2
    <3>6. \A k \in Keys : Present(k)' <=> Value(t', k) # Nil
      BY DEF Present, Value
    <3>7. ~InvalidKey' => \A k \in Keys : Present(k)' => (k \in seen <=> luaH_index(t', k) <= luaH_index(t', at'))
      BY <1>2, <3>5, <3>6
    <3>8. QED BY <1>2, <2>2, <3>1, <3>4, <3>7 DEF TraversalOK
  <2>3. QED BY <2>1, <2>2
<1>7. QED BY <1>2, <1>3, <1>4, <1>6 DEF IInv

\* At the beginning nothing is behind the traversal.
LEMMA BeginStep ==
    ASSUME IInv, Begin
    PROVE  IInv' /\ ~going /\ going' = TRUE /\ seen' = seen /\ t' = t
<1>1. ~going /\ going' = TRUE /\ t' = t /\ seen' = seen /\ at' = at
  BY DEF Begin
<1>2. Sound(t) /\ FreeOK(t) /\ t.ok /\ ~t.nested /\ (Weak \/ NoDead(t)) /\ at = Nil /\ seen = {}
  BY <1>1 DEF IInv, TraversalOK
<1>3. luaH_index(t, Nil) = -1 /\ \A k \in Held(t) : luaH_index(t, k) \in Nat
  <2>1. sizearray(t) \in Nat /\ sizenode(t) \in Nat
    BY <1>2, NodesAre DEF Sound
  <2>2. QED BY <1>2, <2>1, NumbersAre DEF Numbers
<1>4. ~InvalidKey'
  BY <1>1, <1>2, <1>3 DEF InvalidKey
<1>5. ASSUME NEW k \in Keys, Present(k)' PROVE k \in seen' <=> luaH_index(t', k) <= luaH_index(t', at')
  <2>1. k \in Held(t)
    BY <1>1, <1>5 DEF Present, Held, Value
  <2>2. luaH_index(t, k) \in Nat /\ k \notin seen'
    BY <1>1, <1>2, <1>3, <2>1
  <2>3. ~(luaH_index(t, k) <= -1)
    BY <2>2
  <2>4. QED BY <1>1, <1>2, <1>3, <2>2, <2>3
<1>6. TraversalOK'
  BY <1>1, <1>2, <1>4, <1>5 DEF TraversalOK
<1>7. QED BY <1>1, <1>2, <1>6 DEF IInv

\* The next key has a value and was not delivered before, and at the end all were.
LEMMA NextKeyStep ==
    ASSUME IInv, NextKey
    PROVE  /\ IInv' /\ t' = t /\ going
           /\ \/ going' = going /\ \E k \in Held(t) \ seen : seen' = seen \cup {k}
              \/ going' = FALSE /\ Held(t) \subseteq seen /\ seen' = {}
<1> DEFINE k == luaH_next(t, at)
           n == luaH_index(t, at)
<1>1. /\ going /\ ~InvalidKey /\ at' = k /\ going' = (at' # Nil) /\ t' = t
      /\ seen' = IF at' = Nil THEN {} ELSE seen \cup {at'}
  BY DEF NextKey
<1>2. /\ Sound(t) /\ FreeOK(t) /\ t.ok /\ ~t.nested /\ (Weak \/ NoDead(t))
      /\ at \in Keys \cup {Nil} /\ seen \subseteq Keys
      /\ \A j \in Held(t) : j \in seen <=> luaH_index(t, j) <= n
  BY <1>1 DEF IInv, TraversalOK, Present, Held, Value
<1>3. /\ n \in Int /\ n >= -1
      /\ \/ k = Nil /\ \A j \in Held(t) : luaH_index(t, j) <= n
         \/ /\ k \in Held(t) /\ n < luaH_index(t, k)
            /\ \A j \in Held(t) : j # k => luaH_index(t, j) <= n \/ luaH_index(t, k) < luaH_index(t, j)
  BY <1>1, <1>2, NextIs DEF InvalidKey
<1>4. \A j \in Held(t) : j \in Keys /\ luaH_index(t, j) \in Nat
  <2>1. sizearray(t) \in Nat /\ sizenode(t) \in Nat
    BY <1>2, NodesAre DEF Sound
  <2>2. QED BY <1>2, <2>1, NumbersAre DEF Numbers, Held
<1> HIDE DEF k, n
<1>5. CASE k = Nil
  <2>1. at' = Nil /\ going' = FALSE /\ seen' = {} /\ t' = t
    BY <1>1, <1>5
  <2>2. k \notin Held(t)
    BY <1>4, <1>5, KeysAre
  <2>3. Held(t) \subseteq seen
    BY <1>2, <1>3, <2>2
  <2>4. TraversalOK'
    BY <2>1 DEF TraversalOK
  <2>5. QED BY <1>1, <1>2, <2>1, <2>3, <2>4 DEF IInv
<1>6. CASE k # Nil
  <2>1. at' = k /\ going' = TRUE /\ seen' = seen \cup {k} /\ t' = t
    BY <1>1, <1>6
  <2>2. k \in Held(t) /\ k \in Keys /\ n < luaH_index(t, k)
        /\ \A j \in Held(t) : j # k => luaH_index(t, j) <= n \/ luaH_index(t, k) < luaH_index(t, j)
    BY <1>3, <1>4, <1>6
  <2>3. k \notin seen
    BY <1>2, <1>3, <1>4, <2>2
  <2>4. ~InvalidKey'
    BY <1>4, <2>1, <2>2 DEF InvalidKey
  <2>5. ASSUME NEW j \in Held(t)
        PROVE  j \in seen' <=> luaH_index(t, j) <= luaH_index(t, k)
    <3>1. luaH_index(t, j) \in Nat /\ luaH_index(t, k) \in Nat
      BY <1>4, <2>2
    <3>2. CASE j = k
      BY <2>1, <3>1, <3>2
    <3>3. CASE j # k
      <4>1. j \in seen' <=> luaH_index(t, j) <= n
        BY <1>2, <2>1, <3>3
      <4>2. luaH_index(t, j) <= n \/ luaH_index(t, k) < luaH_index(t, j)
        BY <2>2, <3>3
      <4>3. QED BY <1>3, <2>2, <3>1, <4>1, <4>2
    <3>4. QED BY <3>2, <3>3
  <2>6. \A j \in Keys : Present(j)' => (j \in seen' <=> luaH_index(t', j) <= luaH_index(t', at'))
    <3>1. \A j \in Keys : Present(j)' => j \in Held(t)
      BY <2>1 DEF Present, Held, Value
    <3>2. QED BY <2>1, <2>5, <3>1
  <2>7. TraversalOK'
    BY <1>2, <2>1, <2>2, <2>4, <2>6 DEF TraversalOK
  <2>8. QED BY <1>1, <1>2, <2>1, <2>2, <2>3, <2>7 DEF IInv
<1>7. QED BY <1>5, <1>6

-----------------------------------------------------------------------------
(* The theorems.                                                               *)

LEMMA NextStep ==
    ASSUME IInv, [Next]_vars
    PROVE  IInv'
<1>1. CASE \E key \in Keys, v \in Values \cup {Nil} : Set(key, v)
  BY <1>1, SetStep
<1>2. CASE Begin
  BY <1>2, BeginStep
<1>3. CASE NextKey
  BY <1>3, NextKeyStep
<1>4. CASE Collect
  BY <1>4, CollectStep
<1>5. CASE UNCHANGED vars
  <2>1. t' = t /\ going' = going /\ seen' = seen /\ at' = at
    BY <1>5 DEF vars
  <2>2. TraversalOK' <=> TraversalOK
    BY <2>1 DEF TraversalOK, InvalidKey, Present
  <2>3. QED BY <2>1, <2>2 DEF IInv
<1>6. QED BY <1>1, <1>2, <1>3, <1>4, <1>5 DEF Next

\* Whatever is assigned, gone through and collected, chains, keys, the free position and
\* the traversal (luaH_set, luaH_next, cleartablevalues) stay as the invariant says.
THEOREM InvariantHolds == Spec => []IInv
<1>1. Init => IInv
  BY InitIs
<1>2. IInv /\ [Next]_vars => IInv'
  BY NextStep
<1>3. QED BY <1>1, <1>2, PTL DEF Spec

LEMMA InvariantSuffices ==
    ASSUME IInv
    PROVE  WellFormed /\ FoundUnlessCollected /\ (~Weak => NextFindsKey)
<1>1. Sound(t) /\ KeysOK(t) /\ FreeOK(t) /\ t.ok /\ ~t.nested /\ (Weak \/ NoDead(t)) /\ TraversalOK
  BY DEF IInv, Sound
<1>2. ASSUME NEW n \in DOMAIN t.node, t.node[n].val # Nil
      PROVE  /\ luaH_get(t, t.node[n].key) = <<"node", n>>
             /\ \A m \in DOMAIN t.node : t.node[m].key = t.node[n].key => m = n
  <2>1. n \in Real(t) /\ t.node[n].key \in Keys
    BY <1>1, <1>2 DEF KeysOK, Real
  <2>2. luaH_get(t, t.node[n].key) = <<"node", n>>
    BY <1>1, <2>1, ValueIs
  <2>3. ASSUME NEW m \in DOMAIN t.node, t.node[m].key = t.node[n].key PROVE m = n
    BY <1>1, <2>1, <2>3 DEF KeysOK, Real
  <2>4. QED BY <2>2, <2>3
<1>3. WellFormed
  BY <1>1, <1>2 DEF WellFormed, FreeOK
<1>4. going /\ InvalidKey => \E n \in DOMAIN t.node : t.node[n].key = Dead
  BY <1>1 DEF TraversalOK
<1>5. FoundUnlessCollected
  BY <1>4 DEF FoundUnlessCollected, NextFindsKey
<1>6. ~Weak => NextFindsKey
  BY <1>1, <1>4 DEF NoDead, NextFindsKey
<1>7. QED BY <1>3, <1>5, <1>6

\* luaH_get finds every key that has a value, in one place, no lua_assert of newkey and
\* computesizes fails, and resize never needs another resize while it inserts.
THEOREM WellFormedHolds == Spec => []WellFormed
<1>1. IInv => WellFormed
  BY InvariantSuffices
<1>2. QED BY <1>1, InvariantHolds, PTL

\* luaH_next finds the key it is at, whatever luaH_set did meanwhile, as long as the
\* collector has not made a key dead (removekey).
THEOREM FoundHolds == Spec => []FoundUnlessCollected
<1>1. IInv => FoundUnlessCollected
  BY InvariantSuffices
<1>2. QED BY <1>1, InvariantHolds, PTL

\* In a table that is not weak luaH_next always finds it.
THEOREM NextFindsKeyHolds == ~Weak => (Spec => []NextFindsKey)
<1>1. SUFFICES ASSUME ~Weak PROVE Spec => []NextFindsKey
  OBVIOUS
<1>2. IInv => NextFindsKey
  BY <1>1, InvariantSuffices
<1>3. QED BY <1>2, InvariantHolds, PTL

\* The map that a table stands for.
MapOf(tb) == [k \in Held(tb) |-> Value(tb, k)]
With(f, k, v) == [x \in DOMAIN f \cup {k} |-> IF x = k THEN v ELSE f[x]]
Less(f, S)    == [x \in DOMAIN f \ S |-> f[x]]

LEMMA ContentsAre == Contents = MapOf(t) /\ Contents' = MapOf(t')
<1>1. {k \in Keys : Present(k)} = Held(t) /\ {k \in Keys : Present(k)'} = Held(t')
  BY DEF Present, Held, Value
<1>2. Contents = MapOf(t)
  BY <1>1 DEF Contents, MapOf, Value
<1>3. Contents' = MapOf(t')
  BY <1>1 DEF Contents, MapOf, Value
<1>4. QED BY <1>2, <1>3

\* An assignment of a value, and of nil, as the map sees it.
LEMMA AssignedIs ==
    ASSUME NEW tb, NEW tb2, NEW key \in Keys, NEW v, v # Nil,
           \A k \in Keys : Value(tb2, k) = IF k = key THEN v ELSE Value(tb, k)
    PROVE  MapOf(tb2) = With(MapOf(tb), key, v)
<1>1. DOMAIN MapOf(tb) = Held(tb) /\ Held(tb2) = Held(tb) \cup {key}
  BY DEF MapOf, Held
<1>2. \A x \in Held(tb2) : Value(tb2, x) = IF x = key THEN v ELSE MapOf(tb)[x]
  BY <1>1 DEF MapOf, Held
<1>3. QED BY <1>1, <1>2 DEF MapOf, With

LEMMA ErasedIs ==
    ASSUME NEW tb, NEW tb2, NEW S,
           \A k \in Keys : Value(tb2, k) = IF k \in S THEN Nil ELSE Value(tb, k)
    PROVE  MapOf(tb2) = Less(MapOf(tb), S)
<1>1. DOMAIN MapOf(tb) = Held(tb) /\ Held(tb2) = Held(tb) \ S
  BY DEF MapOf, Held
<1>2. \A x \in Held(tb2) : Value(tb2, x) = MapOf(tb)[x]
  BY <1>1 DEF MapOf, Held
<1>3. QED BY <1>1, <1>2 DEF MapOf, Less

\* Every step of the table is one of the map, or none.
LEMMA MapStep ==
    ASSUME IInv, [Next]_vars
    PROVE  [Map!Next]_(Map!vars)
<1>1. Contents = MapOf(t) /\ Contents' = MapOf(t') /\ DOMAIN Contents = Held(t) /\ Held(t) \subseteq Keys
      /\ \A k \in Held(t) : Contents[k] = Value(t, k)
  <2>1. Contents = MapOf(t) /\ Contents' = MapOf(t')
    BY ContentsAre
  <2>2. DOMAIN MapOf(t) = Held(t) /\ Held(t) \subseteq Keys /\ \A k \in Held(t) : MapOf(t)[k] = Value(t, k)
    BY DEF MapOf, Held
  <2>3. QED BY <2>1, <2>2
<1>2. ASSUME NEW key \in Keys, NEW v \in Values \cup {Nil}, Set(key, v) PROVE Map!Next
  <2>1. /\ going' = going /\ seen' = seen /\ (going => key \in Held(t))
        /\ \A k \in Keys : Value(t', k) = IF k = key THEN v ELSE Value(t, k)
    BY <1>2, SetStep
  <2>2. CASE v # Nil
    <3>1. MapOf(t') = With(MapOf(t), key, v)
      BY <2>1, <2>2, AssignedIs
    <3>2. key \in IF going THEN DOMAIN Contents ELSE Keys
      BY <1>1, <2>1
    <3>3. v \in Values
      BY <2>2
    <3>4. Contents' = [x \in DOMAIN Contents \cup {key} |-> IF x = key THEN v ELSE Contents[x]]
      BY <1>1, <3>1 DEF With
    <3>5. Contents' \in Map!Assigned
      BY <3>2, <3>3, <3>4 DEF Map!Assigned
    <3>6. QED BY <2>1, <3>5 DEF Map!Next, Map!Change
  <2>3. CASE v = Nil
    <3>1. \A k \in Keys : Value(t', k) = IF k \in {key} THEN Nil ELSE Value(t, k)
      BY <2>1, <2>3
    <3>2. MapOf(t') = Less(MapOf(t), {key})
      BY <3>1, ErasedIs
    <3>3. Contents' = Map!Without({key})
      BY <1>1, <3>2 DEF Map!Without, Less
    <3>4. Contents' \in Map!Cleared
      BY <3>3 DEF Map!Cleared
    <3>5. QED BY <2>1, <3>4 DEF Map!Next, Map!Change
  <2>4. QED BY <2>2, <2>3
<1>3. CASE Begin
  BY <1>1, <1>3, BeginStep DEF Map!Next, Map!Begin
<1>4. CASE NextKey
  <2>1. /\ t' = t /\ going
        /\ \/ going' = going /\ \E k \in Held(t) \ seen : seen' = seen \cup {k}
           \/ going' = FALSE /\ Held(t) \subseteq seen /\ seen' = {}
    BY <1>4, NextKeyStep
  <2>2. Contents' = Contents
    BY <1>1, <2>1
  <2>3. QED BY <1>1, <2>1, <2>2 DEF Map!Next, Map!Visit, Map!End
<1>5. CASE Collect
  <2>1. PICK dead \in SUBSET WeakValues :
           \A k \in Keys : Value(t', k) = IF Value(t, k) \in dead THEN Nil ELSE Value(t, k)
    BY <1>5, CollectStep
  <2>2. going' = going /\ seen' = seen
    BY <1>5, CollectStep
  <2> DEFINE S == {k \in Held(t) : Value(t, k) \in dead}
  <2>3. \A k \in Keys : Value(t', k) = IF k \in S THEN Nil ELSE Value(t, k)
    BY <2>1 DEF Held
  <2>4. S \in SUBSET {k \in DOMAIN Contents : Contents[k] \in WeakValues}
    BY <1>1
  <2> HIDE DEF S
  <2>5. MapOf(t') = Less(MapOf(t), S)
    BY <2>3, ErasedIs
  <2>6. Contents' = Map!Without(S)
    BY <1>1, <2>5 DEF Map!Without, Less
  <2>7. Contents' \in Map!Collected
    BY <2>4, <2>6 DEF Map!Collected
  <2>8. QED BY <2>2, <2>7 DEF Map!Next, Map!Change
<1>6. CASE UNCHANGED vars
  BY <1>1, <1>6 DEF vars, Map!vars
<1>7. QED BY <1>2, <1>3, <1>4, <1>5, <1>6 DEF Next

\* A table is a map: luaH_set assigns or clears one field, rehash and resize no other,
\* luaH_next delivers each key that has a value once, and cleartablevalues only takes
\* fields with weak values away.
THEOREM IsMapHolds == Spec => IsMap
<1>1. Init => Map!Init
  <2>1. SUFFICES ASSUME Init PROVE Map!Init
    OBVIOUS
  <2>2. (\A k \in Keys : Value(t, k) = Nil) /\ going = FALSE /\ seen = {}
    BY <2>1, InitIs DEF Init
  <2>3. Held(t) = {}
    BY <2>2 DEF Held
  <2>4. Contents = [k \in {} |-> CHOOSE v \in Values : TRUE]
    BY <2>3, ContentsAre DEF MapOf
  <2>5. QED BY <2>2, <2>4 DEF Map!Init
<1>2. IInv /\ [Next]_vars => [Map!Next]_(Map!vars)
  BY MapStep
<1>3. QED BY <1>1, <1>2, InvariantHolds, PTL DEF Spec, IsMap, Map!Spec
=============================================================================
