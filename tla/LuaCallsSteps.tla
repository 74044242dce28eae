--------------------------- MODULE LuaCallsSteps ---------------------------
(***************************************************************************)
(* What leaves the invariant of LuaCalls true, for any threads and any C   *)
(* stack.                                                                  *)
(*                                                                         *)
(* First the stack.  What is counted of its first entries depends on those *)
(* entries; an entry depends on itself, on the one below and on the        *)
(* CallInfo it rests on. So a good state stays good when the C stack is    *)
(* cut below an entry (Cut), when an entry of the thread that runs is      *)
(* pushed (Push) or popped (Pop, Leave), when the thread that runs changes *)
(* only what no entry rests on (Stay), and when a coroutine with no entry  *)
(* gets its first (Begin).                                                 *)
(*                                                                         *)
(* Then the operators from which the actions are built: luaD_throw,        *)
(* luaG_runerror, luaD_precall and luaD_call, and the return of a          *)
(* function. Each leads from a good state to a good state (Comes), whether *)
(* it succeeds or fails. An error is the hardest: it cuts the C stack at a *)
(* handler far below, and leaves a good state because the handler kept     *)
(* what was counted below it and the CallInfo that all below it rest on.   *)
(***************************************************************************)
EXTENDS LuaCallsInvariant, TLAPS, FiniteSetTheorems

-----------------------------------------------------------------------------
(* Counting the entries of a thread.                                           *)

\* The calls among the first entries are a number.
LEMMA CallsFinite ==
    ASSUME NEW D, NEW t, NEW k \in Nat
    PROVE  /\ IsFiniteSet({i \in 1..k : D[i].kind = "call" /\ D[i].th = t})
           /\ Calls(D, t, k) \in Nat
<1>1. IsFiniteSet({i \in 1..k : D[i].kind = "call" /\ D[i].th = t})
  BY FS_Interval, FS_Subset, k \in Int, 1 \in Int,
     {i \in 1..k : D[i].kind = "call" /\ D[i].th = t} \subseteq 1..k
<1>2. QED BY <1>1, FS_CardinalityType DEF Calls

\* One entry more is one call more, when it is a luaD_call of the thread.
LEMMA CallsNext ==
    ASSUME NEW D, NEW t, NEW k \in Nat
    PROVE  Calls(D, t, k + 1) = IF D[k + 1].kind = "call" /\ D[k + 1].th = t
                                THEN Calls(D, t, k) + 1 ELSE Calls(D, t, k)
<1> DEFINE S(n) == {i \in 1..n : D[i].kind = "call" /\ D[i].th = t}
<1>1. IsFiniteSet(S(k)) BY CallsFinite
<1>2. k + 1 \notin S(k) OBVIOUS
<1>3. CASE D[k + 1].kind = "call" /\ D[k + 1].th = t
  <2>1. S(k + 1) = S(k) \cup {k + 1} BY <1>3
  <2>2. QED BY <1>1, <1>2, <1>3, <2>1, FS_AddElement DEF Calls
<1>4. CASE ~(D[k + 1].kind = "call" /\ D[k + 1].th = t)
  <2>1. S(k + 1) = S(k) BY <1>4
  <2>2. QED BY <1>4, <2>1 DEF Calls
<1>5. QED BY <1>3, <1>4

\* The luaD_call counted depend on the entries counted only.
LEMMA CallsSame ==
    ASSUME NEW D, NEW E, NEW t, NEW k \in Nat, \A i \in 1..k : E[i] = D[i]
    PROVE  Calls(E, t, k) = Calls(D, t, k)
<1>1. {i \in 1..k : E[i].kind = "call" /\ E[i].th = t} = {i \in 1..k : D[i].kind = "call" /\ D[i].th = t}
  OBVIOUS
<1>2. QED BY <1>1 DEF Calls

\* A thread with no luaD_call among the entries has none to count.
LEMMA CallsNone ==
    ASSUME NEW D, NEW t, NEW k \in Nat, \A i \in 1..k : D[i].th = t => D[i].kind # "call"
    PROVE  Calls(D, t, k) = 0
<1>1. {i \in 1..k : D[i].kind = "call" /\ D[i].th = t} = {} OBVIOUS
<1>2. QED BY <1>1, FS_EmptySet DEF Calls

\* What is counted depends on the entries counted, and on nothing else.
LEMMA CountedSame ==
    ASSUME NEW D, NEW E, NEW t, NEW k \in Nat, \A i \in 1..k : E[i] = D[i],
           NEW n, NEW a, NEW f, NEW j
    PROVE  Counted(E, t, k, n, a, f, j) <=> Counted(D, t, k, n, a, f, j)
<1>1. Calls(E, t, k) = Calls(D, t, k) BY CallsSame
<1>2. Quiet(E, t, k) = Quiet(D, t, k) BY DEF Quiet
<1>3. Catches(E, t, k, j) <=> Catches(D, t, k, j) BY DEF Catches
<1>4. (\A i \in 1..k : E[i].th = t => E[i].kind # "pcall") <=> (\A i \in 1..k : D[i].th = t => D[i].kind # "pcall")
  OBVIOUS
<1>5. QED BY <1>1, <1>2, <1>3, <1>4 DEF Counted

\* A thread with no entries.
LEMMA CountedNone ==
    ASSUME NEW D, NEW t, NEW k \in Nat, \A i \in 1..k : D[i].th # t
    PROVE  /\ Calls(D, t, k) = 0 /\ Quiet(D, t, k) = TRUE
           /\ \A p : Catches(D, t, k, p) <=> p = 0
<1>1. Calls(D, t, k) = 0 BY CallsNone
<1>2. Quiet(D, t, k) = TRUE BY DEF Quiet
<1>3. \A p : Catches(D, t, k, p) <=> p = 0 BY DEF Catches
<1>4. QED BY <1>1, <1>2, <1>3

\* An entry of another thread changes nothing that is counted.
LEMMA CountedOther ==
    ASSUME NEW D, NEW t, NEW k \in Nat, NEW m \in 0..k, \A i \in (m + 1)..k : D[i].th # t,
           NEW n, NEW a, NEW f, NEW j
    PROVE  Counted(D, t, k, n, a, f, j) <=> Counted(D, t, m, n, a, f, j)
<1>1. {i \in 1..k : D[i].kind = "call" /\ D[i].th = t} = {i \in 1..m : D[i].kind = "call" /\ D[i].th = t}
  OBVIOUS
<1>2. Calls(D, t, k) = Calls(D, t, m) BY <1>1 DEF Calls
<1>3. Quiet(D, t, k) = Quiet(D, t, m) BY DEF Quiet
<1>4. Catches(D, t, k, j) <=> Catches(D, t, m, j) BY DEF Catches
<1>5. (\A i \in 1..k : D[i].th = t => D[i].kind # "pcall") <=> (\A i \in 1..m : D[i].th = t => D[i].kind # "pcall")
  OBVIOUS
<1>6. QED BY <1>2, <1>3, <1>4, <1>5 DEF Counted

\* What is counted when an entry of the thread is popped: r is what q becomes.
Untallied(r, q, D, t, k) ==
    LET e == D[k + 1]
    IN /\ r.nCcalls = IF e.kind = "call" THEN q.nCcalls - 1 ELSE q.nCcalls
       /\ r.allowhook = IF e.kind \in {"hook", "gc"} THEN Quiet(D, t, k) ELSE q.allowhook
       /\ r.errfunc = IF e.kind = "pcall" THEN e.saved.errfunc ELSE q.errfunc
       /\ r.errorJmp = IF e.kind \in Protected THEN e.saved.previous ELSE q.errorJmp
\* When the entry above the first k is popped, what the thread keeps is right for those k.
LEMMA PopCounted ==
    ASSUME NEW D, NEW t, NEW k \in Nat, D[k + 1].th = t, SavedOK(D, k + 1), NEW q, NEW r,
           Counted(D, t, k + 1, q.nCcalls, q.allowhook, q.errfunc, q.errorJmp), Untallied(r, q, D, t, k)
    PROVE  Counted(D, t, k, r.nCcalls, r.allowhook, r.errfunc, r.errorJmp)
<1> DEFINE e == D[k + 1]
<1>1. Calls(D, t, k) \in Nat BY CallsFinite
<1>2. \A i \in 1..(k + 1) : i \in 1..k \/ i = k + 1 OBVIOUS
<1>3. \A i \in 1..k : i \in 1..(k + 1) OBVIOUS
<1>4. e.kind \in Protected => Counted(D, t, k, e.saved.nCcalls, e.saved.allowhook, e.saved.errfunc, e.saved.previous)
  <2>1. (k + 1) - 1 = k OBVIOUS
  <2>2. QED BY <2>1 DEF SavedOK
<1>5. r.nCcalls = Calls(D, t, k) BY <1>1, CallsNext DEF Counted, Untallied
<1>6. r.allowhook = Quiet(D, t, k)
  <2>1. CASE e.kind \in {"hook", "gc"} BY <2>1 DEF Untallied
  <2>2. CASE e.kind \notin {"hook", "gc"}
    <3>1. Quiet(D, t, k + 1) = Quiet(D, t, k) BY <1>2, <1>3, <2>2 DEF Quiet
    <3>2. QED BY <2>2, <3>1 DEF Counted, Untallied
  <2>3. QED BY <2>1, <2>2
<1>7. ASSUME \A i \in 1..k : D[i].th = t => D[i].kind # "pcall" PROVE r.errfunc = "none"
  <2>1. CASE e.kind = "pcall" BY <1>4, <1>7, <2>1 DEF Counted, Untallied, Protected
  <2>2. CASE e.kind # "pcall"
    <3>1. \A i \in 1..(k + 1) : D[i].th = t => D[i].kind # "pcall" BY <1>2, <1>7, <2>2
    <3>2. QED BY <2>2, <3>1 DEF Counted, Untallied
  <2>3. QED BY <2>1, <2>2
<1>8. Catches(D, t, k, r.errorJmp)
  <2>1. CASE e.kind \in Protected BY <1>4, <2>1 DEF Counted, Untallied
  <2>2. CASE e.kind \notin Protected BY <1>3, <2>2 DEF Counted, Catches, Untallied
  <2>3. QED BY <2>1, <2>2
<1>9. QED BY <1>5, <1>6, <1>7, <1>8 DEF Counted

-----------------------------------------------------------------------------
(* What a step leaves as it is.                                                *)

\* What an entry rests on is at or above what it started from.
LEMMA InBase ==
    ASSUME NEW Ts, NEW D, Good(Ts, D), NEW i \in 1..Len(D)
    PROVE  Base(D, i) \in Nat /\ In(D, i) \in Nat /\ In(D, i) <= Base(D, i) /\ 1 <= Base(D, i)
<1>1. D \in Seq(EntrySet) /\ EntryOK(Ts, D, i) BY DEF Good
<1>2. D[i] \in EntrySet /\ (i > 1 => D[i - 1] \in EntrySet) BY <1>1
<1>3. D[i].kind = "execute" => i > 1 BY <1>1 DEF EntryOK
<1>4. Base(D, i) \in Nat BY <1>2, <1>3 DEF Base, EntrySet
<1>5. D[i].kind = "cfunc" => D[i].at > 1 /\ Base(D, i) = D[i].at BY <1>1 DEF EntryOK, FramesOK, Base
<1>6. 1 <= Base(D, i) BY <1>1 DEF EntryOK, FramesOK
<1>7. QED BY <1>2, <1>4, <1>5, <1>6 DEF In, EntrySet

\* The base of an entry depends on it and the one below.
LEMMA BaseSame ==
    ASSUME NEW D, NEW E, NEW m \in Nat, \A i \in 1..m : E[i] = D[i],
           NEW i \in 1..m, D[i].kind = "execute" => i > 1
    PROVE  Base(E, i) = Base(D, i) /\ In(E, i) = In(D, i)
<1>1. E[i] = D[i] /\ (i > 1 => E[i - 1] = D[i - 1]) OBVIOUS
<1>2. QED BY <1>1 DEF Base, In

\* The thread t becomes r; the first m entries remain; r keeps the CallInfo they rest on.
Put(Ts, t, r)    == [Ts EXCEPT ![t] = r]
Starts(D, E, m)  == \A i \in 1..m : E[i] = D[i]
Keeps(Ts, D, m, t, r) ==
    \A i \in 1..m : D[i].th = t =>
        Base(D, i) <= Len(r.cis) /\ \A k \in 1..Base(D, i) : r.cis[k] = Ts[t].cis[k]

\* Then these entries are as they should be.
LEMMA EntriesKept ==
    ASSUME NEW Ts, NEW D, Good(Ts, D), NEW E, NEW m, m \in 1..Len(D), Starts(D, E, m),
           NEW t, t \in Threads, NEW r, r \in ThreadSet, Keeps(Ts, D, m, t, r)
    PROVE  /\ \A i \in 1..m : EntryOK(Put(Ts, t, r), E, i)
           /\ \A i, j \in 1..m : i < j => PairOK(E, i, j)
<1> DEFINE Us == [Ts EXCEPT ![t] = r]
<1>c. /\ \A i \in 1..m : E[i] = D[i]
      /\ \A i \in 1..m : D[i].th = t =>
               Base(D, i) <= Len(r.cis) /\ \A k \in 1..Base(D, i) : r.cis[k] = Ts[t].cis[k]
  BY DEF Starts, Keeps
<1>a. Ts \in [Threads -> ThreadSet] /\ D \in Seq(EntrySet) /\ Len(D) \in Nat BY DEF Good
<1>b. \A i \in 1..m : i \in 1..Len(D) /\ D[i] \in EntrySet BY <1>a
<1>0. /\ Ts \in [Threads -> ThreadSet] /\ D \in Seq(EntrySet) /\ Len(D) \in Nat
      /\ \A i \in 1..m : i \in 1..Len(D) /\ D[i] \in EntrySet /\ D[i].th \in Threads
  BY <1>a, <1>b DEF EntrySet
<1>1. \A i \in 1..m : D[i].kind = "execute" => i > 1 BY <1>0 DEF Good, EntryOK
<1>2. \A i \in 1..m : Base(E, i) = Base(D, i) /\ In(E, i) = In(D, i)
  <2>1. m \in Nat BY <1>0
  <2>2. QED BY <1>1, <1>c, <2>1, BaseSame
<1>3. ASSUME NEW i \in 1..m PROVE EntryOK(Us, E, i)
  <2> DEFINE old == Ts[D[i].th].cis
             new == Us[D[i].th].cis
  <2>0. EntryOK(Ts, D, i) BY <1>0 DEF Good
  <2>1. E[i] = D[i] /\ (i > 1 => E[i - 1] = D[i - 1])
    <3>1. i > 1 => i - 1 \in 1..m BY <1>0
    <3>2. QED BY <1>c, <3>1
  <2>2. FramesOK(old, D, i) BY <2>0 DEF EntryOK
  <2>3. Base(D, i) <= Len(new) /\ \A k \in 1..Base(D, i) : new[k] = old[k]
    <3>1. CASE D[i].th = t BY <1>0, <1>c, <3>1
    <3>2. CASE D[i].th # t BY <1>0, <2>2, <3>2 DEF FramesOK
    <3>3. QED BY <3>1, <3>2
  <2>4. /\ Base(D, i) \in Nat /\ In(D, i) \in Nat /\ In(D, i) <= Base(D, i) /\ 1 <= Base(D, i)
        /\ i > 1 => Base(D, i - 1) \in Nat /\ 1 <= Base(D, i - 1)
    <3>1. i \in 1..Len(D) /\ (i > 1 => i - 1 \in 1..Len(D)) BY <1>0
    <3>2. Good(Ts, D) OBVIOUS
    <3>3. Base(D, i) \in Nat /\ In(D, i) \in Nat /\ In(D, i) <= Base(D, i) /\ 1 <= Base(D, i)
      BY <3>1, <3>2, InBase
    <3>4. i > 1 => Base(D, i - 1) \in Nat /\ 1 <= Base(D, i - 1) BY <3>1, <3>2, InBase
    <3>5. QED BY <3>3, <3>4
  <2>5. FramesOK(new, E, i)
    <3>1. 1 <= Base(E, i) /\ Base(E, i) <= Len(new) /\ ~new[Base(E, i)].calling
      BY <1>2, <2>2, <2>3, <2>4 DEF FramesOK
    <3>2. E[i].kind = "cfunc" => E[i].at > 1 /\ new[E[i].at].c /\ ~new[E[i].at].yield
      <4> SUFFICES ASSUME D[i].kind = "cfunc" PROVE E[i].at > 1 /\ new[E[i].at].c /\ ~new[E[i].at].yield
        BY <2>1
      <4>1. Base(D, i) = D[i].at BY DEF Base
      <4>2. D[i].at \in 1..Base(D, i) BY <2>4, <4>1
      <4>3. new[D[i].at] = old[D[i].at] BY <2>3, <4>2
      <4>4. D[i].at > 1 /\ old[D[i].at].c /\ ~old[D[i].at].yield BY <2>2 DEF FramesOK
      <4>5. QED BY <2>1, <4>3, <4>4
    <3>3. i > 1 /\ E[i].kind # "resume" => Reached(new, E, i - 1, In(E, i))
      <4> SUFFICES ASSUME i > 1, D[i].kind # "resume" PROVE Reached(new, E, i - 1, In(E, i))
        BY <2>1
      <4>1. Reached(old, D, i - 1, In(D, i)) BY <2>2 DEF FramesOK
      <4>2. Base(E, i - 1) = Base(D, i - 1) /\ E[i - 1].kind = D[i - 1].kind BY <1>2, <2>1
      <4>3. ASSUME Region(old, Base(D, i - 1), In(D, i)) PROVE Region(new, Base(D, i - 1), In(D, i))
        <5>1. \A k \in (Base(D, i - 1) + 1)..In(D, i) : new[k] = old[k] BY <2>3, <2>4
        <5>2. QED BY <4>3, <5>1 DEF Region
      <4>4. QED BY <1>2, <4>1, <4>2, <4>3 DEF Reached
    <3>4. QED BY <3>1, <3>2, <3>3 DEF FramesOK
  <2>6. IF i = 1 THEN E[i].kind = "host" /\ E[i].th = Main /\ E[i].at = 1 ELSE Stands(E, i)
    <3>1. CASE i = 1 BY <2>0, <2>1, <3>1 DEF EntryOK
    <3>2. CASE i # 1
      <4>1. Stands(D, i) BY <2>0, <3>2 DEF EntryOK
      <4>2. E[i - 1] = D[i - 1] BY <2>1, <3>2
      <4>3. \A j \in 1..i : E[j] = D[j] BY <1>0, <1>c
      <4>4. QED BY <2>1, <3>2, <4>1, <4>2, <4>3 DEF Stands, On
    <3>3. QED BY <3>1, <3>2
  <2>7. SavedOK(E, i)
    <3>1. SavedOK(D, i) BY <2>0 DEF EntryOK
    <3>2. i - 1 \in Nat /\ \A j \in 1..(i - 1) : E[j] = D[j] BY <1>0, <1>c
    <3>3. Quiet(E, D[i].th, i - 1) = Quiet(D, D[i].th, i - 1) BY <3>2 DEF Quiet
    <3>4. ASSUME NEW a, NEW b, NEW c, NEW d
          PROVE  Counted(E, D[i].th, i - 1, a, b, c, d) <=> Counted(D, D[i].th, i - 1, a, b, c, d)
      BY <3>2, CountedSame
    <3>5. QED BY <2>1, <3>1, <3>3, <3>4 DEF SavedOK
  <2>8. QED BY <2>1, <2>5, <2>6, <2>7 DEF EntryOK
<1>4. ASSUME NEW i \in 1..m, NEW j \in 1..m, i < j PROVE PairOK(E, i, j)
  <2>0. i \in 1..Len(D) /\ j \in 1..Len(D) BY <1>0
  <2>1. PairOK(D, i, j) BY <1>4, <2>0 DEF Good
  <2>2. E[i] = D[i] /\ E[j] = D[j] /\ \A k \in i..j : E[k] = D[k] BY <1>0, <1>c
  <2>3. Base(E, i) = Base(D, i) /\ In(E, j) = In(D, j) BY <1>2
  <2>4. QED BY ONLY <2>1, <2>2, <2>3 DEF PairOK
<1> HIDE DEF Us
<1>5. QED BY <1>3, <1>4 DEF Put, Us

\* And so do the threads other than t, when the entries that go or come are of t.
LEMMA OthersKept ==
    ASSUME NEW Ts, NEW D, Good(Ts, D), NEW E \in Seq(EntrySet),
           NEW m \in 1..Len(D), \A i \in 1..m : E[i] = D[i],
           NEW t \in Threads, NEW r \in ThreadSet,
           \A i \in (m + 1)..Len(D) : D[i].th = t,
           Len(E) >= m, \A i \in (m + 1)..Len(E) : E[i].th = t
    PROVE  \A u \in Threads \ {t} : ThreadOK([Ts EXCEPT ![t] = r][u], E, u)
<1> SUFFICES ASSUME NEW u \in Threads, u # t PROVE ThreadOK(Ts[u], E, u)
  BY DEF Good
<1>0. /\ D \in Seq(EntrySet) /\ Len(D) \in Nat /\ Len(E) \in Nat /\ m \in Nat /\ m <= Len(D)
      /\ Ts[u] \in ThreadSet /\ ThreadOK(Ts[u], D, u)
  BY DEF Good
<1>1. Counted(E, u, Len(E), Ts[u].nCcalls, Ts[u].allowhook, Ts[u].errfunc, Ts[u].errorJmp)
  <2> DEFINE Alike(F, k) == Counted(F, u, k, Ts[u].nCcalls, Ts[u].allowhook, Ts[u].errfunc, Ts[u].errorJmp)
  <2>1. Alike(D, Len(D)) BY <1>0 DEF ThreadOK
  <2>2. Alike(D, Len(D)) <=> Alike(D, m) BY <1>0, CountedOther
  <2>3. Alike(E, m) <=> Alike(D, m) BY <1>0, CountedSame
  <2>4. Alike(E, Len(E)) <=> Alike(E, m) BY <1>0, CountedOther
  <2>5. QED BY <2>1, <2>2, <2>3, <2>4
<1>2. ASSUME Absent(E, u) PROVE Asleep(Ts[u].cis)
  <2>1. Absent(D, u)
    <3> SUFFICES ASSUME NEW i \in 1..Len(D) PROVE D[i].th # u BY DEF Absent
    <3>1. CASE i <= m
      <4>1. i \in 1..m /\ i \in 1..Len(E) BY <1>0, <3>1
      <4>2. QED BY <1>2, <4>1 DEF Absent
    <3>2. CASE i > m BY <1>0, <3>2
    <3>3. QED BY <1>0, <3>1, <3>2
  <2>2. QED BY <1>0, <2>1 DEF ThreadOK
<1>3. ASSUME NEW i \in 1..Len(E), Last(E, u, i) PROVE Reached(Ts[u].cis, E, i, Len(Ts[u].cis))
  <2>1. i \in 1..m /\ i \in 1..Len(D) BY <1>0, <1>3 DEF Last
  <2>2. Last(D, u, i)
    <3>1. D[i].th = u BY <1>3, <2>1 DEF Last
    <3>2. \A j \in (i + 1)..Len(D) : D[j].th # u
      <4> SUFFICES ASSUME NEW j \in (i + 1)..Len(D) PROVE D[j].th # u OBVIOUS
      <4>1. CASE j <= m
        <5>1. j \in 1..m /\ j \in (i + 1)..Len(E) BY <1>0, <2>1, <4>1
        <5>2. QED BY <1>3, <5>1 DEF Last
      <4>2. CASE j > m BY <1>0, <4>2
      <4>3. QED BY <1>0, <2>1, <4>1, <4>2
    <3>3. QED BY <3>1, <3>2 DEF Last
  <2>3. Reached(Ts[u].cis, D, i, Len(Ts[u].cis)) BY <1>0, <2>1, <2>2 DEF ThreadOK
  <2>4. D[i].kind = "execute" => i > 1 BY <2>1 DEF Good, EntryOK
  <2>5. Base(E, i) = Base(D, i) /\ E[i] = D[i] BY <1>0, <2>1, <2>4, BaseSame
  <2>6. QED BY <2>3, <2>5 DEF Reached
<1>4. QED BY <1>0, <1>1, <1>2, <1>3 DEF ThreadOK

-----------------------------------------------------------------------------
(* The steps that change the C stack.                                          *)

\* Entries of one thread go, or none do.
LEMMA Cut ==
    ASSUME NEW Ts, NEW D, Good(Ts, D), NEW m \in 1..Len(D),
           NEW t \in Threads, NEW r \in ThreadSet,
           \A i \in (m + 1)..Len(D) : D[i].th = t,
           \A i \in 1..m : D[i].th = t =>
               Base(D, i) <= Len(r.cis) /\ \A k \in 1..Base(D, i) : r.cis[k] = Ts[t].cis[k],
           ThreadOK(r, SubSeq(D, 1, m), t)
    PROVE  Good(Put(Ts, t, r), SubSeq(D, 1, m))
<1> DEFINE E == SubSeq(D, 1, m)
<1>0. D \in Seq(EntrySet) /\ Len(D) \in Nat /\ Ts \in [Threads -> ThreadSet] BY DEF Good
<1>1. E \in Seq(EntrySet) /\ Len(E) = m /\ \A i \in 1..m : E[i] = D[i] BY <1>0
<1> HIDE DEF E
<1>2. /\ \A i \in 1..m : EntryOK([Ts EXCEPT ![t] = r], E, i)
      /\ \A i, j \in 1..m : i < j => PairOK(E, i, j)
  <2>1. Starts(D, E, m) /\ Keeps(Ts, D, m, t, r) BY <1>1 DEF Starts, Keeps
  <2>2. QED BY <2>1, EntriesKept DEF Put
<1>3. \A u \in Threads \ {t} : ThreadOK([Ts EXCEPT ![t] = r][u], E, u)
  <2>1. Len(E) >= m /\ \A i \in (m + 1)..Len(E) : E[i].th = t BY <1>0, <1>1
  <2>2. QED BY <1>0, <1>1, <2>1, OthersKept
<1>4. ThreadOK([Ts EXCEPT ![t] = r][t], E, t)
  <2>1. [Ts EXCEPT ![t] = r][t] = r BY <1>0
  <2>2. QED BY <2>1 DEF E
<1>5. [Ts EXCEPT ![t] = r] \in [Threads -> ThreadSet] BY <1>0
<1>6. \A u \in Threads : ThreadOK([Ts EXCEPT ![t] = r][u], E, u) BY <1>3, <1>4
<1> DEFINE Us == [Ts EXCEPT ![t] = r]
<1> HIDE DEF Us
<1>7. Good(Us, E)
  <2>1. \A i \in 1..Len(E) : EntryOK(Us, E, i) BY <1>1, <1>2 DEF Us
  <2>2. \A i, j \in 1..Len(E) : i < j => PairOK(E, i, j) BY <1>1, <1>2
  <2>3. \A u \in Threads : ThreadOK(Us[u], E, u) BY <1>6 DEF Us
  <2>4. Us \in [Threads -> ThreadSet] /\ Len(E) > 0 BY <1>1, <1>5 DEF Us
  <2>5. QED BY <1>1, <2>1, <2>2, <2>3, <2>4 DEF Good
<1>8. QED BY <1>7 DEF E, Us, Put

\* Of two entries of a thread, the upper one rests on no less.
LEMMA BaseGrows ==
    ASSUME NEW Ts, NEW D, Good(Ts, D), NEW j \in 1..Len(D), NEW i \in 1..j, D[i].th = D[j].th
    PROVE  Base(D, i) <= Base(D, j)
<1>0. i \in 1..Len(D) /\ D \in Seq(EntrySet) BY DEF Good
<1>1. /\ Base(D, i) \in Nat /\ Base(D, j) \in Nat /\ In(D, j) \in Nat /\ In(D, j) <= Base(D, j)
  BY <1>0, InBase
<1>2. CASE i = j BY <1>1, <1>2
<1>3. CASE i < j
  <2>1. PairOK(D, i, j) BY <1>0, <1>3 DEF Good
  <2>2. QED BY <1>1, <2>1 DEF PairOK
<1>4. QED BY <1>2, <1>3

\* An entry of the thread at the top is pushed.
Pushes(D, E, n, t) == /\ Len(D) = n /\ Len(E) = n + 1 /\ E \in Seq(EntrySet) /\ \A i \in 1..n : E[i] = D[i]
                      /\ D[n].th = t /\ E[n + 1].th = t
\* A good state is good with one entry more, when that entry rests on what the one below has
\* reached and what the thread keeps counts it.
LEMMA Push ==
    ASSUME NEW Ts, NEW D, Good(Ts, D), NEW n, NEW t, NEW E, Pushes(D, E, n, t), NEW r \in ThreadSet,
           Base(D, n) <= Len(r.cis), \A k \in 1..Base(D, n) : r.cis[k] = Ts[t].cis[k],
           Base(D, n) <= In(E, n + 1),
           Stands(E, n + 1), FramesOK(r.cis, E, n + 1), SavedOK(E, n + 1),
           Reached(r.cis, E, n + 1, Len(r.cis)),
           2 <= r.size_ci, r.size_ci <= 2 * LUA_MAXCALLS, Len(r.cis) <= r.size_ci,
           Counted(E, t, n + 1, r.nCcalls, r.allowhook, r.errfunc, r.errorJmp)
    PROVE  Good(Put(Ts, t, r), E)
<1> DEFINE Us == [Ts EXCEPT ![t] = r]
<1>a. D \in Seq(EntrySet) /\ n \in Nat /\ n > 0 /\ Ts \in [Threads -> ThreadSet] /\ n \in 1..Len(D) /\ Len(D) <= n
  BY DEF Good, Pushes
<1>b. D[n] \in EntrySet /\ D[n].th = t BY <1>a DEF Pushes
<1>0. /\ D \in Seq(EntrySet) /\ n \in Nat /\ n > 0 /\ Ts \in [Threads -> ThreadSet] /\ t \in Threads
      /\ n \in 1..Len(D) /\ Len(D) <= n /\ Len(r.cis) \in Nat
  <2>1. t \in Threads BY <1>b DEF EntrySet
  <2>2. Len(r.cis) \in Nat BY DEF ThreadSet
  <2>3. QED BY <1>a, <2>1, <2>2
<1>1. E \in Seq(EntrySet) /\ Len(E) = n + 1 /\ E[n + 1].th = t /\ \A i \in 1..n : E[i] = D[i] BY DEF Pushes
<1>2. \A i \in 1..n : D[i].th = t => Base(D, i) \in Nat /\ Base(D, n) \in Nat /\ Base(D, i) <= Base(D, n)
  <2> SUFFICES ASSUME NEW i \in 1..n, D[i].th = t
               PROVE  Base(D, i) \in Nat /\ Base(D, n) \in Nat /\ Base(D, i) <= Base(D, n)
    OBVIOUS
  <2>1. i \in 1..Len(D) /\ D[i].th = D[n].th BY <1>0, <1>b
  <2>2. Base(D, i) \in Nat /\ Base(D, n) \in Nat BY <1>0, <2>1, InBase
  <2>3. Base(D, i) <= Base(D, n) BY <1>0, <2>1, BaseGrows
  <2>4. QED BY <2>2, <2>3
<1>3. /\ \A i \in 1..n : EntryOK(Us, E, i)
      /\ \A i, j \in 1..n : i < j => PairOK(E, i, j)
  <2>1. Keeps(Ts, D, n, t, r) BY <1>0, <1>2 DEF Keeps
  <2>2. Good(Ts, D) /\ n \in 1..Len(D) /\ t \in Threads /\ r \in ThreadSet /\ Starts(D, E, n)
    BY <1>0, <1>1 DEF Starts
  <2>3. /\ \A i \in 1..n : EntryOK(Put(Ts, t, r), E, i)
        /\ \A i, j \in 1..n : i < j => PairOK(E, i, j)
    BY ONLY <2>1, <2>2, EntriesKept
  <2>4. Put(Ts, t, r) = Us BY DEF Put
  <2>5. QED BY <2>3, <2>4
<1>4. \A u \in Threads \ {t} : ThreadOK(Us[u], E, u)
  <2>1. /\ \A i \in (n + 1)..Len(D) : D[i].th = t
        /\ Len(E) >= n /\ \A i \in (n + 1)..Len(E) : E[i].th = t
    BY <1>0, <1>1
  <2>2. QED BY <1>0, <1>1, <2>1, OthersKept
<1>5. Us[t] = r /\ Us \in [Threads -> ThreadSet] BY <1>0
<1>6. EntryOK(Us, E, n + 1)
  <2>1. n + 1 # 1 /\ E[n + 1].th = t BY <1>0, <1>1
  <2>2. QED BY <1>5, <2>1 DEF EntryOK
<1>7. ASSUME NEW i \in 1..n PROVE PairOK(E, i, n + 1)
  <2> SUFFICES ASSUME D[i].th = t
               PROVE  (\A k \in i..(n + 1) : E[k].th = t) /\ Base(E, i) <= In(E, n + 1)
    BY <1>0, <1>1 DEF PairOK
  <2>1. \A k \in i..n : D[k].th = t
    <3>1. CASE i = n BY <1>0, <3>1
    <3>2. CASE i < n
      <4>1. PairOK(D, i, n) BY <1>0, <3>2 DEF Good
      <4>2. QED BY <1>b, <4>1 DEF PairOK
    <3>3. QED BY <1>0, <3>1, <3>2
  <2>2. \A k \in i..(n + 1) : E[k].th = t BY <1>0, <1>1, <2>1
  <2>3. D[i].kind = "execute" => i > 1 BY <1>0 DEF Good, EntryOK
  <2>4. Base(E, i) = Base(D, i) BY <1>0, <1>1, <2>3, BaseSame
  <2>5. In(E, n + 1) \in Int
    <3>1. E[n + 1] \in EntrySet /\ E[n] \in EntrySet BY <1>0, <1>1
    <3>2. QED BY <3>1, <1>0 DEF In, Base, EntrySet
  <2>6. QED BY <1>2, <2>2, <2>4, <2>5
<1>8. \A i, j \in 1..(n + 1) : i < j => PairOK(E, i, j)
  <2> SUFFICES ASSUME NEW i \in 1..(n + 1), NEW j \in 1..(n + 1), i < j PROVE PairOK(E, i, j) OBVIOUS
  <2>1. CASE j = n + 1 BY <1>0, <1>7, <2>1
  <2>2. CASE j # n + 1 BY <1>0, <1>3, <2>2
  <2>3. QED BY <2>1, <2>2
<1>9. ThreadOK(r, E, t)
  <2>1. Len(r.cis) >= 1 /\ r.cis[1].c /\ ~r.cis[1].calling
    <3>1. 1 \in 1..Base(D, n) BY <1>0, InBase
    <3>2. ThreadOK(Ts[t], D, t) BY <1>0 DEF Good
    <3>3. r.cis[1] = Ts[t].cis[1] BY <3>1
    <3>4. Len(r.cis) >= 1
      <4>1. Base(D, n) \in Nat BY <1>0, InBase
      <4>2. QED BY <1>0, <3>1, <4>1
    <3>5. QED BY <3>2, <3>3, <3>4 DEF ThreadOK
  <2>2. ~Absent(E, t) BY <1>0, <1>1 DEF Absent
  <2>3. ASSUME NEW i \in 1..Len(E), Last(E, t, i) PROVE i = n + 1 BY <1>0, <1>1, <2>3 DEF Last
  <2>4. QED BY <1>1, <2>1, <2>2, <2>3 DEF ThreadOK
<1>10. \A i \in 1..(n + 1) : EntryOK(Us, E, i)
  <2>1. \A i \in 1..(n + 1) : i \in 1..n \/ i = n + 1 BY <1>0
  <2>2. QED BY <1>3, <1>6, <2>1
<1>11. \A u \in Threads : ThreadOK(Us[u], E, u) BY <1>4, <1>5, <1>9
<1>12. Len(E) > 0 BY <1>0, <1>1
<1> HIDE DEF Us
<1>13. Good(Us, E) BY <1>1, <1>5, <1>8, <1>10, <1>11, <1>12 DEF Good
<1>14. QED BY <1>13 DEF Us, Put

\* How an entry of each kind changes what is counted.
Tallied(r, q, kind, n) ==
    /\ r.nCcalls = IF kind = "call" THEN q.nCcalls + 1 ELSE q.nCcalls
    /\ r.allowhook = (q.allowhook /\ kind \notin {"hook", "gc"})
    /\ kind # "pcall" => r.errfunc = q.errfunc
    /\ r.errorJmp = IF kind \in Protected THEN n + 1 ELSE q.errorJmp
Sized(r) == 2 <= r.size_ci /\ r.size_ci <= 2 * LUA_MAXCALLS /\ Len(r.cis) <= r.size_ci

\* What is known of the entry at the top and of its thread.
LEMMA AtTop ==
    ASSUME NEW Ts, NEW D, Good(Ts, D), NEW n, Len(D) = n, NEW t, D[n].th = t
    PROVE  /\ n \in Nat /\ n >= 1 /\ t \in Threads /\ Ts[t] \in ThreadSet /\ ThreadOK(Ts[t], D, t)
           /\ D \in Seq(EntrySet) /\ D[n] \in EntrySet /\ EntryOK(Ts, D, n) /\ Len(Ts[t].cis) \in Nat
           /\ Base(D, n) \in Nat /\ 1 <= Base(D, n) /\ Base(D, n) <= Len(Ts[t].cis)
           /\ Reached(Ts[t].cis, D, n, Len(Ts[t].cis)) /\ ~Ts[t].cis[Base(D, n)].calling
           /\ Counted(D, t, n, Ts[t].nCcalls, Ts[t].allowhook, Ts[t].errfunc, Ts[t].errorJmp)
<1>1. n \in Nat /\ n >= 1 /\ n \in 1..Len(D) /\ D \in Seq(EntrySet) /\ Ts \in [Threads -> ThreadSet] BY DEF Good
<1>2. D[n] \in EntrySet BY <1>1
<1>3. t \in Threads BY <1>2 DEF EntrySet
<1>4. Ts[t] \in ThreadSet /\ ThreadOK(Ts[t], D, t) BY <1>1, <1>3 DEF Good
<1>5. EntryOK(Ts, D, n) BY <1>1 DEF Good
<1>6. Len(Ts[t].cis) \in Nat BY <1>4 DEF ThreadSet
<1>7. Base(D, n) \in Nat BY <1>1, InBase
<1>8. 1 <= Base(D, n) /\ Base(D, n) <= Len(Ts[t].cis) /\ ~Ts[t].cis[Base(D, n)].calling
  BY <1>5 DEF EntryOK, FramesOK
<1>9. Last(D, t, n) BY <1>1 DEF Last
<1>10. Reached(Ts[t].cis, D, n, Len(Ts[t].cis)) BY <1>1, <1>4, <1>9 DEF ThreadOK
<1>11. QED BY <1>1, <1>2, <1>3, <1>4, <1>5, <1>6, <1>7, <1>8, <1>10 DEF ThreadOK

\* What is counted after a push, as a fact about the thread.
LEMMA PushCounted ==
    ASSUME NEW Ts, NEW D, Good(Ts, D), NEW n, NEW t, NEW E, Pushes(D, E, n, t), NEW r,
           Tallied(r, Ts[t], E[n + 1].kind, n)
    PROVE  Counted(E, t, n + 1, r.nCcalls, r.allowhook, r.errfunc, r.errorJmp)
<1> DEFINE q == Ts[t]
<1>1. n \in Nat /\ q \in ThreadSet /\ Counted(D, t, n, q.nCcalls, q.allowhook, q.errfunc, q.errorJmp)
  BY AtTop DEF Pushes
<1>2. (\A i \in 1..n : E[i] = D[i]) /\ E[n + 1].th = t BY DEF Pushes
<1>3. Counted(E, t, n, q.nCcalls, q.allowhook, q.errfunc, q.errorJmp) BY <1>1, <1>2, CountedSame
<1>4. r.nCcalls = Calls(E, t, n + 1) BY <1>1, <1>2, <1>3, CallsNext DEF Counted, Tallied
<1>5. r.allowhook = Quiet(E, t, n + 1)
  <2>1. q.allowhook = Quiet(E, t, n) BY <1>3 DEF Counted
  <2>2. \A i \in 1..(n + 1) : i \in 1..n \/ i = n + 1 BY <1>1
  <2>3. \A i \in 1..n : i \in 1..(n + 1) BY <1>1
  <2>4. n + 1 \in 1..(n + 1) BY <1>1
  <2>5. Quiet(E, t, n + 1) = (Quiet(E, t, n) /\ E[n + 1].kind \notin {"hook", "gc"})
    BY <1>2, <2>2, <2>3, <2>4 DEF Quiet
  <2>6. QED BY <2>1, <2>5 DEF Tallied
<1>6. Catches(E, t, n + 1, r.errorJmp)
  <2>1. Catches(E, t, n, q.errorJmp) BY <1>3 DEF Counted
  <2>2. \A i \in 1..(n + 1) : i \in 1..n \/ i = n + 1 BY <1>1
  <2>3. QED BY <1>1, <1>2, <2>1, <2>2 DEF Catches, Tallied
<1>7. ASSUME \A i \in 1..(n + 1) : E[i].th = t => E[i].kind # "pcall" PROVE r.errfunc = "none"
  <2>1. E[n + 1].kind # "pcall" /\ \A i \in 1..n : E[i].th = t => E[i].kind # "pcall" BY <1>1, <1>2, <1>7
  <2>2. QED BY <1>3, <2>1 DEF Counted, Tallied
<1>8. QED BY <1>4, <1>5, <1>6, <1>7 DEF Counted

\* Entries that enter no function are pushed.
LEMMA PushPlain ==
    ASSUME NEW Ts, NEW D, Good(Ts, D), NEW n, NEW t, NEW E, Pushes(D, E, n, t), NEW r \in ThreadSet,
           E[n + 1].kind \notin {"execute", "cfunc", "resume"}, E[n + 1].at = Len(r.cis),
           r.cis = Ts[t].cis, Stands(E, n + 1), SavedOK(E, n + 1), Sized(r),
           Tallied(r, Ts[t], E[n + 1].kind, n)
    PROVE  Good(Put(Ts, t, r), E)
<1> DEFINE cis == Ts[t].cis
<1>1. /\ n \in Nat /\ n >= 1 /\ Len(cis) \in Nat
      /\ Base(D, n) \in Nat /\ 1 <= Base(D, n) /\ Base(D, n) <= Len(cis)
      /\ Reached(cis, D, n, Len(cis)) /\ ~cis[Base(D, n)].calling /\ EntryOK(Ts, D, n)
  BY AtTop DEF Pushes
<1>2. Base(E, n + 1) = Len(cis) /\ In(E, n + 1) = Len(cis) BY DEF Base, In
<1>3. Base(E, n) = Base(D, n) /\ E[n] = D[n]
  <2>1. n \in 1..n /\ \A i \in 1..n : E[i] = D[i] BY <1>1 DEF Pushes
  <2>2. D[n].kind = "execute" => n > 1 BY <1>1 DEF EntryOK
  <2>3. QED BY <1>1, <2>1, <2>2, BaseSame
<1>4. ~cis[Len(cis)].calling
  <2>1. CASE D[n].kind = "execute"
    <3>1. Region(cis, Base(D, n), Len(cis)) BY <1>1, <2>1 DEF Reached
    <3>2. Len(cis) \in (Base(D, n) + 1)..Len(cis) BY <1>1, <3>1 DEF Region
    <3>3. QED BY <1>1, <3>1, <3>2 DEF Region
  <2>2. CASE D[n].kind # "execute" BY <1>1, <2>2 DEF Reached
  <2>3. QED BY <2>1, <2>2
<1>5. Reached(cis, E, n, Len(cis)) BY <1>1, <1>3 DEF Reached
<1>6. FramesOK(r.cis, E, n + 1)
  <2>1. (n + 1) - 1 = n BY <1>1
  <2>2. QED BY <1>1, <1>2, <1>4, <1>5, <2>1 DEF FramesOK
<1>7. Reached(r.cis, E, n + 1, Len(r.cis)) BY <1>2 DEF Reached
<1>8. /\ Base(D, n) <= Len(r.cis) /\ \A k \in 1..Base(D, n) : r.cis[k] = Ts[t].cis[k]
      /\ Base(D, n) <= In(E, n + 1) /\ 2 <= r.size_ci /\ r.size_ci <= 2 * LUA_MAXCALLS /\ Len(r.cis) <= r.size_ci
  BY <1>1, <1>2 DEF Sized
<1>9. Counted(E, t, n + 1, r.nCcalls, r.allowhook, r.errfunc, r.errorJmp) BY PushCounted
<1>10. QED BY <1>6, <1>7, <1>8, <1>9, Push

\* A C function is entered.
Entered(f) == f.c /\ ~f.yield /\ ~f.calling
IntoC(Ts, D, E, n, t, r) ==
    /\ r \in ThreadSet /\ Sized(r) /\ Tallied(r, Ts[t], E[n + 1].kind, n)
    /\ E[n + 1].kind = "cfunc" /\ E[n + 1].at = Len(r.cis) /\ Stands(E, n + 1)
    /\ Len(r.cis) = Len(Ts[t].cis) + 1 /\ Entered(r.cis[Len(r.cis)])
    /\ \A k \in 1..Len(Ts[t].cis) : r.cis[k] = Ts[t].cis[k]
\* A good state in which luaD_precall has entered a C function is good.
LEMMA PushCfunc ==
    ASSUME NEW Ts, NEW D, Good(Ts, D), NEW n, NEW t, NEW E, Pushes(D, E, n, t), NEW r, IntoC(Ts, D, E, n, t, r)
    PROVE  Good(Put(Ts, t, r), E)
<1> USE DEF IntoC
<1> DEFINE cis == Ts[t].cis
<1>1. /\ n \in Nat /\ n >= 1 /\ Len(cis) \in Nat /\ Ts[t] \in ThreadSet
      /\ Base(D, n) \in Nat /\ 1 <= Base(D, n) /\ Base(D, n) <= Len(cis)
      /\ Reached(cis, D, n, Len(cis)) /\ EntryOK(Ts, D, n)
  BY AtTop DEF Pushes
<1> HIDE DEF cis
<1>2. Len(r.cis) = Len(cis) + 1 /\ Entered(r.cis[Len(cis) + 1]) /\ \A k \in 1..Len(cis) : r.cis[k] = cis[k]
  <2>1. Len(r.cis) = Len(cis) + 1 BY DEF cis
  <2>2. QED BY <2>1 DEF cis
<1>3. Base(E, n + 1) = Len(cis) + 1 /\ In(E, n + 1) = Len(cis) BY <1>1, <1>2 DEF Base, In
<1>4. Base(E, n) = Base(D, n) /\ E[n] = D[n]
  <2>1. n \in 1..n /\ \A i \in 1..n : E[i] = D[i] BY <1>1 DEF Pushes
  <2>2. D[n].kind = "execute" => n > 1 BY <1>1 DEF EntryOK
  <2>3. QED BY <1>1, <2>1, <2>2, BaseSame
<1>5. Reached(r.cis, E, n, Len(cis))
  <2>1. Region(cis, Base(D, n), Len(cis)) => Region(r.cis, Base(D, n), Len(cis))
    <3>1. \A k \in (Base(D, n) + 1)..Len(cis) : r.cis[k] = cis[k] BY <1>1, <1>2
    <3>2. QED BY <3>1 DEF Region
  <2>2. QED BY <1>1, <1>4, <2>1 DEF Reached
<1>6. FramesOK(r.cis, E, n + 1)
  <2>1. (n + 1) - 1 = n BY <1>1
  <2>2. /\ E[n + 1].at = Len(cis) + 1 /\ E[n + 1].at > 1
        /\ Entered(r.cis[E[n + 1].at]) /\ Entered(r.cis[Base(E, n + 1)])
    <3>1. E[n + 1].at = Len(cis) + 1 BY <1>2
    <3>2. Len(cis) \in Nat /\ Len(cis) >= 1 BY <1>1 DEF cis
    <3>3. QED BY ONLY <1>2, <1>3, <3>1, <3>2
  <2>3. 1 <= Base(E, n + 1) /\ Base(E, n + 1) <= Len(r.cis) BY <1>1, <1>2, <1>3
  <2>4. Reached(r.cis, E, (n + 1) - 1, In(E, n + 1)) BY <1>3, <1>5, <2>1
  <2>5. QED BY ONLY <2>2, <2>3, <2>4 DEF FramesOK, Entered
<1>7. Reached(r.cis, E, n + 1, Len(r.cis)) BY <1>2, <1>3 DEF Reached
<1>8. /\ Base(D, n) <= Len(r.cis) /\ \A k \in 1..Base(D, n) : r.cis[k] = Ts[t].cis[k]
      /\ Base(D, n) <= In(E, n + 1) /\ 2 <= r.size_ci /\ r.size_ci <= 2 * LUA_MAXCALLS /\ Len(r.cis) <= r.size_ci
  BY <1>1, <1>2, <1>3 DEF Sized, cis
<1>9. Counted(E, t, n + 1, r.nCcalls, r.allowhook, r.errfunc, r.errorJmp) BY PushCounted
<1>10. SavedOK(E, n + 1) BY DEF SavedOK, Protected
<1>11. Good(Ts, D) /\ Pushes(D, E, n, t) /\ r \in ThreadSet /\ Stands(E, n + 1) OBVIOUS
<1>12. QED BY ONLY <1>6, <1>7, <1>8, <1>9, <1>10, <1>11, Push

\* Lua code is entered, or a coroutine goes on, in a luaV_execute of its own.
IntoLua(Ts, D, E, n, t, r) ==
    /\ r \in ThreadSet /\ Sized(r) /\ Tallied(r, Ts[t], E[n + 1].kind, n)
    /\ E[n + 1].kind = "execute" /\ Stands(E, n + 1)
    /\ Region(r.cis, Base(D, n), Len(r.cis))
    /\ \A k \in 1..Base(D, n) : r.cis[k] = Ts[t].cis[k]
\* A good state in which a luaV_execute has been entered is good.
LEMMA PushExecute ==
    ASSUME NEW Ts, NEW D, Good(Ts, D), NEW n, NEW t, NEW E, Pushes(D, E, n, t), NEW r, IntoLua(Ts, D, E, n, t, r)
    PROVE  Good(Put(Ts, t, r), E)
<1> USE DEF IntoLua
<1> DEFINE cis == Ts[t].cis
<1>1. /\ n \in Nat /\ n >= 1 /\ Len(cis) \in Nat /\ Ts[t] \in ThreadSet
      /\ Base(D, n) \in Nat /\ 1 <= Base(D, n) /\ Base(D, n) <= Len(cis)
      /\ ~cis[Base(D, n)].calling /\ EntryOK(Ts, D, n)
  BY AtTop DEF Pushes
<1>2. E[n] = D[n] /\ (n + 1) - 1 = n BY <1>1 DEF Pushes
<1>3. D[n].kind \in {"call", "resume"} BY <1>2 DEF Stands, On
<1>4. /\ Base(D, n) = IF D[n].kind = "resume" THEN 1 ELSE D[n].at
      /\ Base(E, n) = Base(D, n)
  BY <1>2, <1>3 DEF Base
<1>5. Base(E, n + 1) = Base(D, n) /\ In(E, n + 1) = Base(D, n) BY <1>2, <1>4 DEF Base, In
<1>6. Len(r.cis) \in Nat /\ Base(D, n) < Len(r.cis) BY DEF ThreadSet, Region
<1>7. FramesOK(r.cis, E, n + 1)
  <2>1. Reached(r.cis, E, n, Base(D, n)) BY <1>2, <1>3, <1>4 DEF Reached
  <2>2. ~r.cis[Base(D, n)].calling BY <1>1
  <2>3. QED BY <1>1, <1>2, <1>5, <1>6, <2>1, <2>2 DEF FramesOK
<1>8. Reached(r.cis, E, n + 1, Len(r.cis)) BY <1>5 DEF Reached
<1>9. /\ Base(D, n) <= Len(r.cis) /\ Base(D, n) <= In(E, n + 1)
      /\ 2 <= r.size_ci /\ r.size_ci <= 2 * LUA_MAXCALLS /\ Len(r.cis) <= r.size_ci
  BY <1>1, <1>5, <1>6 DEF Sized
<1>10. Counted(E, t, n + 1, r.nCcalls, r.allowhook, r.errfunc, r.errorJmp) BY PushCounted
<1>11. SavedOK(E, n + 1) BY DEF SavedOK, Protected
<1>12. QED BY <1>7, <1>8, <1>9, <1>10, <1>11, Push

\* Entries go, and their thread is where the lowest of them started from.
LEMMA Pop ==
    ASSUME NEW Ts, NEW D, Good(Ts, D), NEW n \in Nat, n < Len(D), n >= 1, NEW t,
           \A i \in n..Len(D) : D[i].th = t,
           NEW r \in ThreadSet, Len(r.cis) = In(D, n + 1), \A k \in 1..In(D, n + 1) : r.cis[k] = Ts[t].cis[k],
           Sized(r), Counted(D, t, n, r.nCcalls, r.allowhook, r.errfunc, r.errorJmp)
    PROVE  Good(Put(Ts, t, r), SubSeq(D, 1, n))
<1> DEFINE E == SubSeq(D, 1, n)
<1>1. /\ t \in Threads /\ D \in Seq(EntrySet) /\ EntryOK(Ts, D, n + 1) /\ ThreadOK(Ts[t], D, t)
      /\ n \in 1..Len(D) /\ n + 1 \in 1..Len(D) /\ n + 1 # 1 /\ D[n].th = t /\ D[n + 1].th = t
  <2>1. /\ D \in Seq(EntrySet) /\ n \in 1..Len(D) /\ n + 1 \in 1..Len(D) /\ n + 1 # 1
        /\ D[n].th = t /\ D[n + 1].th = t
    BY DEF Good
  <2>2. D[n] \in EntrySet BY <2>1
  <2>3. t \in Threads BY <2>1, <2>2 DEF EntrySet
  <2>4. QED BY <2>1, <2>3 DEF Good
<1>2. Len(E) = n /\ \A i \in 1..n : E[i] = D[i] BY <1>1
<1>3. \A i \in 1..n : D[i].th = t => Base(D, i) \in Nat /\ Base(D, i) <= In(D, n + 1)
  <2> SUFFICES ASSUME NEW i \in 1..n, D[i].th = t PROVE Base(D, i) \in Nat /\ Base(D, i) <= In(D, n + 1)
    OBVIOUS
  <2>1. i \in 1..Len(D) /\ i < n + 1 BY <1>1
  <2>2. PairOK(D, i, n + 1) BY <1>1, <2>1 DEF Good
  <2>3. Base(D, i) \in Nat BY <2>1, InBase
  <2>4. QED BY <2>2, <2>3 DEF PairOK
<1>4. In(D, n + 1) \in Nat /\ 1 <= Base(D, n) /\ Base(D, n) \in Nat BY <1>1, InBase
<1>5. \A i \in 1..n : D[i].th = t =>
          Base(D, i) <= Len(r.cis) /\ \A k \in 1..Base(D, i) : r.cis[k] = Ts[t].cis[k]
  BY <1>3, <1>4
<1>6. D[n].kind = "execute" => n > 1 BY <1>1 DEF Good, EntryOK
<1>7. Base(E, n) = Base(D, n) /\ E[n] = D[n]
  <2>1. n \in 1..n BY <1>1
  <2>2. QED BY <1>2, <1>6, <2>1, BaseSame
<1> HIDE DEF E
<1>8. ThreadOK(r, E, t)
  <2>1. Len(r.cis) >= 1 /\ r.cis[1].c /\ ~r.cis[1].calling
    <3>1. n \in 1..n /\ 1 \in 1..Base(D, n) BY <1>1, <1>4
    <3>2. Base(D, n) <= Len(r.cis) /\ r.cis[1] = Ts[t].cis[1] BY <1>5, <3>1
    <3>3. QED BY <1>1, <1>4, <3>2 DEF ThreadOK
  <2>2. ~Absent(E, t) BY <1>1, <1>2 DEF Absent
  <2>3. ASSUME NEW i \in 1..Len(E), Last(E, t, i) PROVE i = n BY <1>1, <1>2, <2>3 DEF Last
  <2>4. Reached(r.cis, E, n, Len(r.cis))
    <3>1. D[n + 1].kind # "resume"
      <4>1. Stands(D, n + 1) BY <1>1 DEF EntryOK
      <4>2. n \in 1..((n + 1) - 1) BY <1>1
      <4>3. QED BY <4>1, <4>2 DEF Stands
    <3>2. (n + 1) - 1 = n OBVIOUS
    <3>3. Reached(Ts[t].cis, D, n, In(D, n + 1)) BY <1>1, <3>1, <3>2 DEF EntryOK, FramesOK
    <3>4. Region(Ts[t].cis, Base(D, n), In(D, n + 1)) => Region(r.cis, Base(D, n), In(D, n + 1))
      <4>1. \A k \in (Base(D, n) + 1)..In(D, n + 1) : r.cis[k] = Ts[t].cis[k] BY <1>4
      <4>2. QED BY <4>1 DEF Region
    <3>5. QED BY <1>7, <3>3, <3>4 DEF Reached
  <2>5. Counted(E, t, n, r.nCcalls, r.allowhook, r.errfunc, r.errorJmp) BY <1>2, CountedSame
  <2>6. QED BY <1>2, <2>1, <2>2, <2>3, <2>4, <2>5 DEF ThreadOK, Sized
<1>9. \A i \in (n + 1)..Len(D) : D[i].th = t BY <1>1
<1>10. QED BY <1>1, <1>5, <1>8, <1>9, Cut DEF E

\* All entries of a coroutine go, which is then asleep.
LEMMA Leave ==
    ASSUME NEW Ts, NEW D, Good(Ts, D), NEW m \in Nat, m >= 1, m < Len(D), NEW t, D[m + 1].th = t,
           D[m + 1].kind = "resume", \A i \in (m + 1)..Len(D) : D[i].th = t,
           NEW r \in ThreadSet, Len(r.cis) >= 1, r.cis[1] = Ts[t].cis[1], Asleep(r.cis), Sized(r),
           r.nCcalls = 0, r.allowhook = TRUE, r.errfunc = "none", r.errorJmp = 0
    PROVE  Good(Put(Ts, t, r), SubSeq(D, 1, m))
<1> DEFINE E == SubSeq(D, 1, m)
<1>1. D \in Seq(EntrySet) /\ Len(D) \in Nat /\ m \in 1..Len(D) /\ m + 1 \in 1..Len(D) /\ m + 1 # 1
  BY DEF Good
<1>2. D[m + 1] \in EntrySet /\ EntryOK(Ts, D, m + 1) BY <1>1 DEF Good
<1>3. t \in Threads BY <1>2 DEF EntrySet
<1>4. \A i \in 1..m : D[i].th # t
  <2>1. Stands(D, m + 1) /\ (m + 1) - 1 = m BY <1>1, <1>2 DEF EntryOK
  <2>2. QED BY <2>1 DEF Stands
<1>5. Len(E) = m /\ E \in Seq(EntrySet) /\ \A i \in 1..m : E[i] = D[i] BY <1>1
<1> HIDE DEF E
<1>6. ThreadOK(r, E, t)
  <2>1. r.cis[1].c /\ ~r.cis[1].calling
    <3>1. ThreadOK(Ts[t], D, t) BY <1>3 DEF Good
    <3>2. QED BY <3>1 DEF ThreadOK
  <2>2. \A i \in 1..Len(E) : ~Last(E, t, i) BY <1>4, <1>5 DEF Last
  <2>3. Counted(E, t, Len(E), r.nCcalls, r.allowhook, r.errfunc, r.errorJmp)
    <3>a. \A i \in 1..m : E[i].th # t BY <1>4, <1>5
    <3>1. Calls(E, t, m) = 0 /\ Quiet(E, t, m) = TRUE /\ Catches(E, t, m, 0) BY <1>1, <3>a, CountedNone
    <3>2. QED BY <1>5, <3>1 DEF Counted
  <2>4. QED BY <2>1, <2>2, <2>3 DEF ThreadOK, Sized
<1>7. \A i \in 1..m : D[i].th = t =>
          Base(D, i) <= Len(r.cis) /\ \A k \in 1..Base(D, i) : r.cis[k] = Ts[t].cis[k]
  BY <1>4
<1>8. QED BY <1>1, <1>3, <1>6, <1>7, Cut DEF E

\* The thread at the top changes, and the C stack does not.
LEMMA Stay ==
    ASSUME NEW Ts, NEW D, Good(Ts, D), NEW n, n = Len(D), NEW t, D[n].th = t,
           NEW r \in ThreadSet, Sized(r), Base(D, n) <= Len(r.cis),
           \A k \in 1..Base(D, n) : r.cis[k] = Ts[t].cis[k], Reached(r.cis, D, n, Len(r.cis)),
           Counted(D, t, n, r.nCcalls, r.allowhook, r.errfunc, r.errorJmp)
    PROVE  Good(Put(Ts, t, r), D)
<1>1. /\ n \in Nat /\ n >= 1 /\ t \in Threads /\ ThreadOK(Ts[t], D, t) /\ D \in Seq(EntrySet)
      /\ Base(D, n) \in Nat /\ 1 <= Base(D, n)
  BY AtTop
<1>2. n \in 1..Len(D) /\ SubSeq(D, 1, n) = D /\ \A i \in (n + 1)..Len(D) : D[i].th = t BY <1>1
<1>3. ASSUME NEW i \in 1..n, D[i].th = t
      PROVE  Base(D, i) <= Len(r.cis) /\ \A k \in 1..Base(D, i) : r.cis[k] = Ts[t].cis[k]
  <2>1. i \in 1..Len(D) /\ D[i].th = D[n].th BY <1>1, <1>3
  <2>2. Base(D, i) \in Nat BY <2>1, InBase
  <2>3. Base(D, i) <= Base(D, n) BY <1>2, <2>1, BaseGrows
  <2>4. Len(r.cis) \in Nat BY DEF ThreadSet
  <2>5. QED BY <1>1, <2>2, <2>3, <2>4
<1>4. ThreadOK(r, D, t)
  <2>1. Len(r.cis) >= 1 /\ r.cis[1].c /\ ~r.cis[1].calling
    <3>1. 1 \in 1..Base(D, n) /\ Len(r.cis) \in Nat BY <1>1 DEF ThreadSet
    <3>2. r.cis[1] = Ts[t].cis[1] /\ Len(r.cis) >= 1 BY <1>1, <3>1
    <3>3. QED BY <1>1, <3>2 DEF ThreadOK
  <2>2. ~Absent(D, t) BY <1>1, <1>2 DEF Absent
  <2>3. ASSUME NEW i \in 1..Len(D), Last(D, t, i) PROVE i = n BY <1>1, <2>3 DEF Last
  <2>4. QED BY <2>1, <2>2, <2>3 DEF ThreadOK, Sized
<1>5. ThreadOK(r, SubSeq(D, 1, n), t) BY <1>2, <1>4
<1>6. \A i \in 1..n : D[i].th = t =>
          Base(D, i) <= Len(r.cis) /\ \A k \in 1..Base(D, i) : r.cis[k] = Ts[t].cis[k]
  BY <1>3
<1>7. Good(Put(Ts, t, r), SubSeq(D, 1, n)) BY <1>1, <1>2, <1>5, <1>6, Cut
<1>8. QED BY <1>2, <1>7

\* A coroutine that is not running is resumed.
LEMMA Begin ==
    ASSUME NEW Ts, NEW D, Good(Ts, D), NEW n, Len(D) = n, NEW t \in Coroutines, Absent(D, t),
           NEW E \in Seq(EntrySet), Len(E) = n + 1, \A i \in 1..n : E[i] = D[i],
           E[n + 1].th = t, E[n + 1].kind = "resume", D[n].kind = "cfunc",
           NEW r \in ThreadSet, Len(r.cis) = 1, r.cis[1] = Ts[t].cis[1], Sized(r),
           SavedOK(E, n + 1), Tallied(r, Ts[t], "resume", n)
    PROVE  Good(Put(Ts, t, r), E)
<1> DEFINE Us == [Ts EXCEPT ![t] = r]
<1>1. n \in Nat /\ n >= 1 /\ n \in 1..Len(D) /\ Ts \in [Threads -> ThreadSet] /\ t \in Threads
  BY DEF Good, Threads
<1>2. ThreadOK(Ts[t], D, t) /\ \A i \in 1..n : D[i].th # t BY <1>1 DEF Good, Absent
<1>3. n >= 2 /\ E[n] = D[n]
  <2>1. EntryOK(Ts, D, n) BY <1>1 DEF Good
  <2>2. QED BY <1>1, <2>1 DEF EntryOK
<1>4. /\ \A i \in 1..n : EntryOK(Us, E, i)
      /\ \A i, j \in 1..n : i < j => PairOK(E, i, j)
  <2>1. Keeps(Ts, D, n, t, r) BY <1>2 DEF Keeps
  <2>2. Good(Ts, D) /\ n \in 1..Len(D) /\ t \in Threads /\ r \in ThreadSet /\ Starts(D, E, n)
    BY <1>1 DEF Starts
  <2>3. /\ \A i \in 1..n : EntryOK(Put(Ts, t, r), E, i)
        /\ \A i, j \in 1..n : i < j => PairOK(E, i, j)
    BY ONLY <2>1, <2>2, EntriesKept
  <2>4. Put(Ts, t, r) = Us BY DEF Put
  <2> HIDE DEF Us
  <2>5. QED BY ONLY <2>3, <2>4
<1>5. \A u \in Threads \ {t} : ThreadOK(Us[u], E, u)
  <2>1. /\ \A i \in (n + 1)..Len(D) : D[i].th = t
        /\ Len(E) >= n /\ \A i \in (n + 1)..Len(E) : E[i].th = t
    BY <1>1
  <2>2. QED BY <1>1, <2>1, OthersKept
<1>6. Us[t] = r /\ Us \in [Threads -> ThreadSet] BY <1>1
<1>7. EntryOK(Us, E, n + 1)
  <2>1. Stands(E, n + 1)
    <3>1. (n + 1) - 1 = n /\ n + 1 # 2 /\ n + 1 > 1 BY <1>1, <1>3
    <3>2. \A j \in 1..n : E[j].th # t BY <1>2
    <3>3. n + 1 \in 1..(n + 1) BY <1>1
    <3>4. QED BY <1>3, <3>1, <3>2, <3>3 DEF Stands, On
  <2>2. FramesOK(r.cis, E, n + 1)
    <3>1. Base(E, n + 1) = 1 BY DEF Base
    <3>2. ~r.cis[1].calling BY <1>2 DEF ThreadOK
    <3>3. QED BY <3>1, <3>2 DEF FramesOK
  <2>3. QED BY <1>1, <1>6, <2>1, <2>2 DEF EntryOK
<1>8. \A i, j \in 1..(n + 1) : i < j => PairOK(E, i, j)
  <2> SUFFICES ASSUME NEW i \in 1..(n + 1), NEW j \in 1..(n + 1), i < j PROVE PairOK(E, i, j) OBVIOUS
  <2>1. CASE j = n + 1
    <3>1. i \in 1..n BY <1>1, <2>1
    <3>2. E[i].th # E[j].th BY <1>2, <2>1, <3>1
    <3>3. QED BY <3>2 DEF PairOK
  <2>2. CASE j # n + 1 BY <1>1, <1>4, <2>2
  <2>3. QED BY <2>1, <2>2
<1>9. ThreadOK(r, E, t)
  <2>1. ~Absent(E, t)
    <3>1. n + 1 \in 1..Len(E) BY <1>1
    <3>2. QED BY <3>1 DEF Absent
  <2>2. ASSUME NEW i \in 1..Len(E), Last(E, t, i) PROVE i = n + 1 BY <1>1, <2>2 DEF Last
  <2>3. Reached(r.cis, E, n + 1, Len(r.cis)) BY DEF Reached, Base
  <2>4. Counted(E, t, n + 1, r.nCcalls, r.allowhook, r.errfunc, r.errorJmp)
    <3>1. Ts[t] \in ThreadSet BY <1>1
    <3>2. Counted(D, t, n, Ts[t].nCcalls, Ts[t].allowhook, Ts[t].errfunc, Ts[t].errorJmp) BY <1>2 DEF ThreadOK
    <3>3. Ts[t].nCcalls = 0 /\ Ts[t].allowhook = TRUE /\ Ts[t].errfunc = "none"
      <4>1. Calls(D, t, n) = 0 /\ Quiet(D, t, n) = TRUE BY <1>1, <1>2, CountedNone
      <4>2. QED BY <1>2, <3>2, <4>1 DEF Counted
    <3>4. \A i \in 1..(n + 1) : i \in 1..n \/ i = n + 1 BY <1>1
    <3>5. \A i \in 1..(n + 1) : E[i].th = t => i = n + 1 BY <1>2, <3>4
    <3>6. Calls(E, t, n + 1) = 0 BY <1>1, <3>5, CallsNone
    <3>7. Quiet(E, t, n + 1) BY <3>5 DEF Quiet
    <3>8. Catches(E, t, n + 1, n + 1) BY <1>1 DEF Catches, Protected
    <3>9. r.nCcalls = 0 /\ r.allowhook = TRUE /\ r.errfunc = "none" /\ r.errorJmp = n + 1
      BY <3>3 DEF Tallied, Protected
    <3>10. QED BY <3>6, <3>7, <3>8, <3>9 DEF Counted
  <2>5. QED BY <1>2, <2>1, <2>2, <2>3, <2>4 DEF ThreadOK, Sized
<1>10. \A i \in 1..(n + 1) : EntryOK(Us, E, i)
  <2>1. \A i \in 1..(n + 1) : i \in 1..n \/ i = n + 1 BY <1>1
  <2>2. QED BY <1>4, <1>7, <2>1
<1>11. \A u \in Threads : ThreadOK(Us[u], E, u) BY <1>5, <1>6, <1>9
<1>12. Len(E) > 0 BY <1>1
<1> HIDE DEF Us
<1>13. Good(Us, E) BY <1>6, <1>8, <1>10, <1>11, <1>12 DEF Good
<1>14. QED BY <1>13 DEF Us, Put

-----------------------------------------------------------------------------
(* The operators on states.                                                    *)

St(Ts, D, p)  == [T |-> Ts, C |-> D, panic |-> p]
Made(Ts, kind, t, saved) == Entry(kind, t, Len(Ts[t].cis), saved)
Handler(q) == [cis |-> Len(q.cis), nCcalls |-> q.nCcalls, allowhook |-> q.allowhook,
               errfunc |-> q.errfunc, previous |-> q.errorJmp]

\* The parts of a state.
LEMMA Fields ==
    ASSUME NEW Ts, NEW D, NEW p
    PROVE  /\ St(Ts, D, p).T = Ts /\ St(Ts, D, p).C = D /\ St(Ts, D, p).panic = p
           /\ Innermost(St(Ts, D, p)) = D[Len(D)] /\ \A t : Depth(St(Ts, D, p), t) = Len(Ts[t].cis)
  BY DEF St, Innermost, Depth

\* PushC appends the entry that it makes and leaves the threads.
LEMMA PushCIs ==
    ASSUME NEW Ts, NEW D, NEW p, NEW kind, NEW t, NEW saved
    PROVE  PushC(St(Ts, D, p), kind, t, saved) = St(Ts, Append(D, Made(Ts, kind, t, saved)), p)
<1>1. Depth(St(Ts, D, p), t) = Len(Ts[t].cis) BY Fields
<1>2. QED BY <1>1 DEF PushC, St, Made

\* PopC takes the last entry and leaves the threads.
LEMMA PopCIs ==
    ASSUME NEW Ts, NEW D, NEW p
    PROVE  PopC(St(Ts, D, p)) = St(Ts, SubSeq(D, 1, Len(D) - 1), p)
  BY DEF PopC, St

\* luaD_rawrunprotected pushes what restores the thread and makes it the place to jump to.
LEMMA RawIs ==
    ASSUME NEW Ts, NEW D, NEW p, NEW kind, NEW t
    PROVE  rawrunprotected(St(Ts, D, p), kind, t)
             = St(Put(Ts, t, [Ts[t] EXCEPT !.errorJmp = Len(D) + 1]), Append(D, Made(Ts, kind, t, Handler(Ts[t]))), p)
<1>1. St(Ts, D, p).T[t] = Ts[t] /\ Len(St(Ts, D, p).C) = Len(D) BY Fields
<1>2. PushC(St(Ts, D, p), kind, t, Handler(Ts[t])) = St(Ts, Append(D, Made(Ts, kind, t, Handler(Ts[t]))), p)
  BY PushCIs
<1>3. rawrunprotected(St(Ts, D, p), kind, t)
        = [PushC(St(Ts, D, p), kind, t, Handler(Ts[t])) EXCEPT !.T[t].errorJmp = Len(D) + 1]
  BY <1>1 DEF rawrunprotected, Handler
<1> DEFINE E == Append(D, Made(Ts, kind, t, Handler(Ts[t])))
           v == Len(D) + 1
           A == [Ts EXCEPT ![t] = [Ts[t] EXCEPT !.errorJmp = v]]
<1> HIDE DEF E, v
<1>4. [St(Ts, E, p) EXCEPT !.T[t].errorJmp = v] = [St(Ts, E, p) EXCEPT !.T = A] BY DEF St
<1> HIDE DEF A
<1>5. [St(Ts, E, p) EXCEPT !.T = A] = St(A, E, p) BY DEF St
<1>6. QED BY <1>2, <1>3, <1>4, <1>5 DEF E, v, A, Put

\* What a thread is when a protected entry of it returns.
Unhandled(q, e) == [q EXCEPT !.errorJmp = e.saved.previous,
                             !.errfunc = IF e.kind = "pcall" THEN e.saved.errfunc ELSE @]
\* A protected entry that returns leaves its thread the handler before, and the rest as it is.
LEMMA UnprotectedIs ==
    ASSUME NEW Ts, NEW D, NEW p, NEW e, D[Len(D)] = e, Ts \in [Threads -> ThreadSet], e.th \in Threads
    PROVE  Unprotected(St(Ts, D, p))
             = St(Put(Ts, e.th, Unhandled(Ts[e.th], e)), SubSeq(D, 1, Len(D) - 1), p)
<1> DEFINE E == SubSeq(D, 1, Len(D) - 1)
           v == e.saved.previous
           w == e.saved.errfunc
<1>1. Unprotected(St(Ts, D, p)) = [St(Ts, E, p) EXCEPT !.T[e.th].errorJmp = v,
                                      !.T[e.th].errfunc = IF e.kind = "pcall" THEN w ELSE @]
  <2>1. Innermost(St(Ts, D, p)) = e BY Fields
  <2>2. PopC(St(Ts, D, p)) = St(Ts, E, p) BY PopCIs
  <2>3. QED BY <2>1, <2>2 DEF Unprotected
<1> HIDE DEF E, v, w
<1> DEFINE k == e.th
           x == e.kind
           A == [Ts EXCEPT ![k] = [Ts[k] EXCEPT !.errorJmp = v, !.errfunc = IF x = "pcall" THEN w ELSE @]]
<1> HIDE DEF k, x
<1>2. [St(Ts, E, p) EXCEPT !.T[k].errorJmp = v, !.T[k].errfunc = IF x = "pcall" THEN w ELSE @]
        = [St(Ts, E, p) EXCEPT !.T = A]
  BY DEF St, k
<1> HIDE DEF A
<1>3. [St(Ts, E, p) EXCEPT !.T = A] = St(A, E, p) BY DEF St
<1>4. QED BY <1>1, <1>2, <1>3 DEF Unhandled, Put, A, E, v, w, k, x

-----------------------------------------------------------------------------
(* An error.                                                                   *)

\* What is assumed of the limits, a fact at a time.
LEMMA Limits ==
    /\ LUA_MAXCCALLS \in Nat /\ LUA_MAXCCALLS >= 1 /\ EXTRACCALLS \in Nat /\ EXTRACCALLS >= 1
    /\ LUA_MAXCALLS \in Nat /\ LUA_MAXCALLS >= 2 /\ BASIC_CI_SIZE \in Nat /\ BASIC_CI_SIZE >= 2
    /\ BASIC_CI_SIZE <= LUA_MAXCALLS /\ Main \notin Coroutines /\ Threads = {Main} \cup Coroutines
    /\ MaxC \in Nat /\ MaxC + 1 = LUA_MAXCCALLS + EXTRACCALLS
<1>1. {LUA_MAXCCALLS, EXTRACCALLS, LUA_MAXCALLS, BASIC_CI_SIZE, MaxSteps} \subseteq Nat \ {0}
  BY CallConstants
<1>2. /\ LUA_MAXCCALLS \in Nat \ {0} /\ EXTRACCALLS \in Nat \ {0} /\ LUA_MAXCALLS \in Nat \ {0}
      /\ BASIC_CI_SIZE \in Nat \ {0}
  BY <1>1
<1>3. BASIC_CI_SIZE > 1 /\ BASIC_CI_SIZE <= LUA_MAXCALLS /\ Main \notin Coroutines BY CallConstants DEF Main
<1>4. QED BY <1>2, <1>3 DEF Threads, MaxC

\* restore_stack_limit leaves the CallInfo as they are, and keeps room for them.
LEMMA StackLimit ==
    ASSUME NEW q \in ThreadSet, Sized(q)
    PROVE  LET r == restore_stack_limit(q)
           IN /\ r \in ThreadSet /\ Sized(r) /\ r.cis = q.cis /\ r.nCcalls = q.nCcalls
              /\ r.allowhook = q.allowhook /\ r.errfunc = q.errfunc /\ r.errorJmp = q.errorJmp
<1> DEFINE n == IF q.size_ci > LUA_MAXCALLS /\ Len(q.cis) < LUA_MAXCALLS THEN LUA_MAXCALLS ELSE q.size_ci
           r == [q EXCEPT !.extra = FALSE, !.size_ci = n]
<1>1. restore_stack_limit(q) = r BY DEF restore_stack_limit, ThreadSet
<1>2. Len(q.cis) \in Nat /\ q.size_ci \in Nat BY DEF ThreadSet
<1>3. n \in Nat /\ 2 <= n /\ n <= 2 * LUA_MAXCALLS /\ Len(q.cis) <= n BY <1>2, Limits DEF Sized
<1> HIDE DEF n
<1>4. /\ r \in ThreadSet /\ r.cis = q.cis /\ r.size_ci = n /\ r.nCcalls = q.nCcalls
      /\ r.allowhook = q.allowhook /\ r.errfunc = q.errfunc /\ r.errorJmp = q.errorJmp
  BY <1>3 DEF ThreadSet
<1>5. QED BY <1>1, <1>3, <1>4 DEF Sized

\* What luaD_throw makes of a thread.
LEMMA ErrorIs ==
    ASSUME NEW q \in ThreadSet, Sized(q), Len(q.cis) >= 1, NEW e, e.kind \in Protected,
           e.saved.nCcalls \in Nat, e.saved.allowhook \in BOOLEAN, e.saved.errfunc \in ErrFuncs, e.saved.previous \in Nat,
           e.kind = "pcall" => e.saved.cis = e.at /\ e.at \in 1..Len(q.cis)
    PROVE  LET r == Unhandled(Restored(q, e), e)
           IN /\ Restored(q, e) \in ThreadSet /\ r \in ThreadSet /\ Sized(r) /\ r.errorJmp = e.saved.previous
              /\ e.kind = "pcall" =>
                   /\ Len(r.cis) = e.at /\ \A k \in 1..e.at : r.cis[k] = q.cis[k]
                   /\ r.nCcalls = e.saved.nCcalls /\ r.allowhook = e.saved.allowhook /\ r.errfunc = e.saved.errfunc
              /\ e.kind = "resume" =>
                   /\ Len(r.cis) = 1 /\ r.cis[1] = q.cis[1]
                   /\ r.nCcalls = 0 /\ r.allowhook = e.saved.allowhook /\ r.errfunc = q.errfunc
              /\ e.kind = "parser" =>
                   /\ r.cis = q.cis /\ r.nCcalls = q.nCcalls /\ r.allowhook = q.allowhook /\ r.errfunc = q.errfunc
<1> DEFINE R == Restored(q, e)
           r == Unhandled(R, e)
<1>0. q.cis \in Seq(Frames) /\ Len(q.cis) \in Nat /\ q.size_ci \in Nat BY DEF ThreadSet
<1>1. CASE e.kind = "pcall"
  <2> DEFINE cut == SubSeq(q.cis, 1, e.at)
             m == [q EXCEPT !.cis = cut, !.nCcalls = e.saved.nCcalls, !.allowhook = e.saved.allowhook]
  <2>1. cut \in Seq(Frames) /\ Len(cut) = e.at /\ \A k \in 1..e.at : cut[k] = q.cis[k] BY <1>0, <1>1
  <2> HIDE DEF cut
  <2>2. /\ m \in ThreadSet /\ m.cis = cut /\ m.nCcalls = e.saved.nCcalls /\ m.allowhook = e.saved.allowhook
        /\ m.errfunc = q.errfunc /\ m.size_ci = q.size_ci
    BY <2>1 DEF ThreadSet
  <2>3. Sized(m) BY <1>0, <1>1, <2>1, <2>2 DEF Sized
  <2>4. R = restore_stack_limit(m)
    BY <1>1 DEF Restored, cut
  <2> HIDE DEF m, R
  <2>5. /\ R \in ThreadSet /\ Sized(R) /\ R.cis = cut /\ R.nCcalls = e.saved.nCcalls /\ R.allowhook = e.saved.allowhook
    BY <2>2, <2>3, <2>4, StackLimit
  <2>6. /\ r \in ThreadSet /\ r.cis = cut /\ r.nCcalls = e.saved.nCcalls /\ r.allowhook = e.saved.allowhook
        /\ r.errfunc = e.saved.errfunc /\ r.errorJmp = e.saved.previous /\ r.size_ci = R.size_ci
    BY <1>1, <2>5 DEF Unhandled, ThreadSet
  <2>7. QED BY <1>1, <2>1, <2>5, <2>6 DEF Sized, R
<1>2. CASE e.kind = "resume"
  <2> DEFINE cut == SubSeq(q.cis, 1, 1)
             m == [q EXCEPT !.cis = cut, !.nCcalls = 0, !.allowhook = e.saved.allowhook, !.function = FALSE]
  <2>1. cut \in Seq(Frames) /\ Len(cut) = 1 /\ cut[1] = q.cis[1] BY <1>0
  <2> HIDE DEF cut
  <2>2. /\ m \in ThreadSet /\ m.cis = cut /\ m.nCcalls = 0 /\ m.allowhook = e.saved.allowhook
        /\ m.errfunc = q.errfunc /\ m.size_ci = q.size_ci
    BY <2>1 DEF ThreadSet
  <2>3. Sized(m) BY <1>0, <2>1, <2>2 DEF Sized
  <2>4. R = restore_stack_limit(m)
    BY <1>2 DEF Restored, cut
  <2> HIDE DEF m, R
  <2>5. /\ R \in ThreadSet /\ Sized(R) /\ R.cis = cut /\ R.nCcalls = 0 /\ R.allowhook = e.saved.allowhook
        /\ R.errfunc = q.errfunc
    BY <2>2, <2>3, <2>4, StackLimit
  <2>6. /\ r \in ThreadSet /\ r.cis = cut /\ r.nCcalls = 0 /\ r.allowhook = e.saved.allowhook
        /\ r.errfunc = q.errfunc /\ r.errorJmp = e.saved.previous /\ r.size_ci = R.size_ci
    BY <1>2, <2>5 DEF Unhandled, ThreadSet
  <2>7. QED BY <1>2, <2>1, <2>5, <2>6 DEF Sized, R
<1>3. CASE e.kind = "parser"
  <2>1. R = q BY <1>3 DEF Restored
  <2>2. /\ r \in ThreadSet /\ r.cis = q.cis /\ r.nCcalls = q.nCcalls /\ r.allowhook = q.allowhook
        /\ r.errfunc = q.errfunc /\ r.errorJmp = e.saved.previous /\ r.size_ci = q.size_ci
    BY <1>3, <2>1 DEF Unhandled, ThreadSet
  <2>3. QED BY <1>3, <2>1, <2>2 DEF Sized
<1>4. QED BY <1>1, <1>2, <1>3 DEF Protected

\* luaD_throw restores the thread from its handler and cuts the C stack below that.
LEMMA ThrowIs ==
    ASSUME NEW Ts \in [Threads -> ThreadSet], NEW D \in Seq(EntrySet), NEW p, NEW t \in Threads,
           NEW j \in 1..Len(D), Ts[t].errorJmp = j, D[j].th = t, Restored(Ts[t], D[j]) \in ThreadSet
    PROVE  luaD_throw(St(Ts, D, p), t)
             = St(Put(Ts, t, Unhandled(Restored(Ts[t], D[j]), D[j])), SubSeq(D, 1, j - 1), p)
<1> DEFINE e == D[j]
           R == Restored(Ts[t], e)
           A == [Ts EXCEPT ![t] = R]
           E == SubSeq(D, 1, j)
<1>1. Len(E) = j /\ E[Len(E)] = e /\ SubSeq(E, 1, j - 1) = SubSeq(D, 1, j - 1) OBVIOUS
<1>2. luaD_throw(St(Ts, D, p), t) = Unprotected([St(Ts, D, p) EXCEPT !.C = SubSeq(@, 1, j), !.T[t] = Restored(@, e)])
  <2>1. St(Ts, D, p).T[t].errorJmp = j /\ St(Ts, D, p).C[j] = e /\ j # 0 BY Fields
  <2>2. QED BY <2>1 DEF luaD_throw
<1>3. [St(Ts, D, p) EXCEPT !.C = SubSeq(@, 1, j), !.T[t] = Restored(@, e)] = [[St(Ts, D, p) EXCEPT !.C = E] EXCEPT !.T = A]
  BY DEF St
<1> HIDE DEF A, E
<1>4. [[St(Ts, D, p) EXCEPT !.C = E] EXCEPT !.T = A] = St(A, E, p)
  <2>1. [St(Ts, D, p) EXCEPT !.C = E] = St(Ts, E, p) BY DEF St
  <2>2. [St(Ts, E, p) EXCEPT !.T = A] = St(A, E, p) BY DEF St
  <2>3. QED BY <2>1, <2>2
<1>5. A \in [Threads -> ThreadSet] /\ A[t] = R BY DEF A
<1>6. Unprotected(St(A, E, p)) = St(Put(A, t, Unhandled(A[t], e)), SubSeq(E, 1, Len(E) - 1), p)
  <2> HIDE DEF e, R
  <2>1. e.th = t BY DEF e
  <2>2. Unprotected(St(A, E, p)) = St(Put(A, e.th, Unhandled(A[e.th], e)), SubSeq(E, 1, Len(E) - 1), p)
    BY <1>1, <1>5, <2>1, UnprotectedIs
  <2>3. QED BY <2>1, <2>2
<1>7. Put(A, t, Unhandled(A[t], e)) = Put(Ts, t, Unhandled(R, e))
  <2> DEFINE u == Unhandled(R, e)
  <2> HIDE DEF u
  <2>1. [A EXCEPT ![t] = u] = [Ts EXCEPT ![t] = u] BY DEF A
  <2>2. QED BY <1>5, <2>1 DEF u, Put
<1>8. QED BY <1>1, <1>2, <1>3, <1>4, <1>6, <1>7

\* What a state is between steps.
Safe(Ts, D) == /\ Good(Ts, D) /\ D[Len(D)].kind # "resume"
               /\ \A u \in Threads : Ts[u].nCcalls <= MaxC
Comes(s, p) == \E Us, E : s = St(Us, E, p) /\ Safe(Us, E)

\* One thread changes and no other.
LEMMA PutIs ==
    ASSUME NEW Ts \in [Threads -> ThreadSet], NEW t \in Threads, NEW r
    PROVE  /\ Put(Ts, t, r)[t] = r /\ \A u \in Threads \ {t} : Put(Ts, t, r)[u] = Ts[u]
           /\ r \in ThreadSet => Put(Ts, t, r) \in [Threads -> ThreadSet]
  BY DEF Put

\* A thread that runs has a protected call, of its own, for its errors.
LEMMA HasHandler ==
    ASSUME NEW Ts, NEW D, Good(Ts, D), NEW n, Len(D) = n, n >= 2, NEW t, D[n].th = t, NEW j, Ts[t].errorJmp = j
    PROVE  j \in 2..n /\ D[j].kind \in Protected /\ \A i \in j..n : D[i].th = t
<1>1. /\ n \in Nat /\ D \in Seq(EntrySet) /\ t \in Threads /\ EntryOK(Ts, D, n)
      /\ Counted(D, t, n, Ts[t].nCcalls, Ts[t].allowhook, Ts[t].errfunc, Ts[t].errorJmp)
  BY AtTop
<1>2. \A i \in 1..n : EntryOK(Ts, D, i) BY DEF Good
<1>3. Catches(D, t, n, j) BY <1>1 DEF Counted
<1>4. \E i \in 1..n : D[i].kind \in Protected /\ D[i].th = t
  <2>1. CASE t \in Coroutines
    <3>1. Stands(D, n) BY <1>1 DEF EntryOK
    <3>2. QED BY <2>1, <3>1 DEF Stands, Protected
  <2>2. CASE t = Main
    <3>1. EntryOK(Ts, D, 1) /\ EntryOK(Ts, D, 2) BY <1>1, <1>2
    <3>2. Stands(D, 2) /\ D[1].th = Main BY <3>1 DEF EntryOK
    <3>3. D[2].kind = "pcall" /\ D[2].th = Main BY <3>2 DEF Stands
    <3>4. 2 \in 1..n BY <1>1
    <3>5. QED BY <2>2, <3>3, <3>4 DEF Protected
  <2>3. QED BY <1>1, <2>1, <2>2 DEF Threads
<1>5. j \in 1..n /\ D[j].kind \in Protected /\ D[j].th = t
  <2>1. j \in 0..n /\ (j = 0 => \A i \in 1..n : ~(D[i].kind \in Protected /\ D[i].th = t)) BY <1>1, <1>3 DEF Catches
  <2>2. j # 0 BY <1>4, <2>1
  <2>3. QED BY <1>3, <2>1, <2>2 DEF Catches
<1>6. j # 1
  <2> SUFFICES ASSUME j = 1 PROVE FALSE OBVIOUS
  <2>1. EntryOK(Ts, D, 1) BY <1>2, <1>5
  <2>2. D[1].kind = "host" BY <2>1 DEF EntryOK
  <2>3. QED BY <1>5, <2>2 DEF Protected
<1>7. \A i \in j..n : D[i].th = t
  <2>1. CASE j = n BY <1>1, <1>5, <2>1
  <2>2. CASE j < n
    <3>1. PairOK(D, j, n) BY <1>1, <1>5, <2>2 DEF Good
    <3>2. QED BY <1>5, <3>1 DEF PairOK
  <2>3. QED BY <1>1, <1>5, <2>1, <2>2
<1>8. QED BY <1>1, <1>5, <1>6, <1>7

\* An error leaves a good state behind: what is cut off goes as a whole.
LEMMA Throw ==
    ASSUME NEW Ts, NEW D, Good(Ts, D), NEW p, NEW n, Len(D) = n, n >= 2, NEW t, D[n].th = t,
           \A u \in Threads \ {t} : Ts[u].nCcalls <= MaxC,
           D[n].kind = "parser" => Ts[t].nCcalls <= MaxC
    PROVE  /\ Comes(luaD_throw(St(Ts, D, p), t), p)
           /\ Len(luaD_throw(St(Ts, D, p), t).C) < n
<1> DEFINE j == Ts[t].errorJmp
           m == j - 1
           e == D[j]
           q == Ts[t]
           r == Unhandled(Restored(q, e), e)
           E == SubSeq(D, 1, m)
<1>1. /\ n \in Nat /\ D \in Seq(EntrySet) /\ t \in Threads /\ Ts \in [Threads -> ThreadSet] /\ q \in ThreadSet
      /\ Counted(D, t, n, q.nCcalls, q.allowhook, q.errfunc, q.errorJmp)
      /\ Len(q.cis) \in Nat /\ Reached(q.cis, D, n, Len(q.cis)) /\ ThreadOK(q, D, t)
  BY AtTop DEF Good
<1>2. j \in 2..n /\ e.kind \in Protected /\ \A i \in j..n : D[i].th = t BY HasHandler
<1> HIDE DEF j
<1>3. /\ j \in 1..Len(D) /\ m \in 1..Len(D) /\ m \in Nat /\ m + 1 = j /\ m >= 1 /\ m < Len(D) /\ e.th = t
      /\ e \in EntrySet
  BY <1>1, <1>2
<1>4. EntryOK(Ts, D, j) /\ Stands(D, j) /\ SavedOK(D, j) /\ FramesOK(q.cis, D, j)
  <2>1. EntryOK(Ts, D, j) BY <1>3 DEF Good
  <2>2. QED BY <1>2, <1>3, <2>1 DEF EntryOK
<1>5. /\ Counted(D, t, m, e.saved.nCcalls, e.saved.allowhook, e.saved.errfunc, e.saved.previous)
      /\ e.saved.nCcalls <= MaxC /\ e.saved.errfunc \in ErrFuncs
      /\ e.kind = "pcall" => e.saved.cis = e.at
  BY <1>2, <1>3, <1>4 DEF SavedOK
<1>6. /\ e.saved.nCcalls \in Nat /\ e.saved.allowhook \in BOOLEAN /\ e.saved.previous \in Nat
  <2>1. Calls(D, t, m) \in Nat /\ Quiet(D, t, m) \in BOOLEAN BY <1>3, CallsFinite DEF Quiet
  <2>2. QED BY <1>3, <1>5, <2>1 DEF Counted, Catches
<1>7. /\ Base(D, j) \in 1..Len(q.cis)
      /\ e.kind \in {"pcall", "parser"} => Base(D, j) = e.at /\ In(D, j) = e.at
  <2>1. Base(D, j) \in Nat BY <1>3, InBase
  <2>2. 1 <= Base(D, j) /\ Base(D, j) <= Len(q.cis) BY <1>4 DEF FramesOK
  <2>3. QED BY <1>1, <2>1, <2>2 DEF Base, In
<1>8. Sized(q) /\ Len(q.cis) >= 1 BY <1>1 DEF ThreadOK, Sized
<1>9. /\ Restored(q, e) \in ThreadSet /\ r \in ThreadSet /\ Sized(r) /\ r.errorJmp = e.saved.previous
      /\ e.kind = "pcall" =>
           /\ Len(r.cis) = e.at /\ \A k \in 1..e.at : r.cis[k] = q.cis[k]
           /\ r.nCcalls = e.saved.nCcalls /\ r.allowhook = e.saved.allowhook /\ r.errfunc = e.saved.errfunc
      /\ e.kind = "resume" =>
           /\ Len(r.cis) = 1 /\ r.cis[1] = q.cis[1]
           /\ r.nCcalls = 0 /\ r.allowhook = e.saved.allowhook /\ r.errfunc = q.errfunc
      /\ e.kind = "parser" =>
           /\ r.cis = q.cis /\ r.nCcalls = q.nCcalls /\ r.allowhook = q.allowhook /\ r.errfunc = q.errfunc
  <2>1. e.kind = "pcall" => e.saved.cis = e.at /\ e.at \in 1..Len(q.cis) BY <1>5, <1>7
  <2> HIDE DEF e, q, r
  <2>2. QED BY <1>1, <1>2, <1>5, <1>6, <1>8, <2>1, ErrorIs DEF r
<1>10. luaD_throw(St(Ts, D, p), t) = St(Put(Ts, t, r), E, p)
  <2>1. Ts[t].errorJmp = j /\ D[j].th = t /\ Restored(Ts[t], D[j]) \in ThreadSet BY <1>3, <1>9 DEF j
  <2>2. QED BY <1>1, <1>3, <2>1, ThrowIs
<1> HIDE DEF r
<1>11. Good(Put(Ts, t, r), E)
  <2>1. CASE e.kind = "pcall"
    <3>1. D[m].th = t
      <4>1. D[j].th = D[j - 1].th BY <1>4, <2>1 DEF Stands
      <4>2. QED BY <1>3, <4>1
    <3>2. \A i \in m..Len(D) : D[i].th = t BY <1>1, <1>2, <1>3, <3>1
    <3>3. Counted(D, t, m, r.nCcalls, r.allowhook, r.errfunc, r.errorJmp) BY <1>5, <1>9, <2>1
    <3>4. Len(r.cis) = In(D, m + 1) /\ \A k \in 1..In(D, m + 1) : r.cis[k] = Ts[t].cis[k] BY <1>3, <1>7, <1>9, <2>1
    <3>5. QED BY <1>3, <1>9, <3>2, <3>3, <3>4, Pop
  <2>2. CASE e.kind = "resume"
    <3>1. \A i \in 1..m : D[i].th # t BY <1>3, <1>4, <2>2 DEF Stands
    <3>2. Calls(D, t, m) = 0 /\ Quiet(D, t, m) = TRUE /\ (Catches(D, t, m, e.saved.previous) <=> e.saved.previous = 0)
      <4>1. Calls(D, t, m) = 0 BY <1>3, <3>1, CallsNone
      <4>2. Quiet(D, t, m) = TRUE BY <3>1 DEF Quiet
      <4>3. Catches(D, t, m, e.saved.previous) <=> e.saved.previous = 0 BY <1>3, <3>1 DEF Catches
      <4>4. QED BY <4>1, <4>2, <4>3
    <3>3. e.saved.allowhook = TRUE /\ e.saved.previous = 0 BY <1>5, <3>2 DEF Counted
    <3>4. \A i \in 1..n : D[i].th = t => D[i].kind # "pcall"
      <4> SUFFICES ASSUME NEW i \in 1..n, D[i].th = t, D[i].kind = "pcall" PROVE FALSE OBVIOUS
      <4>1. i >= j BY <1>1, <1>3, <3>1
      <4>2. i # j BY <2>2
      <4>3. Catches(D, t, n, j) BY <1>1 DEF Counted, j
      <4>4. i \in (j + 1)..n BY <1>1, <1>3, <4>1, <4>2
      <4>5. QED BY <4>3, <4>4 DEF Catches, Protected
    <3>5. q.errfunc = "none" BY <1>1, <3>4 DEF Counted
    <3>6. Asleep(r.cis) /\ Len(r.cis) >= 1 BY <1>9, <2>2 DEF Asleep
    <3>7. \A i \in (m + 1)..Len(D) : D[i].th = t BY <1>1, <1>2, <1>3
    <3>8. D[m + 1].th = t /\ D[m + 1].kind = "resume" BY <1>3, <2>2
    <3>9. /\ r.nCcalls = 0 /\ r.allowhook = TRUE /\ r.errfunc = "none" /\ r.errorJmp = 0
          /\ r.cis[1] = Ts[t].cis[1] /\ r \in ThreadSet /\ Sized(r)
      BY <1>9, <2>2, <3>3, <3>5
    <3>10. QED BY <1>3, <3>6, <3>7, <3>8, <3>9, Leave
  <2>3. CASE e.kind = "parser"
    <3>1. j = n
      <4> SUFFICES ASSUME j # n PROVE FALSE OBVIOUS
      <4>1. j + 1 \in 1..Len(D) /\ j + 1 # 1 /\ (j + 1) - 1 = j BY <1>1, <1>2
      <4>2. Stands(D, j + 1) BY <4>1 DEF Good, EntryOK
      <4>3. QED BY <2>3, <4>1, <4>2 DEF Stands
    <3>2. D[m].th = t
      <4>1. D[j].th = D[j - 1].th BY <1>4, <2>3 DEF Stands
      <4>2. QED BY <1>3, <4>1
    <3>3. \A i \in m..Len(D) : D[i].th = t BY <1>1, <1>2, <1>3, <3>2
    <3>4. Len(q.cis) = In(D, m + 1) BY <1>1, <1>3, <1>7, <2>3, <3>1 DEF Reached
    <3>5. Len(r.cis) = In(D, m + 1) /\ \A k \in 1..In(D, m + 1) : r.cis[k] = Ts[t].cis[k] BY <1>9, <2>3, <3>4
    <3>6. Untallied(r, q, D, t, m) BY <1>3, <1>9, <2>3 DEF Untallied, Protected
    <3>7. Counted(D, t, m, r.nCcalls, r.allowhook, r.errfunc, r.errorJmp)
      <4>1. Counted(D, t, m + 1, q.nCcalls, q.allowhook, q.errfunc, q.errorJmp) BY <1>1, <1>3, <3>1
      <4>2. D[m + 1].th = t /\ SavedOK(D, m + 1) BY <1>3, <1>4
      <4>3. QED BY ONLY <1>3, <3>6, <4>1, <4>2, PopCounted
    <3>8. QED BY <1>3, <1>9, <3>3, <3>5, <3>7, Pop
  <2>4. QED BY <1>2, <2>1, <2>2, <2>3 DEF Protected
<1>12. Safe(Put(Ts, t, r), E)
  <2>1. Len(E) = m /\ E[m] = D[m] BY <1>1, <1>3
  <2>2. D[m].kind # "resume"
    <3>1. D[j - 1].kind = "resume" => e.kind = "execute" BY <1>4 DEF Stands
    <3>2. QED BY <1>2, <1>3, <3>1 DEF Protected
  <2>3. r.nCcalls <= MaxC
    <3>1. CASE e.kind = "pcall" BY <1>5, <1>9, <3>1
    <3>2. CASE e.kind = "resume" BY <1>9, <3>2, Limits
    <3>3. CASE e.kind = "parser"
      <4>1. j = n
        <5> SUFFICES ASSUME j # n PROVE FALSE OBVIOUS
        <5>1. j + 1 \in 1..Len(D) /\ j + 1 # 1 /\ (j + 1) - 1 = j BY <1>1, <1>2
        <5>2. Stands(D, j + 1) BY <5>1 DEF Good, EntryOK
        <5>3. QED BY <3>3, <5>1, <5>2 DEF Stands
      <4>2. QED BY <1>9, <3>3, <4>1
    <3>4. QED BY <1>2, <3>1, <3>2, <3>3 DEF Protected
  <2>4. \A u \in Threads : Put(Ts, t, r)[u].nCcalls <= MaxC
    <3>1. Put(Ts, t, r)[t] = r /\ \A u \in Threads \ {t} : Put(Ts, t, r)[u] = Ts[u] BY <1>1, PutIs
    <3>2. QED BY <2>3, <3>1
  <2>5. QED BY <1>11, <2>1, <2>2, <2>4 DEF Safe
<1>13. Len(E) < n BY <1>1, <1>3
<1> HIDE DEF E
<1>14. St(Put(Ts, t, r), E, p).C = E BY DEF St
<1>15. QED BY <1>10, <1>12, <1>13, <1>14 DEF Comes

-----------------------------------------------------------------------------
(* Calls.                                                                      *)

\* A state in which thread t runs; the entry that is pushed.
At(Ts, D, n, t) == Good(Ts, D) /\ Len(D) = n /\ D[n].th = t
Adds(D, E, kind, t, at, saved) == E = Append(D, Entry(kind, t, at, saved))
Tops(E, n, kind, t, at, saved) ==
    Len(E) = n + 1 /\ E[n + 1].kind = kind /\ E[n + 1].th = t /\ E[n + 1].at = at /\ E[n + 1].saved = saved
\* The entry that is pushed is one of the kinds there are, and all below it stays.
LEMMA Appended ==
    ASSUME NEW Ts, NEW D, NEW n, NEW t, At(Ts, D, n, t),
           NEW kind, kind \in Kinds, NEW at, at \in Nat, NEW saved, saved \in Saved, NEW E, Adds(D, E, kind, t, at, saved)
    PROVE  Pushes(D, E, n, t) /\ Tops(E, n, kind, t, at, saved)
<1> DEFINE e == Entry(kind, t, at, saved)
<1>0. Good(Ts, D) /\ Len(D) = n /\ D[n].th = t BY DEF At
<1>1. D \in Seq(EntrySet) /\ t \in Threads /\ n \in Nat BY <1>0, AtTop
<1>2. e \in EntrySet /\ e.kind = kind /\ e.at = at /\ e.saved = saved /\ e.th = t BY <1>1 DEF Entry, EntrySet
<1>3. E = Append(D, e) BY DEF Adds
<1> HIDE DEF e
<1>4. E \in Seq(EntrySet) /\ Len(E) = n + 1 /\ E[n + 1] = e /\ \A i \in 1..n : E[i] = D[i] BY <1>0, <1>1, <1>2, <1>3
<1>5. QED BY ONLY <1>0, <1>2, <1>4 DEF Pushes, Tops

\* What it may stand on.
LEMMA StandsOn ==
    ASSUME NEW Ts, NEW D, Good(Ts, D), NEW n, NEW t, NEW E, Pushes(D, E, n, t),
           E[n + 1].kind \notin {"host", "resume"}, n = 1 => E[n + 1].kind = "pcall",
           D[n].kind \notin {"parser", "error"}, D[n].kind = "resume" => E[n + 1].kind = "execute",
           E[n + 1].kind = "execute" => D[n].kind \in {"call", "resume"},
           E[n + 1].kind = "cfunc" => D[n].kind \in {"call", "execute"},
           E[n + 1].kind = "parser" => D[n].kind = "cfunc"
    PROVE  Stands(E, n + 1)
<1>1. n \in Nat /\ n >= 1 /\ EntryOK(Ts, D, n) /\ D[n].th = t /\ E[n + 1].th = t BY AtTop DEF Pushes
<1>2. (n + 1) - 1 = n /\ n + 1 > 1 /\ (n + 1 = 2 => n = 1) /\ E[n] = D[n] BY <1>1 DEF Pushes
<1>3. t \in Coroutines => \E i \in 1..(n + 1) : E[i].kind = "resume" /\ E[i].th = t
  <2> SUFFICES ASSUME t \in Coroutines PROVE \E i \in 1..(n + 1) : E[i].kind = "resume" /\ E[i].th = t OBVIOUS
  <2>1. n # 1 BY <1>1, Limits DEF EntryOK
  <2>2. \E i \in 1..n : D[i].kind = "resume" /\ D[i].th = t BY <1>1, <2>1 DEF EntryOK, Stands
  <2>3. \A i \in 1..n : E[i] = D[i] /\ i \in 1..(n + 1) BY <1>1 DEF Pushes
  <2>4. QED BY <2>2, <2>3
<1>4. QED BY <1>1, <1>2, <1>3 DEF Stands, On

\* Any entry but that of a function or of a coroutine: what it keeps, and where it may be.
Plain == {"call", "error", "handler", "hook", "gc", "pcall", "parser"}
Keeping(q, kind, saved) ==
    /\ saved \in Saved
    /\ kind \in Protected => saved = Handler(q) /\ q.nCcalls <= MaxC
    /\ kind = "gc" => saved.allowhook = q.allowhook
    /\ kind = "hook" => q.allowhook = TRUE
MayFollow(kind, D, n) ==
    /\ n = 1 => kind = "pcall"
    /\ D[n].kind \notin {"parser", "error", "resume"}
    /\ kind = "parser" => D[n].kind = "cfunc"
SameCis(r, q) == r.cis = q.cis /\ r.size_ci = q.size_ci
\* A good state is good when any such entry is pushed, where it may follow what runs.
LEMMA Pushed ==
    ASSUME NEW Ts, NEW D, NEW n, NEW t, At(Ts, D, n, t),
           NEW kind, kind \in Plain, NEW saved, Keeping(Ts[t], kind, saved), MayFollow(kind, D, n),
           NEW r, r \in ThreadSet, SameCis(r, Ts[t]), Tallied(r, Ts[t], kind, n),
           NEW E, Adds(D, E, kind, t, Len(Ts[t].cis), saved)
    PROVE  At(Put(Ts, t, r), E, n + 1, t) /\ Tops(E, n, kind, t, Len(r.cis), saved)
<1> DEFINE q == Ts[t]
<1>1. /\ n \in Nat /\ q \in ThreadSet /\ ThreadOK(q, D, t) /\ Len(q.cis) \in Nat
      /\ Counted(D, t, n, q.nCcalls, q.allowhook, q.errfunc, q.errorJmp)
  BY AtTop DEF At
<1>0. /\ saved \in Saved
      /\ kind \in Protected => saved = Handler(q) /\ q.nCcalls <= MaxC
      /\ kind = "gc" => saved.allowhook = q.allowhook
      /\ kind = "hook" => q.allowhook = TRUE
      /\ n = 1 => kind = "pcall"
      /\ D[n].kind \notin {"parser", "error", "resume"}
      /\ kind = "parser" => D[n].kind = "cfunc"
      /\ r.cis = q.cis /\ r.size_ci = q.size_ci
  BY DEF Keeping, MayFollow, SameCis
<1>2. kind \in Kinds BY DEF Kinds, Protected, Plain
<1>3. Adds(D, E, kind, t, Len(q.cis), saved) OBVIOUS
<1>4. /\ Pushes(D, E, n, t) /\ E[n + 1].kind = kind /\ E[n + 1].at = Len(q.cis) /\ E[n + 1].saved = saved
      /\ E[n + 1].th = t /\ Len(E) = n + 1
  <2> DEFINE at == Len(q.cis)
  <2>1. /\ At(Ts, D, n, t) /\ at \in Nat /\ saved \in Saved
        /\ Adds(D, E, kind, t, at, saved)
    BY <1>0, <1>1, <1>3
  <2> HIDE DEF at
  <2>2. Pushes(D, E, n, t) /\ Tops(E, n, kind, t, at, saved) BY ONLY <1>2, <2>1, Appended
  <2>3. QED BY <2>2 DEF at, Tops
<1>5. Stands(E, n + 1)
  <2>1. Good(Ts, D) BY DEF At
  <2>2. QED BY <1>0, <1>4, <2>1, StandsOn DEF Plain
<1>6. SavedOK(E, n + 1)
  <2>1. \A i \in 1..n : E[i] = D[i] BY <1>4 DEF Pushes
  <2>2. Counted(E, t, n, q.nCcalls, q.allowhook, q.errfunc, q.errorJmp) BY <1>1, <2>1, CountedSame
  <2>3. q.allowhook = Quiet(E, t, n) BY <2>2 DEF Counted
  <2>4. (n + 1) - 1 = n BY <1>1
  <2>5. q.errfunc \in ErrFuncs BY <1>1 DEF ThreadSet
  <2>6. kind \in Protected =>
          /\ saved.nCcalls = q.nCcalls /\ saved.allowhook = q.allowhook /\ saved.errfunc = q.errfunc
          /\ saved.previous = q.errorJmp /\ saved.cis = Len(q.cis)
    BY <1>0 DEF Handler
  <2> HIDE DEF q
  <2>7. CASE kind \in Protected BY <1>0, <1>4, <2>2, <2>4, <2>5, <2>6, <2>7 DEF SavedOK, Protected, q
  <2>8. CASE kind \in {"gc", "hook"} BY <1>0, <1>4, <2>3, <2>4, <2>8 DEF SavedOK, Protected, q
  <2>9. CASE kind \notin Protected \cup {"gc", "hook"} BY <1>4, <2>9 DEF SavedOK, Protected
  <2>10. QED BY <2>7, <2>8, <2>9
<1>7. Sized(r) BY <1>0, <1>1 DEF ThreadOK, Sized
<1>8. E[n + 1].kind \notin {"execute", "cfunc", "resume"} BY <1>4 DEF Plain
<1>9. Good(Put(Ts, t, r), E) BY <1>0, <1>4, <1>5, <1>6, <1>7, <1>8, PushPlain DEF At
<1>10. QED BY <1>0, <1>4, <1>9 DEF At, Tops

\* A push, of an entry that is not looked into.
LEMMA PushIs ==
    ASSUME NEW Ts, NEW D, NEW p, NEW kind, NEW t, NEW saved
    PROVE  \E E : PushC(St(Ts, D, p), kind, t, saved) = St(Ts, E, p) /\ Adds(D, E, kind, t, Len(Ts[t].cis), saved)
<1> DEFINE E == Append(D, Entry(kind, t, Len(Ts[t].cis), saved))
<1>1. PushC(St(Ts, D, p), kind, t, saved) = St(Ts, E, p) BY PushCIs DEF Made
<1>2. Adds(D, E, kind, t, Len(Ts[t].cis), saved) BY DEF Adds
<1> HIDE DEF E
<1>3. QED BY <1>1, <1>2

\* luaD_rawrunprotected, with the C stack that it leaves named.
LEMMA RawPick ==
    ASSUME NEW Ts, NEW D, NEW p, NEW kind, NEW t
    PROVE  \E E : /\ rawrunprotected(St(Ts, D, p), kind, t)
                       = St(Put(Ts, t, [Ts[t] EXCEPT !.errorJmp = Len(D) + 1]), E, p)
                  /\ Adds(D, E, kind, t, Len(Ts[t].cis), Handler(Ts[t]))
<1> DEFINE E == Append(D, Made(Ts, kind, t, Handler(Ts[t])))
<1>1. rawrunprotected(St(Ts, D, p), kind, t) = St(Put(Ts, t, [Ts[t] EXCEPT !.errorJmp = Len(D) + 1]), E, p)
  BY RawIs
<1>2. Adds(D, E, kind, t, Len(Ts[t].cis), Handler(Ts[t])) BY DEF Adds, Made
<1> HIDE DEF E
<1>3. QED BY <1>1, <1>2

\* An assignment to the thread.
LEMMA SetIs ==
    ASSUME NEW Ts, NEW D, NEW p, NEW t, NEW r
    PROVE  [St(Ts, D, p) EXCEPT !.T[t] = r] = St(Put(Ts, t, r), D, p)
  BY DEF St, Put

Doubled(q)   == [q EXCEPT !.size_ci = 2 * @]
Longer(q, f) == [q EXCEPT !.cis = Append(@, f)]
Grow(s, t)      == [s EXCEPT !.T[t].size_ci = 2 * @]
Enter(s, t, f)  == [s EXCEPT !.T[t].cis = Append(@, f)]
\* luaD_growCI changes the size of one thread's CallInfo.
LEMMA GrowIs ==
    ASSUME NEW Ts, NEW D, NEW p, NEW t
    PROVE  Grow(St(Ts, D, p), t) = St(Put(Ts, t, Doubled(Ts[t])), D, p)
<1> DEFINE r == Doubled(Ts[t])
<1>1. Grow(St(Ts, D, p), t) = [St(Ts, D, p) EXCEPT !.T[t] = r]
  BY DEF St, Grow, Doubled
<1> HIDE DEF r
<1>2. QED BY <1>1, SetIs DEF r

\* A CallInfo more for one thread.
LEMMA EnterIs ==
    ASSUME NEW Ts, NEW D, NEW p, NEW t, NEW f
    PROVE  Enter(St(Ts, D, p), t, f) = St(Put(Ts, t, Longer(Ts[t], f)), D, p)
<1> DEFINE r == Longer(Ts[t], f)
<1>1. Enter(St(Ts, D, p), t, f) = [St(Ts, D, p) EXCEPT !.T[t] = r]
  BY DEF St, Enter, Longer
<1> HIDE DEF r
<1>2. QED BY <1>1, SetIs DEF r

\* What is counted of a thread is as it was.
Alike(r, q) == /\ r.nCcalls = q.nCcalls /\ r.allowhook = q.allowhook /\ r.errfunc = q.errfunc
               /\ r.errorJmp = q.errorJmp
\* More room for CallInfo; a CallInfo more.
Grown(r, q) == r \in ThreadSet /\ Sized(r) /\ Alike(r, q) /\ r.cis = q.cis
Called(r, q, f) == /\ r \in ThreadSet /\ Sized(r) /\ Alike(r, q)
                   /\ Len(r.cis) = Len(q.cis) + 1 /\ r.cis[Len(r.cis)] = f /\ \A k \in 1..Len(q.cis) : r.cis[k] = q.cis[k]
CodeOf(c) == IF c THEN "cfunc" ELSE "execute"

\* A new CallInfo is one.
LEMMA FrameIn == ASSUME NEW c \in BOOLEAN PROVE Frame(c) \in Frames
  BY DEF Frame, Frames

\* A CallInfo that fits is added, and the thread stays within its limits.
LEMMA CalledIs ==
    ASSUME NEW q \in ThreadSet, Sized(q), NEW f \in Frames, q.size_ci > Len(q.cis)
    PROVE  Called(Longer(q, f), q, f)
<1> DEFINE r == [q EXCEPT !.cis = Append(@, f)]
<1>1. q.cis \in Seq(Frames) /\ Len(q.cis) \in Nat /\ q.size_ci \in Nat BY DEF ThreadSet
<1>2. /\ Append(q.cis, f) \in Seq(Frames) /\ Len(Append(q.cis, f)) = Len(q.cis) + 1
      /\ Append(q.cis, f)[Len(q.cis) + 1] = f /\ \A k \in 1..Len(q.cis) : Append(q.cis, f)[k] = q.cis[k]
  BY <1>1
<1> DEFINE a == Append(q.cis, f)
<1> HIDE DEF a
<1>3. r = [q EXCEPT !.cis = a] BY DEF a
<1>4. [q EXCEPT !.cis = a] \in ThreadSet BY <1>2 DEF ThreadSet, a
<1>5. r.cis = a /\ r.size_ci = q.size_ci /\ Alike(r, q) BY <1>3 DEF ThreadSet, Alike
<1> HIDE DEF r
<1>6. Sized(r) BY <1>1, <1>2, <1>5 DEF Sized, a
<1>7. QED BY <1>2, <1>3, <1>4, <1>5, <1>6 DEF Called, a, r, Longer

\* CallInfo that had not overflowed stay within twice LUA_MAXCALLS when they are doubled.
LEMMA GrownIs ==
    ASSUME NEW q \in ThreadSet, Sized(q), ~(q.size_ci > LUA_MAXCALLS)
    PROVE  Grown(Doubled(q), q) /\ Doubled(q).size_ci = 2 * q.size_ci
<1>1. q.cis \in Seq(Frames) /\ Len(q.cis) \in Nat /\ q.size_ci \in Nat BY DEF ThreadSet
<1> DEFINE z == 2 * q.size_ci
<1>2. z \in Nat /\ 2 <= z /\ z <= 2 * LUA_MAXCALLS /\ Len(q.cis) <= z BY <1>1, Limits DEF Sized
<1> HIDE DEF z
<1> DEFINE r == [q EXCEPT !.size_ci = z]
<1>3. r \in ThreadSet /\ r.cis = q.cis /\ r.size_ci = z /\ Alike(r, q) BY <1>2 DEF ThreadSet, Alike
<1>4. Doubled(q) = r BY DEF z, Doubled
<1> HIDE DEF r
<1>5. QED BY <1>2, <1>3, <1>4 DEF Grown, Sized, z

\* What luaD_precall does: an overflow of the CallInfo, or of what handles it, or a call.
LEMMA PrecallCases ==
    ASSUME NEW Ts \in [Threads -> ThreadSet], NEW D, NEW p, NEW t \in Threads, Sized(Ts[t]), NEW c \in BOOLEAN
    PROVE  \/ luaD_precall(St(Ts, D, p), t, c) = luaD_throw(St(Ts, D, p), t)
           \/ \E r : /\ Len(Ts[t].cis) = Ts[t].size_ci /\ Grown(r, Ts[t])
                     /\ luaD_precall(St(Ts, D, p), t, c) = luaG_runerror(St(Put(Ts, t, r), D, p), t)
           \/ \E r, E : /\ Called(r, Ts[t], Frame(c)) /\ luaD_precall(St(Ts, D, p), t, c) = St(Put(Ts, t, r), E, p)
                        /\ Adds(D, E, CodeOf(c), t, Len(r.cis), Nothing)
<1> DEFINE S == St(Ts, D, p)
           q == Ts[t]
           full == Len(q.cis) = q.size_ci
           g    == Doubled(q)
           s    == luaD_precall(S, t, c)
<1>1. S.T[t] = q BY Fields
<1>2. q \in ThreadSet /\ Len(q.cis) \in Nat /\ q.size_ci \in Nat /\ q.size_ci <= 2 * LUA_MAXCALLS /\ Len(q.cis) <= q.size_ci
  BY DEF ThreadSet, Sized
<1>3. Grow(S, t) = St(Put(Ts, t, g), D, p) BY GrowIs
<1> HIDE DEF S
<1>4. CASE full /\ q.size_ci > LUA_MAXCALLS
  <2>1. s = luaD_throw(S, t) BY <1>1, <1>4 DEF luaD_precall
  <2>2. QED BY <2>1 DEF S
<1>5. CASE full /\ ~(q.size_ci > LUA_MAXCALLS) /\ 2 * q.size_ci > LUA_MAXCALLS
  <2>1. s = luaG_runerror(Grow(S, t), t) BY <1>1, <1>5 DEF luaD_precall, Grow
  <2>2. Grown(g, q) BY <1>2, <1>5, GrownIs
  <2> HIDE DEF g, s, q
  <2>3. QED BY <1>3, <1>5, <2>1, <2>2 DEF s, S, q
<1>6. CASE ~full \/ (~(q.size_ci > LUA_MAXCALLS) /\ ~(2 * q.size_ci > LUA_MAXCALLS))
  <2> DEFINE f  == Frame(c)
             h  == IF full THEN g ELSE q
             r  == Longer(h, f)
             H  == Put(Ts, t, h)
             rm == IF full THEN Grow(S, t) ELSE S
             k  == CodeOf(c)
  <2>1. f \in Frames BY FrameIn
  <2>2. s = PushC(Enter(rm, t, f), k, t, Nothing)
    BY <1>1, <1>6 DEF luaD_precall, CodeOf, Enter, Grow
  <2>3. rm = St(H, D, p)
    <3>1. CASE full BY <1>3, <3>1
    <3>2. CASE ~full
      <4>1. H = Ts BY <3>2 DEF Put
      <4>2. QED BY <3>2, <4>1 DEF S
    <3>3. QED BY <3>1, <3>2
  <2>4. Grown(h, q) /\ h.size_ci > Len(h.cis)
    <3>1. CASE full
      <4>1. Grown(g, q) /\ g.size_ci = 2 * q.size_ci BY <1>2, <1>6, <3>1, GrownIs
      <4>2. q.size_ci >= 2 BY DEF Sized
      <4> HIDE DEF g
      <4>3. QED BY <1>2, <3>1, <4>1, <4>2 DEF Grown
    <3>2. CASE ~full BY <1>2, <3>2 DEF Grown, Alike
    <3>3. QED BY <3>1, <3>2
  <2> HIDE DEF h, f, rm, k, s
  <2>5. Called(r, h, f) BY <2>1, <2>4, CalledIs DEF Grown
  <2>6. Called(r, q, f) BY <2>4, <2>5 DEF Called, Grown, Alike
  <2>7. H[t] = h /\ Put(H, t, r) = Put(Ts, t, r) BY DEF Put
  <2>8. Enter(St(H, D, p), t, f) = St(Put(Ts, t, r), D, p)
    <3>1. Enter(St(H, D, p), t, f) = St(Put(H, t, Longer(H[t], f)), D, p) BY EnterIs
    <3>2. QED BY <2>7, <3>1
  <2> HIDE DEF r, H
  <2>9. r \in ThreadSet /\ Put(Ts, t, r)[t] = r BY <2>6, PutIs DEF Called
  <2>10. PICK E : /\ PushC(St(Put(Ts, t, r), D, p), k, t, Nothing) = St(Put(Ts, t, r), E, p)
                  /\ Adds(D, E, k, t, Len(Put(Ts, t, r)[t].cis), Nothing)
    BY PushIs
  <2>11. s = St(Put(Ts, t, r), E, p) /\ Adds(D, E, k, t, Len(r.cis), Nothing) BY <2>2, <2>3, <2>8, <2>9, <2>10
  <2>12. QED BY <2>6, <2>11 DEF f, k, s, S
<1>7. QED BY <1>4, <1>5, <1>6

\* A run-time error is about to be thrown.
LEMMA Runerror ==
    ASSUME NEW Ts, NEW D, NEW n, NEW t, At(Ts, D, n, t), NEW p, D[n].kind \in Codes \cup {"call"}
    PROVE  \E E : luaG_runerror(St(Ts, D, p), t) = St(Ts, E, p) /\ At(Ts, E, n + 1, t) /\ E[n + 1].kind = "error"
<1> DEFINE q == Ts[t]
           kind == "error"
<1>1. /\ n \in Nat /\ t \in Threads /\ Ts \in [Threads -> ThreadSet] /\ q \in ThreadSet /\ EntryOK(Ts, D, n)
      /\ Len(q.cis) \in Nat
  BY AtTop DEF Good, At
<1>2. n # 1 BY <1>1 DEF EntryOK, Codes
<1>3. PICK E : PushC(St(Ts, D, p), kind, t, Nothing) = St(Ts, E, p) /\ Adds(D, E, kind, t, Len(q.cis), Nothing)
  BY PushIs
<1>4. Put(Ts, t, q) = Ts BY <1>1 DEF Put
<1>5. Tallied(q, q, kind, n)
  <2>1. q.allowhook \in BOOLEAN BY <1>1 DEF ThreadSet
  <2> HIDE DEF q
  <2>2. QED BY <2>1 DEF Tallied, Protected
<1>6. Keeping(q, kind, Nothing) BY DEF Keeping, Saved, Protected
<1>7. MayFollow(kind, D, n) /\ SameCis(q, q) /\ kind \in Plain BY <1>2 DEF Codes, MayFollow, SameCis, Plain
<1>8. kind = "error" OBVIOUS
<1> HIDE DEF kind
<1>9. At(Put(Ts, t, q), E, n + 1, t) /\ Tops(E, n, kind, t, Len(q.cis), Nothing)
  <2>1. /\ Keeping(Ts[t], kind, Nothing) /\ SameCis(q, Ts[t]) /\ Tallied(q, Ts[t], kind, n)
        /\ Adds(D, E, kind, t, Len(Ts[t].cis), Nothing)
    BY <1>3, <1>5, <1>6, <1>7
  <2> HIDE DEF q
  <2>2. QED BY <1>1, <1>7, <2>1, Pushed
<1>10. QED BY <1>3, <1>4, <1>8, <1>9 DEF luaG_runerror, Tops

Low(Ts) == \A u \in Threads : Ts[u].nCcalls <= MaxC
\* The thread that runs has not overflowed the C stack, so none has.
LEMMA LowPut ==
    ASSUME NEW Ts, Ts \in [Threads -> ThreadSet], NEW t, NEW r, Low(Ts), t \in Threads, r.nCcalls <= MaxC
    PROVE  Low(Put(Ts, t, r))
  BY DEF Low, Put
\* A good state in which no lua_resume is about to begin is what a step may end in.
LEMMA SafeIs ==
    ASSUME NEW Ts, NEW D, NEW n, NEW t, At(Ts, D, n, t), Low(Ts), D[n].kind # "resume", NEW p
    PROVE  Comes(St(Ts, D, p), p)
  BY DEF At, Low, Safe, Comes

\* A luaD_call or a luaV_execute enters a C function.
LEMMA AddedC ==
    ASSUME NEW Ts, NEW D, NEW n, NEW t, At(Ts, D, n, t), D[n].kind \in {"call", "execute"},
           NEW r, NEW f, Called(r, Ts[t], f), Entered(f), NEW E, Adds(D, E, "cfunc", t, Len(r.cis), Nothing)
    PROVE  At(Put(Ts, t, r), E, n + 1, t) /\ E[n + 1].kind = "cfunc"
<1> DEFINE q == Ts[t]
<1>0. Good(Ts, D) /\ Len(D) = n /\ D[n].th = t BY DEF At
<1>1. /\ n \in Nat /\ n >= 1 /\ t \in Threads /\ q \in ThreadSet /\ Len(q.cis) \in Nat /\ EntryOK(Ts, D, n)
  BY <1>0, AtTop
<1>2. /\ r \in ThreadSet /\ Sized(r) /\ Alike(r, q) /\ Len(r.cis) = Len(q.cis) + 1 /\ r.cis[Len(r.cis)] = f
      /\ \A k \in 1..Len(q.cis) : r.cis[k] = q.cis[k]
  BY DEF Called
<1>3. "cfunc" \in Kinds /\ Nothing \in Saved /\ Len(r.cis) \in Nat BY <1>1, <1>2 DEF Kinds, Saved
<1>4. Pushes(D, E, n, t) /\ Tops(E, n, "cfunc", t, Len(r.cis), Nothing) BY <1>3, Appended
<1>5. E[n + 1].kind = "cfunc" /\ E[n + 1].at = Len(r.cis) /\ Len(E) = n + 1 /\ E[n + 1].th = t BY <1>4 DEF Tops
<1>6. Stands(E, n + 1)
  <2>1. n # 1 BY <1>1 DEF EntryOK
  <2>2. QED BY <1>0, <1>4, <1>5, <2>1, StandsOn
<1>7. Tallied(r, q, "cfunc", n)
  <2>1. q.allowhook \in BOOLEAN BY <1>1 DEF ThreadSet
  <2> HIDE DEF q
  <2>2. QED BY <1>2, <2>1 DEF Tallied, Protected, Alike
<1>8. IntoC(Ts, D, E, n, t, r)
  <2> HIDE DEF q
  <2>1. Stands(E, n + 1) /\ Tallied(r, q, E[n + 1].kind, n) /\ Entered(r.cis[Len(r.cis)]) BY <1>2, <1>5, <1>6, <1>7
  <2>2. QED BY <1>2, <1>5, <2>1 DEF IntoC, q
<1>9. Good(Put(Ts, t, r), E) BY <1>0, <1>4, <1>8, PushCfunc
<1>10. QED BY <1>5, <1>9 DEF At

Runs(f) == ~f.c /\ ~f.yield /\ ~f.calling
\* A luaD_call or a lua_resume enters Lua code.
LEMMA AddedLua ==
    ASSUME NEW Ts, NEW D, NEW n, NEW t, At(Ts, D, n, t), D[n].kind \in {"call", "resume"},
           NEW r, NEW f, Called(r, Ts[t], f), Runs(f), NEW E, Adds(D, E, "execute", t, Len(r.cis), Nothing)
    PROVE  At(Put(Ts, t, r), E, n + 1, t) /\ E[n + 1].kind = "execute"
<1> DEFINE q == Ts[t]
<1>0. Good(Ts, D) /\ Len(D) = n /\ D[n].th = t BY DEF At
<1>1. /\ n \in Nat /\ n >= 1 /\ t \in Threads /\ q \in ThreadSet /\ Len(q.cis) \in Nat /\ EntryOK(Ts, D, n)
      /\ Reached(q.cis, D, n, Len(q.cis)) /\ Base(D, n) \in Nat
  BY <1>0, AtTop
<1>2. /\ r \in ThreadSet /\ Sized(r) /\ Alike(r, q) /\ Len(r.cis) = Len(q.cis) + 1 /\ r.cis[Len(r.cis)] = f
      /\ \A k \in 1..Len(q.cis) : r.cis[k] = q.cis[k]
  BY DEF Called
<1>3. "execute" \in Kinds /\ Nothing \in Saved /\ Len(r.cis) \in Nat BY <1>1, <1>2 DEF Kinds, Saved
<1>4. Pushes(D, E, n, t) /\ Tops(E, n, "execute", t, Len(r.cis), Nothing) BY <1>3, Appended
<1>5. E[n + 1].kind = "execute" /\ Len(E) = n + 1 /\ E[n + 1].th = t BY <1>4 DEF Tops
<1>6. Stands(E, n + 1)
  <2>1. n # 1 BY <1>1 DEF EntryOK
  <2>2. QED BY <1>0, <1>4, <1>5, <2>1, StandsOn
<1>7. Tallied(r, q, "execute", n)
  <2>1. q.allowhook \in BOOLEAN BY <1>1 DEF ThreadSet
  <2> HIDE DEF q
  <2>2. QED BY <1>2, <2>1 DEF Tallied, Protected, Alike
<1>8. Len(q.cis) = Base(D, n) BY <1>1 DEF Reached
<1>9. Region(r.cis, Base(D, n), Len(r.cis)) BY <1>1, <1>2, <1>8 DEF Region, Runs
<1>10. \A k \in 1..Base(D, n) : r.cis[k] = Ts[t].cis[k] BY <1>2, <1>8
<1>11. Good(Put(Ts, t, r), E)
  <2>1. IntoLua(Ts, D, E, n, t, r) BY <1>2, <1>5, <1>6, <1>7, <1>9, <1>10 DEF IntoLua
  <2>2. QED BY <1>0, <1>4, <2>1, PushExecute
<1>12. QED BY <1>5, <1>11 DEF At

\* Below all that runs is the host.
LEMMA NotFirst ==
    ASSUME NEW Ts, NEW D, NEW n, NEW t, At(Ts, D, n, t), D[n].kind # "host"
    PROVE  n \in Nat /\ n >= 2
<1>1. Good(Ts, D) /\ Len(D) = n /\ D[n].th = t BY DEF At
<1>2. n \in Nat /\ n >= 1 /\ EntryOK(Ts, D, n) BY <1>1, AtTop
<1>3. QED BY <1>2 DEF EntryOK

\* An error after which the state is good, or about to be thrown.
Over(s, p, n) == Comes(s, p) /\ (Len(s.C) < n \/ s.C[Len(s.C)].kind = "error")

\* An error ends a step in a good state, on a shorter C stack.
LEMMA ThrowOver ==
    ASSUME NEW Ts, NEW D, NEW n, NEW t, At(Ts, D, n, t), Low(Ts), D[n].kind # "host", NEW p
    PROVE  Over(luaD_throw(St(Ts, D, p), t), p, n)
<1>1. Good(Ts, D) /\ Len(D) = n /\ D[n].th = t BY DEF At
<1>2. n \in Nat /\ n >= 2 BY NotFirst
<1>3. t \in Threads BY <1>1, AtTop
<1>4. (\A u \in Threads \ {t} : Ts[u].nCcalls <= MaxC) /\ Ts[t].nCcalls <= MaxC BY <1>3 DEF Low
<1>5. Comes(luaD_throw(St(Ts, D, p), t), p) /\ Len(luaD_throw(St(Ts, D, p), t).C) < n BY <1>1, <1>2, <1>4, Throw
<1>6. QED BY <1>5 DEF Over

\* An error message ends a step in a good state, with the error on top.
LEMMA ErrorOver ==
    ASSUME NEW Ts, NEW D, NEW n, NEW t, At(Ts, D, n, t), Low(Ts), D[n].kind \in Codes \cup {"call"}, NEW p, NEW m
    PROVE  Over(luaG_runerror(St(Ts, D, p), t), p, m)
<1>1. PICK E : luaG_runerror(St(Ts, D, p), t) = St(Ts, E, p) /\ At(Ts, E, n + 1, t) /\ E[n + 1].kind = "error"
  BY Runerror
<1> DEFINE s == luaG_runerror(St(Ts, D, p), t)
<1> HIDE DEF s
<1>2. s = St(Ts, E, p) BY <1>1 DEF s
<1>3. Comes(s, p)
  <2>1. E[n + 1].kind # "resume" BY <1>1
  <2>2. QED BY <1>1, <1>2, <2>1, SafeIs
<1>4. s.C = E /\ Len(E) = n + 1 BY <1>1, <1>2, Fields DEF At
<1>5. QED BY <1>1, <1>3, <1>4 DEF Over, s

\* A good state stays good when the CallInfo grow.
LEMMA Regrown ==
    ASSUME NEW Ts, NEW D, NEW n, NEW t, At(Ts, D, n, t), NEW r, Grown(r, Ts[t])
    PROVE  At(Put(Ts, t, r), D, n, t)
<1> DEFINE q == Ts[t]
<1>0. Good(Ts, D) /\ Len(D) = n /\ D[n].th = t BY DEF At
<1>1. /\ Counted(D, t, n, q.nCcalls, q.allowhook, q.errfunc, q.errorJmp)
      /\ Reached(q.cis, D, n, Len(q.cis)) /\ Base(D, n) <= Len(q.cis)
  BY <1>0, AtTop
<1>2. r \in ThreadSet /\ Sized(r) /\ Alike(r, q) /\ r.cis = q.cis BY DEF Grown
<1>3. /\ Base(D, n) <= Len(r.cis) /\ \A k \in 1..Base(D, n) : r.cis[k] = Ts[t].cis[k]
      /\ Reached(r.cis, D, n, Len(r.cis))
  BY <1>1, <1>2
<1>4. Counted(D, t, n, r.nCcalls, r.allowhook, r.errfunc, r.errorJmp) BY <1>1, <1>2 DEF Alike
<1>5. Good(Put(Ts, t, r), D) BY <1>0, <1>2, <1>3, <1>4, Stay
<1>6. QED BY <1>0, <1>5 DEF At

\* A call that overflows, or one that goes on.
LEMMA PrecallOver ==
    ASSUME NEW Ts, NEW D, NEW n, NEW t, At(Ts, D, n, t), Low(Ts), D[n].kind \in {"call", "execute", "resume"},
           NEW c \in BOOLEAN, NEW p
    PROVE  \/ Over(luaD_precall(St(Ts, D, p), t, c), p, n)
           \/ \E r, E : /\ Called(r, Ts[t], Frame(c)) /\ luaD_precall(St(Ts, D, p), t, c) = St(Put(Ts, t, r), E, p)
                        /\ Adds(D, E, CodeOf(c), t, Len(r.cis), Nothing)
<1> DEFINE s == luaD_precall(St(Ts, D, p), t, c)
           q == Ts[t]
<1>0. Good(Ts, D) /\ Len(D) = n /\ D[n].th = t BY DEF At
<1>1. /\ t \in Threads /\ Ts \in [Threads -> ThreadSet] /\ Sized(q) /\ q \in ThreadSet
      /\ Reached(q.cis, D, n, Len(q.cis))
  BY <1>0, AtTop DEF Good, ThreadOK, Sized
<1> HIDE DEF s
<1>2. CASE s = luaD_throw(St(Ts, D, p), t)
  <2>1. D[n].kind # "host" OBVIOUS
  <2>2. Over(s, p, n) BY <1>2, <2>1, ThrowOver
  <2>3. QED BY <2>2 DEF s
<1>3. ASSUME NEW r, Len(q.cis) = q.size_ci, Grown(r, q), s = luaG_runerror(St(Put(Ts, t, r), D, p), t)
      PROVE  Over(s, p, n)
  <2>1. At(Put(Ts, t, r), D, n, t) BY <1>3, Regrown
  <2>2. Low(Put(Ts, t, r))
    <3>1. r.nCcalls <= MaxC BY <1>1, <1>3 DEF Low, Grown, Alike
    <3>2. QED BY <1>1, <3>1, LowPut
  <2>3. D[n].kind # "resume"
    <3> SUFFICES ASSUME D[n].kind = "resume" PROVE FALSE OBVIOUS
    <3>1. Len(q.cis) = 1 BY <1>1 DEF Reached, Base
    <3>2. QED BY <1>1, <1>3, <3>1 DEF Sized
  <2>4. D[n].kind \in Codes \cup {"call"} BY <2>3 DEF Codes
  <2>5. QED BY <1>3, <2>1, <2>2, <2>4, ErrorOver
<1>4. \/ s = luaD_throw(St(Ts, D, p), t)
      \/ \E r : Len(q.cis) = q.size_ci /\ Grown(r, q) /\ s = luaG_runerror(St(Put(Ts, t, r), D, p), t)
      \/ \E r, E : /\ Called(r, q, Frame(c)) /\ s = St(Put(Ts, t, r), E, p)
                   /\ Adds(D, E, CodeOf(c), t, Len(r.cis), Nothing)
  BY <1>1, PrecallCases DEF s
<1>5. QED BY <1>2, <1>3, <1>4 DEF s

\* luaD_precall ends a step in a good state, whether it calls or fails.
LEMMA Precall ==
    ASSUME NEW Ts, NEW D, NEW n, NEW t, At(Ts, D, n, t), Low(Ts), D[n].kind \in {"call", "execute", "resume"},
           NEW c \in BOOLEAN, c => D[n].kind # "resume", ~c => D[n].kind # "execute", NEW p
    PROVE  Comes(luaD_precall(St(Ts, D, p), t, c), p)
<1> DEFINE s == luaD_precall(St(Ts, D, p), t, c)
<1>0. Good(Ts, D) /\ Len(D) = n /\ D[n].th = t BY DEF At
<1>1. t \in Threads /\ Ts \in [Threads -> ThreadSet] BY <1>0, AtTop DEF Good
<1> HIDE DEF s
<1>2. ASSUME NEW r, NEW E, Called(r, Ts[t], Frame(c)), s = St(Put(Ts, t, r), E, p),
             Adds(D, E, CodeOf(c), t, Len(r.cis), Nothing)
      PROVE  Comes(s, p)
  <2>1. Low(Put(Ts, t, r))
    <3>1. r.nCcalls <= MaxC BY <1>1, <1>2 DEF Low, Called, Alike
    <3>2. QED BY <1>1, <3>1, LowPut
  <2>2. At(Put(Ts, t, r), E, n + 1, t) /\ E[n + 1].kind # "resume"
    <3>1. CASE c
      <4>1. Entered(Frame(c)) BY <3>1 DEF Entered, Frame
      <4>2. CodeOf(c) = "cfunc" /\ D[n].kind \in {"call", "execute"} BY <3>1 DEF CodeOf
      <4>3. Adds(D, E, "cfunc", t, Len(r.cis), Nothing) BY <1>2, <4>2
      <4>4. At(Put(Ts, t, r), E, n + 1, t) /\ E[n + 1].kind = "cfunc" BY <1>2, <4>1, <4>2, <4>3, AddedC
      <4>5. QED BY <4>4
    <3>2. CASE ~c
      <4>1. Runs(Frame(c)) BY <3>2 DEF Runs, Frame
      <4>2. CodeOf(c) = "execute" /\ D[n].kind \in {"call", "resume"} BY <3>2 DEF CodeOf
      <4>3. Adds(D, E, "execute", t, Len(r.cis), Nothing) BY <1>2, <4>2
      <4>4. At(Put(Ts, t, r), E, n + 1, t) /\ E[n + 1].kind = "execute" BY <1>2, <4>1, <4>2, <4>3, AddedLua
      <4>5. QED BY <4>4
    <3>3. QED BY <3>1, <3>2
  <2>3. QED BY <1>2, <2>1, <2>2, SafeIs
<1>3. \/ Over(s, p, n)
      \/ \E r, E : /\ Called(r, Ts[t], Frame(c)) /\ s = St(Put(Ts, t, r), E, p)
                   /\ Adds(D, E, CodeOf(c), t, Len(r.cis), Nothing)
  BY PrecallOver DEF s
<1>4. QED BY <1>2, <1>3 DEF Over, s

Counting(q, k)  == [q EXCEPT !.nCcalls = k]
Count(s, t, k)  == [s EXCEPT !.T[t].nCcalls = k]
\* nCcalls of one thread is set.
LEMMA CountIs ==
    ASSUME NEW Ts, NEW D, NEW p, NEW t, NEW k
    PROVE  Count(St(Ts, D, p), t, k) = St(Put(Ts, t, Counting(Ts[t], k)), D, p)
<1> DEFINE r == Counting(Ts[t], k)
<1>1. Count(St(Ts, D, p), t, k) = [St(Ts, D, p) EXCEPT !.T[t] = r]
  BY DEF St, Count, Counting
<1> HIDE DEF r
<1>2. QED BY <1>1, SetIs DEF r

\* luaD_call, from any code that may call.
LEMMA Call ==
    ASSUME NEW Ts, NEW D, NEW n, NEW t, At(Ts, D, n, t), Low(Ts),
           D[n].kind \notin {"host", "parser", "error", "resume"}, NEW c \in BOOLEAN, NEW p
    PROVE  Comes(luaD_call(St(Ts, D, p), t, c), p)
<1> DEFINE S == St(Ts, D, p)
           s == luaD_call(S, t, c)
           q == Ts[t]
           k == q.nCcalls + 1
           r == Counting(q, k)
           Us == Put(Ts, t, r)
           s1 == PushC(Count(S, t, k), "call", t, Nothing)
<1>0. Good(Ts, D) /\ Len(D) = n /\ D[n].th = t BY DEF At
<1>1. t \in Threads /\ Ts \in [Threads -> ThreadSet] /\ q \in ThreadSet BY <1>0, AtTop DEF Good
<1>2. /\ k \in Nat /\ r \in ThreadSet /\ r.nCcalls = k /\ r.cis = q.cis /\ r.size_ci = q.size_ci
      /\ r.allowhook = q.allowhook /\ r.errfunc = q.errfunc /\ r.errorJmp = q.errorJmp
  <2>1. k \in Nat BY <1>1 DEF ThreadSet
  <2> HIDE DEF k, q
  <2>2. QED BY <1>1, <2>1 DEF Counting, ThreadSet
<1>3. S.T[t] = q BY Fields
<1>4. Count(S, t, k) = St(Us, D, p) BY CountIs
<1>5. Us[t] = r /\ Us \in [Threads -> ThreadSet] /\ \A u \in Threads \ {t} : Us[u] = Ts[u] BY <1>1, <1>2, PutIs
<1> HIDE DEF S, r, Us, k
<1>6. s = IF k = LUA_MAXCCALLS THEN luaG_runerror(s1, t)
          ELSE IF k >= LUA_MAXCCALLS + EXTRACCALLS THEN luaD_throw(s1, t)
          ELSE luaD_precall(s1, t, c)
  BY <1>3 DEF luaD_call, Count, k
<1>7. PICK E : PushC(St(Us, D, p), "call", t, Nothing) = St(Us, E, p) /\ Adds(D, E, "call", t, Len(Us[t].cis), Nothing)
  BY PushIs
<1>8. s1 = St(Us, E, p) BY <1>4, <1>7
<1> HIDE DEF s, s1
<1>9. At(Us, E, n + 1, t) /\ E[n + 1].kind = "call"
  <2>1. Adds(D, E, "call", t, Len(q.cis), Nothing) BY <1>2, <1>5, <1>7
  <2>2. Keeping(q, "call", Nothing) /\ "call" \in Plain BY DEF Keeping, Saved, Protected, Plain
  <2>3. MayFollow("call", D, n)
    <3>1. n # 1 BY NotFirst
    <3>2. QED BY <3>1 DEF MayFollow
  <2>4. SameCis(r, q) BY <1>2 DEF SameCis
  <2>5. Tallied(r, q, "call", n)
    <3>1. q.allowhook \in BOOLEAN BY <1>1 DEF ThreadSet
    <3>2. r.nCcalls = q.nCcalls + 1 BY <1>2 DEF k
    <3> HIDE DEF q
    <3>3. QED BY <1>2, <3>1, <3>2 DEF Tallied, Protected
  <2>6. At(Put(Ts, t, r), E, n + 1, t) /\ Tops(E, n, "call", t, Len(r.cis), Nothing)
    BY <1>2, <2>1, <2>2, <2>3, <2>4, <2>5, Pushed
  <2>7. QED BY <2>6 DEF Us, Tops
<1>10. k <= MaxC => Low(Us) BY <1>1, <1>2, LowPut DEF Us
<1>11. CASE k = LUA_MAXCCALLS
  <2>1. Low(Us) BY <1>2, <1>10, <1>11, Limits
  <2>2. Over(luaG_runerror(St(Us, E, p), t), p, n) BY <1>9, <2>1, ErrorOver
  <2>3. QED BY <1>6, <1>8, <1>11, <2>2 DEF Over, s, S
<1>12. CASE k # LUA_MAXCCALLS /\ k >= LUA_MAXCCALLS + EXTRACCALLS
  <2>1. Good(Us, E) /\ Len(E) = n + 1 /\ E[n + 1].th = t BY <1>9 DEF At
  <2>2. n + 1 >= 2 BY <1>0, <1>9, NotFirst
  <2>3. \A u \in Threads \ {t} : Us[u].nCcalls <= MaxC BY <1>5 DEF Low
  <2>4. E[n + 1].kind = "parser" => Us[t].nCcalls <= MaxC BY <1>9
  <2>5. Comes(luaD_throw(St(Us, E, p), t), p) BY <2>1, <2>2, <2>3, <2>4, Throw
  <2>6. QED BY <1>6, <1>8, <1>12, <2>5 DEF s, S
<1>13. CASE k # LUA_MAXCCALLS /\ ~(k >= LUA_MAXCCALLS + EXTRACCALLS)
  <2>1. Low(Us) BY <1>2, <1>10, <1>13, Limits
  <2>2. Comes(luaD_precall(St(Us, E, p), t, c), p)
    <3>1. E[n + 1].kind \in {"call", "execute", "resume"} /\ E[n + 1].kind # "resume" /\ E[n + 1].kind # "execute" BY <1>9
    <3>2. QED BY <1>9, <2>1, <3>1, Precall
  <2>3. QED BY <1>6, <1>8, <1>13, <2>2 DEF s, S
<1>14. QED BY <1>11, <1>12, <1>13

-----------------------------------------------------------------------------
(* Steps that several actions take.                                            *)

\* An entry is popped, of which its thread keeps nothing.
Unwinds(r, Ts, D, n, t) ==
    /\ r \in ThreadSet /\ Sized(r) /\ Untallied(r, Ts[t], D, t, n - 1)
    /\ Len(r.cis) = In(D, n) /\ \A k \in 1..In(D, n) : r.cis[k] = Ts[t].cis[k]
\* A good state is good when an entry is popped and its thread is as the entry found it.
LEMMA Popped ==
    ASSUME NEW Ts, NEW D, NEW n, NEW t, At(Ts, D, n, t), D[n].kind \notin {"host", "resume"},
           NEW r, Unwinds(r, Ts, D, n, t)
    PROVE  /\ At(Put(Ts, t, r), SubSeq(D, 1, n - 1), n - 1, t)
           /\ D[n].kind # "execute" => D[n - 1].kind # "resume"
<1> DEFINE m == n - 1
           q == Ts[t]
<1>0. Good(Ts, D) /\ Len(D) = n /\ D[n].th = t BY DEF At
<1>1. /\ n \in Nat /\ n >= 2 /\ m \in Nat /\ m >= 1 /\ m < Len(D) /\ m + 1 = n /\ EntryOK(Ts, D, n)
      /\ Counted(D, t, n, q.nCcalls, q.allowhook, q.errfunc, q.errorJmp) /\ D \in Seq(EntrySet)
  BY <1>0, AtTop, NotFirst
<1>2. Stands(D, n) /\ SavedOK(D, n) BY <1>1 DEF EntryOK
<1>3. D[m].th = t BY <1>0, <1>2 DEF Stands
<1>4. \A i \in m..Len(D) : D[i].th = t
  <2>1. \A i \in m..Len(D) : i = m \/ i = n BY <1>0, <1>1
  <2>2. QED BY <1>0, <1>3, <2>1
<1>5. /\ r \in ThreadSet /\ Sized(r) /\ Untallied(r, q, D, t, m)
      /\ Len(r.cis) = In(D, m + 1) /\ \A k \in 1..In(D, m + 1) : r.cis[k] = Ts[t].cis[k]
  BY <1>1 DEF Unwinds
<1> HIDE DEF m, q
<1>6. Counted(D, t, m, r.nCcalls, r.allowhook, r.errfunc, r.errorJmp)
  <2>1. Counted(D, t, m + 1, q.nCcalls, q.allowhook, q.errfunc, q.errorJmp) /\ D[m + 1].th = t /\ SavedOK(D, m + 1)
    BY <1>0, <1>1, <1>2
  <2>2. QED BY <1>1, <1>5, <2>1, PopCounted
<1>7. Good(Put(Ts, t, r), SubSeq(D, 1, m)) BY <1>0, <1>1, <1>4, <1>5, <1>6, Pop
<1>8. Len(SubSeq(D, 1, m)) = m /\ SubSeq(D, 1, m)[m] = D[m] BY <1>1
<1>9. QED BY <1>2, <1>3, <1>7, <1>8 DEF At, m, Stands

\* A protected call or the parser begins.
Catching(q, k) == [q EXCEPT !.errorJmp = k]
\* A good state in which a protected call or the parser has begun is good.
LEMMA RawAt ==
    ASSUME NEW Ts, NEW D, NEW n, NEW t, At(Ts, D, n, t), Low(Ts), NEW kind, kind \in {"pcall", "parser"},
           MayFollow(kind, D, n), NEW p
    PROVE  \E r, E : /\ rawrunprotected(St(Ts, D, p), kind, t) = St(Put(Ts, t, r), E, p)
                     /\ At(Put(Ts, t, r), E, n + 1, t) /\ Low(Put(Ts, t, r))
                     /\ E[n + 1].kind = kind
<1> DEFINE q == Ts[t]
           r == Catching(q, n + 1)
<1>0. Good(Ts, D) /\ Len(D) = n /\ D[n].th = t BY DEF At
<1>1. n \in Nat /\ t \in Threads /\ Ts \in [Threads -> ThreadSet] /\ q \in ThreadSet BY <1>0, AtTop DEF Good
<1>2. /\ r \in ThreadSet /\ r.nCcalls = q.nCcalls /\ r.allowhook = q.allowhook /\ r.errfunc = q.errfunc
      /\ r.errorJmp = n + 1 /\ r.cis = q.cis /\ r.size_ci = q.size_ci
  <2>1. n + 1 \in Nat BY <1>1
  <2> HIDE DEF q
  <2>2. QED BY <1>1, <2>1 DEF Catching, ThreadSet
<1>3. PICK E : /\ rawrunprotected(St(Ts, D, p), kind, t) = St(Put(Ts, t, r), E, p)
               /\ Adds(D, E, kind, t, Len(q.cis), Handler(q))
  BY <1>0, RawPick DEF Catching
<1>4. q.nCcalls \in Nat /\ q.nCcalls <= MaxC /\ q.allowhook \in BOOLEAN BY <1>1 DEF Low, ThreadSet
<1>5. Handler(q) \in Saved
  <2>1. /\ Len(q.cis) \in Nat /\ q.nCcalls \in Nat /\ q.allowhook \in BOOLEAN /\ q.errfunc \in ErrFuncs
        /\ q.errorJmp \in Nat
    BY <1>1 DEF ThreadSet
  <2>2. QED BY <2>1 DEF Handler, Saved
<1> HIDE DEF r, q
<1>6. Keeping(q, kind, Handler(q)) BY <1>4, <1>5 DEF Keeping
<1>7. Tallied(r, q, kind, n) BY <1>2, <1>4 DEF Tallied, Protected
<1>8. SameCis(r, q) /\ kind \in Plain BY <1>2 DEF SameCis, Plain
<1>9. At(Put(Ts, t, r), E, n + 1, t) /\ Tops(E, n, kind, t, Len(r.cis), Handler(q))
  BY <1>2, <1>3, <1>6, <1>7, <1>8, Pushed DEF q
<1>10. Low(Put(Ts, t, r)) BY <1>1, <1>2, <1>4, LowPut
<1>11. QED BY <1>3, <1>9, <1>10 DEF Tops

\* luaD_rawrunprotected returns.
LEMMA Ended ==
    ASSUME NEW Ts, NEW D, NEW n, NEW t, At(Ts, D, n, t), Low(Ts), D[n].kind \in {"pcall", "parser"}, NEW p
    PROVE  Comes(Unprotected(St(Ts, D, p)), p)
<1> DEFINE q == Ts[t]
           e == D[n]
           r == Unhandled(q, e)
<1>0. Good(Ts, D) /\ Len(D) = n /\ D[n].th = t BY DEF At
<1>1. /\ n \in Nat /\ n >= 1 /\ t \in Threads /\ Ts \in [Threads -> ThreadSet] /\ q \in ThreadSet /\ EntryOK(Ts, D, n)
      /\ Reached(q.cis, D, n, Len(q.cis)) /\ Sized(q)
  BY <1>0, AtTop DEF Good, ThreadOK, Sized
<1>2. SavedOK(D, n) /\ Stands(D, n) BY <1>1 DEF EntryOK
<1>3. e.saved.previous \in Nat /\ e.saved.errfunc \in ErrFuncs
  <2>1. e.kind \in Protected BY DEF Protected
  <2>2. QED BY <1>1, <1>2, <2>1 DEF SavedOK, Counted, Catches
<1>4. /\ r \in ThreadSet /\ r.cis = q.cis /\ r.nCcalls = q.nCcalls /\ r.allowhook = q.allowhook
      /\ r.errfunc = (IF e.kind = "pcall" THEN e.saved.errfunc ELSE q.errfunc) /\ r.errorJmp = e.saved.previous
      /\ r.size_ci = q.size_ci
  <2> HIDE DEF q, e
  <2>1. QED BY <1>1, <1>3 DEF Unhandled, ThreadSet
<1>5. Unprotected(St(Ts, D, p)) = St(Put(Ts, t, r), SubSeq(D, 1, n - 1), p)
  <2>1. D[Len(D)] = e /\ e.th \in Threads /\ e.th = t /\ Len(D) = n BY <1>0, <1>1
  <2>2. Unprotected(St(Ts, D, p)) = St(Put(Ts, e.th, Unhandled(Ts[e.th], e)), SubSeq(D, 1, Len(D) - 1), p)
    <3> HIDE DEF e
    <3>1. QED BY <1>1, <2>1, UnprotectedIs
  <2>3. QED BY <2>1, <2>2
<1> HIDE DEF r
<1>6. Unwinds(r, Ts, D, n, t)
  <2>1. (n - 1) + 1 = n BY <1>1
  <2>2. Untallied(r, q, D, t, n - 1) BY <1>4, <2>1 DEF Untallied, Protected
  <2>3. Len(q.cis) = In(D, n) BY <1>1 DEF Reached, In
  <2>4. Sized(r) BY <1>1, <1>4 DEF Sized
  <2>5. QED BY <1>4, <2>2, <2>3, <2>4 DEF Unwinds
<1>7. At(Put(Ts, t, r), SubSeq(D, 1, n - 1), n - 1, t) /\ D[n - 1].kind # "resume"
  <2>1. D[n].kind \notin {"host", "resume"} /\ D[n].kind # "execute" OBVIOUS
  <2>2. QED BY <1>6, <2>1, Popped
<1>8. Low(Put(Ts, t, r))
  <2>1. r.nCcalls <= MaxC BY <1>1, <1>4 DEF Low
  <2>2. QED BY <1>1, <2>1, LowPut
<1>9. SubSeq(D, 1, n - 1)[n - 1] = D[n - 1]
  <2>1. n >= 2 BY NotFirst
  <2>2. D \in Seq(EntrySet) BY <1>0 DEF Good
  <2>3. QED BY <1>0, <1>1, <2>1, <2>2
<1>10. QED BY <1>5, <1>7, <1>8, <1>9, SafeIs

\* What lua_resume finds: the coroutine is at its base, as before any call.
Fresh(q, e) == /\ q.nCcalls = 0 /\ q.allowhook = TRUE /\ q.errfunc = "none" /\ Len(q.cis) = 1
               /\ e.saved.previous = 0
\* When control is back at lua_resume, the coroutine has nothing in progress.
LEMMA Resumed ==
    ASSUME NEW Ts, NEW D, NEW n, NEW t, At(Ts, D, n, t), D[n].kind = "resume"
    PROVE  Fresh(Ts[t], D[n])
<1> DEFINE q == Ts[t]
           m == n - 1
<1>0. Good(Ts, D) /\ Len(D) = n /\ D[n].th = t BY DEF At
<1>1. /\ n \in Nat /\ n >= 2 /\ m \in Nat /\ m + 1 = n /\ EntryOK(Ts, D, n)
      /\ Counted(D, t, n, q.nCcalls, q.allowhook, q.errfunc, q.errorJmp)
      /\ Reached(q.cis, D, n, Len(q.cis))
  BY <1>0, AtTop, NotFirst
<1>2. Stands(D, n) /\ SavedOK(D, n) BY <1>1 DEF EntryOK
<1>3. \A i \in 1..m : D[i].th # t BY <1>0, <1>2 DEF Stands
<1>4. \A x : Catches(D, t, m, x) => x = 0 BY <1>1, <1>3 DEF Catches
<1>5. D[n].saved.previous = 0
  <2>1. D[n].kind \in Protected BY DEF Protected
  <2>2. Catches(D, t, m, D[n].saved.previous) BY <1>0, <1>2, <2>1 DEF SavedOK, Counted
  <2>3. QED BY <1>4, <2>2
<1>6. \A i \in 1..n : D[i].th = t => i = n
  <2>1. \A i \in 1..n : i \in 1..m \/ i = n BY <1>1
  <2>2. QED BY <1>3, <2>1
<1>7. q.nCcalls = 0
  <2>1. \A i \in 1..n : D[i].th = t => D[i].kind # "call" BY <1>6
  <2>2. Calls(D, t, n) = 0 BY <1>1, <2>1, CallsNone
  <2>3. QED BY <1>1, <2>2 DEF Counted
<1>8. q.allowhook = TRUE
  <2>1. Quiet(D, t, n) = TRUE BY <1>6 DEF Quiet
  <2>2. QED BY <1>1, <2>1 DEF Counted
<1>9. q.errfunc = "none"
  <2>1. \A i \in 1..n : D[i].th = t => D[i].kind # "pcall" BY <1>6
  <2>2. QED BY <1>1, <2>1 DEF Counted
<1>10. Len(q.cis) = 1 BY <1>1 DEF Reached, Base
<1>11. QED BY <1>5, <1>7, <1>8, <1>9, <1>10 DEF Fresh

\* A coroutine goes to sleep: its only entry, lua_resume, goes.
Sleeps(r, q) ==
    /\ r \in ThreadSet /\ Sized(r) /\ Len(r.cis) >= 1 /\ r.cis[1] = q.cis[1] /\ Asleep(r.cis)
    /\ r.nCcalls = 0 /\ r.allowhook = TRUE /\ r.errfunc = "none" /\ r.errorJmp = 0
\* A good state is good without a coroutine, from its lua_resume up, that goes to sleep.
LEMMA Left ==
    ASSUME NEW Ts, NEW D, NEW n, NEW t, At(Ts, D, n, t), Low(Ts), NEW m, m \in 2..n, D[m].kind = "resume", D[m].th = t,
           NEW r, Sleeps(r, Ts[t]), NEW p
    PROVE  Comes(St(Put(Ts, t, r), SubSeq(D, 1, m - 1), p), p)
<1> DEFINE k == m - 1
           u == D[k].th
           E == SubSeq(D, 1, k)
<1>0. Good(Ts, D) /\ Len(D) = n /\ D[n].th = t BY DEF At
<1>1. /\ n \in Nat /\ t \in Threads /\ Ts \in [Threads -> ThreadSet] /\ D \in Seq(EntrySet)
      /\ m \in Nat /\ k \in Nat /\ k >= 1 /\ k + 1 = m /\ k < Len(D) /\ m \in 1..Len(D)
  BY <1>0, AtTop DEF Good
<1>2. \A i \in (k + 1)..Len(D) : D[i].th = t
  <2>1. CASE m = n BY <1>0, <1>1, <2>1
  <2>2. CASE m < n
    <3>1. PairOK(D, m, n) BY <1>0, <1>1, <2>2 DEF Good
    <3>2. QED BY <1>0, <1>1, <3>1 DEF PairOK
  <2>3. QED BY <1>0, <1>1, <2>1, <2>2
<1>3. /\ r \in ThreadSet /\ Sized(r) /\ Len(r.cis) >= 1 /\ r.cis[1] = Ts[t].cis[1] /\ Asleep(r.cis)
      /\ r.nCcalls = 0 /\ r.allowhook = TRUE /\ r.errfunc = "none" /\ r.errorJmp = 0
  BY DEF Sleeps
<1>4. Good(Put(Ts, t, r), E) BY <1>0, <1>1, <1>2, <1>3, Leave
<1>5. Len(E) = k /\ E[k] = D[k] BY <1>1
<1>6. D[k].kind = "cfunc"
  <2>1. EntryOK(Ts, D, m) /\ m # 1 BY <1>0, <1>1 DEF Good
  <2>2. Stands(D, m) BY <2>1 DEF EntryOK
  <2>3. QED BY <2>2 DEF Stands, On
<1>7. Low(Put(Ts, t, r))
  <2>1. r.nCcalls <= MaxC BY <1>3, Limits
  <2>2. QED BY <1>1, <2>1, LowPut
<1>8. At(Put(Ts, t, r), E, k, u) /\ E[k].kind # "resume" BY <1>4, <1>5, <1>6 DEF At
<1>9. QED BY <1>7, <1>8, SafeIs

\* A function returns.
Cut1(q)      == [q EXCEPT !.cis = SubSeq(@, 1, Len(@) - 1)]
Uncount(q)   == [q EXCEPT !.nCcalls = @ - 1]
Started(q)   == [q EXCEPT !.function = FALSE]
DoCut(s, t)     == [s EXCEPT !.T[t].cis = SubSeq(@, 1, Len(@) - 1)]
DoUncount(s, t) == [s EXCEPT !.T[t].nCcalls = @ - 1]
DoStart(s, t)   == [s EXCEPT !.T[t].function = FALSE]
\* The last CallInfo of one thread goes.
LEMMA CutIs ==
    ASSUME NEW Ts, NEW D, NEW p, NEW t
    PROVE  DoCut(St(Ts, D, p), t) = St(Put(Ts, t, Cut1(Ts[t])), D, p)
<1> DEFINE r == Cut1(Ts[t])
<1>1. DoCut(St(Ts, D, p), t) = [St(Ts, D, p) EXCEPT !.T[t] = r]
  BY DEF St, DoCut, Cut1
<1> HIDE DEF r
<1>2. QED BY <1>1, SetIs DEF r

\* One luaD_call less for one thread.
LEMMA UncountIs ==
    ASSUME NEW Ts, NEW D, NEW p, NEW t
    PROVE  DoUncount(St(Ts, D, p), t) = St(Put(Ts, t, Uncount(Ts[t])), D, p)
<1> DEFINE r == Uncount(Ts[t])
<1>1. DoUncount(St(Ts, D, p), t) = [St(Ts, D, p) EXCEPT !.T[t] = r]
  BY DEF St, DoUncount, Uncount
<1> HIDE DEF r
<1>2. QED BY <1>1, SetIs DEF r

\* The function that a coroutine was to start with is gone.
LEMMA StartIs ==
    ASSUME NEW Ts, NEW D, NEW p, NEW t
    PROVE  DoStart(St(Ts, D, p), t) = St(Put(Ts, t, Started(Ts[t])), D, p)
<1> DEFINE r == Started(Ts[t])
<1>1. DoStart(St(Ts, D, p), t) = [St(Ts, D, p) EXCEPT !.T[t] = r]
  BY DEF St, DoStart, Started
<1> HIDE DEF r
<1>2. QED BY <1>1, SetIs DEF r

\* A CallInfo less.
LEMMA Cut1Is ==
    ASSUME NEW q \in ThreadSet, Sized(q), Len(q.cis) >= 2
    PROVE  /\ Cut1(q) \in ThreadSet /\ Sized(Cut1(q)) /\ Alike(Cut1(q), q)
           /\ Len(Cut1(q).cis) = Len(q.cis) - 1 /\ \A k \in 1..(Len(q.cis) - 1) : Cut1(q).cis[k] = q.cis[k]
<1> DEFINE cut == SubSeq(q.cis, 1, Len(q.cis) - 1)
           r == [q EXCEPT !.cis = cut]
<1>1. q.cis \in Seq(Frames) /\ Len(q.cis) \in Nat /\ q.size_ci \in Nat BY DEF ThreadSet
<1>2. /\ cut \in Seq(Frames) /\ Len(cut) = Len(q.cis) - 1
      /\ \A k \in 1..(Len(q.cis) - 1) : cut[k] = q.cis[k]
  BY <1>1
<1>3. Cut1(q) = r BY DEF Cut1
<1> HIDE DEF cut
<1>4. r \in ThreadSet /\ r.cis = cut /\ r.size_ci = q.size_ci /\ Alike(r, q) BY <1>2 DEF ThreadSet, Alike
<1> HIDE DEF r
<1>5. Sized(r) BY <1>1, <1>2, <1>4 DEF Sized
<1>6. QED BY <1>2, <1>3, <1>4, <1>5

\* The function of the innermost entry is the last of the thread, and rests on what called it.
LEMMA LastFrame ==
    ASSUME NEW Ts, NEW D, NEW n, NEW t, At(Ts, D, n, t), D[n].kind \in {"execute", "cfunc"},
           D[n].kind = "execute" => ~Ts[t].cis[Len(Ts[t].cis) - 1].calling
    PROVE  Len(Ts[t].cis) >= 2 /\ In(D, n) = Len(Ts[t].cis) - 1
<1> DEFINE cis == Ts[t].cis
<1>0. Good(Ts, D) /\ Len(D) = n /\ D[n].th = t BY DEF At
<1>1. /\ n \in Nat /\ Reached(cis, D, n, Len(cis)) /\ EntryOK(Ts, D, n) /\ Len(cis) \in Nat
      /\ Base(D, n) \in Nat /\ 1 <= Base(D, n)
  BY <1>0, AtTop
<1> HIDE DEF cis
<1>2. CASE D[n].kind = "cfunc"
  <2>1. Len(cis) = D[n].at /\ In(D, n) = D[n].at - 1 BY <1>1, <1>2 DEF Reached, Base, In
  <2>2. D[n].at > 1 BY <1>1, <1>2 DEF EntryOK, FramesOK
  <2>3. QED BY <1>1, <2>1, <2>2 DEF cis
<1>3. CASE D[n].kind = "execute"
  <2>1. Region(cis, Base(D, n), Len(cis)) /\ In(D, n) = Base(D, n) BY <1>1, <1>3 DEF Reached, In
  <2>2. ~cis[Len(cis) - 1].calling BY <1>3 DEF cis
  <2>3. Base(D, n) = Len(cis) - 1
    <3> SUFFICES ASSUME Base(D, n) # Len(cis) - 1 PROVE FALSE OBVIOUS
    <3>1. Len(cis) - 1 \in (Base(D, n) + 1)..Len(cis) /\ Len(cis) - 1 < Len(cis) BY <1>1, <2>1 DEF Region
    <3>2. QED BY <2>1, <2>2, <3>1 DEF Region
  <2>4. QED BY <1>1, <2>1, <2>3 DEF cis
<1>4. QED BY <1>2, <1>3

Cuts(A, E, Ts, D, n, t) == A = Put(Ts, t, Cut1(Ts[t])) /\ E = SubSeq(D, 1, n - 1) /\ Len(E) = n - 1
\* A return by cases: to luaD_call, to lua_resume, or to the code that called.
LEMMA ReturnedIs ==
    ASSUME NEW Ts, NEW D, NEW n, NEW t, At(Ts, D, n, t), NEW p, NEW A, NEW E, Cuts(A, E, Ts, D, n, t)
    PROVE  Returned(St(Ts, D, p)) =
             CASE E[n - 1].kind = "call"   -> PopC(DoUncount(St(A, E, p), t))
               [] E[n - 1].kind = "resume" -> Unprotected(DoStart(St(A, E, p), t))
               [] OTHER                    -> St(A, E, p)
<1> DEFINE S == St(Ts, D, p)
           r == PopC(DoCut(S, t))
<1>0. Len(D) = n /\ D[n].th = t BY DEF At
<1>1. Innermost(S) = D[n] BY <1>0, Fields
<1>2. DoCut(S, t) = St(A, D, p) BY CutIs DEF Cuts
<1>3. r = St(A, E, p)
  <2>1. PopC(St(A, D, p)) = St(A, SubSeq(D, 1, Len(D) - 1), p) BY PopCIs
  <2>2. E = SubSeq(D, 1, Len(D) - 1) BY <1>0 DEF Cuts
  <2>3. QED BY <1>2, <2>1, <2>2
<1> HIDE DEF S, r
<1>4. Returned(S) = CASE Innermost(r).kind = "call"   -> PopC(DoUncount(r, t))
                      [] Innermost(r).kind = "resume" -> Unprotected(DoStart(r, t))
                      [] OTHER                        -> r
  BY <1>0, <1>1 DEF Returned, DoCut, DoUncount, DoStart, r
<1>5. Innermost(r) = E[n - 1]
  <2>1. Innermost(St(A, E, p)) = E[Len(E)] BY Fields
  <2>2. QED BY <1>3, <2>1 DEF Cuts
<1>6. QED BY <1>3, <1>4, <1>5 DEF S

\* A function of either kind returns, and leaves a good state behind.
LEMMA Return ==
    ASSUME NEW Ts, NEW D, NEW n, NEW t, At(Ts, D, n, t), Low(Ts), D[n].kind \in {"execute", "cfunc"},
           D[n].kind = "execute" => ~Ts[t].cis[Len(Ts[t].cis) - 1].calling, NEW p
    PROVE  Comes(Returned(St(Ts, D, p)), p)
<1> DEFINE q == Ts[t]
           m == n - 1
           r == Cut1(q)
           A == Put(Ts, t, r)
           E == SubSeq(D, 1, m)
           s == Returned(St(Ts, D, p))
<1>0. Good(Ts, D) /\ Len(D) = n /\ D[n].th = t BY DEF At
<1>1. /\ n \in Nat /\ n >= 2 /\ m \in Nat /\ m >= 1 /\ m + 1 = n /\ t \in Threads /\ Ts \in [Threads -> ThreadSet]
      /\ q \in ThreadSet /\ Sized(q) /\ D \in Seq(EntrySet) /\ EntryOK(Ts, D, n)
  BY <1>0, AtTop, NotFirst DEF Good, ThreadOK, Sized
<1>2. Len(q.cis) >= 2 /\ In(D, n) = Len(q.cis) - 1 BY LastFrame
<1>3. /\ r \in ThreadSet /\ Sized(r) /\ Alike(r, q)
      /\ Len(r.cis) = Len(q.cis) - 1 /\ \A k \in 1..(Len(q.cis) - 1) : r.cis[k] = q.cis[k]
  BY <1>1, <1>2, Cut1Is
<1> HIDE DEF r
<1>4. Unwinds(r, Ts, D, n, t)
  <2>1. Untallied(r, q, D, t, n - 1) BY <1>1, <1>3 DEF Untallied, Alike, Protected
  <2>2. QED BY <1>2, <1>3, <2>1 DEF Unwinds
<1>5. At(A, E, m, t)
  <2>1. D[n].kind \notin {"host", "resume"} OBVIOUS
  <2>2. QED BY <1>4, <2>1, Popped
<1>6. A[t] = r /\ A \in [Threads -> ThreadSet] BY <1>1, <1>3, PutIs
<1>7. Low(A)
  <2>1. r.nCcalls <= MaxC BY <1>1, <1>3 DEF Low, Alike
  <2>2. QED BY <1>1, <2>1, LowPut
<1>8. Len(E) = m /\ E[m] = D[m] BY <1>0, <1>1
<1>9. Stands(D, n) BY <1>1 DEF EntryOK
<1>10. s = CASE E[m].kind = "call"   -> PopC(DoUncount(St(A, E, p), t))
             [] E[m].kind = "resume" -> Unprotected(DoStart(St(A, E, p), t))
             [] OTHER                -> St(A, E, p)
  <2>1. Cuts(A, E, Ts, D, n, t) BY <1>8 DEF r, Cuts
  <2> HIDE DEF A, E, m
  <2>2. Returned(St(Ts, D, p)) =
             CASE E[n - 1].kind = "call"   -> PopC(DoUncount(St(A, E, p), t))
               [] E[n - 1].kind = "resume" -> Unprotected(DoStart(St(A, E, p), t))
               [] OTHER                    -> St(A, E, p)
    BY <2>1, ReturnedIs
  <2>3. n - 1 = m BY DEF m
  <2>4. QED BY <2>2, <2>3
<1> HIDE DEF A, E, s
<1>11. CASE E[m].kind = "call"
  <2> DEFINE r2 == Uncount(r)
             A2 == Put(A, t, r2)
             F  == SubSeq(E, 1, m - 1)
  <2>0. Good(A, E) /\ E[m].th = t BY <1>5 DEF At
  <2>1. /\ m \in Nat /\ m >= 2 /\ EntryOK(A, E, m) /\ Counted(E, t, m, r.nCcalls, r.allowhook, r.errfunc, r.errorJmp)
        /\ Reached(r.cis, E, m, Len(r.cis)) /\ E \in Seq(EntrySet)
    <3>1. E[m].kind # "host" BY <1>11
    <3>2. QED BY <1>5, <1>6, <1>8, <2>0, <3>1, AtTop, NotFirst
  <2>2. r.nCcalls - 1 \in Nat
    <3>2. (m - 1) + 1 = m /\ m - 1 \in Nat BY <2>1
    <3>1. r.nCcalls = Calls(E, t, (m - 1) + 1) /\ Calls(E, t, m - 1) \in Nat
      BY <2>1, <3>2, CallsFinite DEF Counted
    <3>3. Calls(E, t, (m - 1) + 1) = Calls(E, t, m - 1) + 1 BY <1>11, <2>0, <3>1, <3>2, CallsNext
    <3>4. QED BY <3>1, <3>3
  <2>3. /\ r2 \in ThreadSet /\ r2.nCcalls = r.nCcalls - 1 /\ r2.cis = r.cis /\ r2.size_ci = r.size_ci
        /\ r2.allowhook = r.allowhook /\ r2.errfunc = r.errfunc /\ r2.errorJmp = r.errorJmp
    BY <1>3, <2>2 DEF Uncount, ThreadSet
  <2> HIDE DEF r2
  <2>4. Unwinds(r2, A, E, m, t)
    <3>1. (m - 1) + 1 = m BY <2>1
    <3>2. Untallied(r2, r, E, t, m - 1) BY <1>11, <2>3, <3>1 DEF Untallied, Protected
    <3>3. Len(r.cis) = In(E, m) BY <1>11, <2>1 DEF Reached, In
    <3>4. Sized(r2) BY <1>3, <2>3 DEF Sized
    <3>5. QED BY <1>6, <2>3, <3>2, <3>3, <3>4 DEF Unwinds
  <2>5. At(A2, F, m - 1, t) /\ E[m - 1].kind # "resume"
    <3>1. E[m].kind \notin {"host", "resume"} /\ E[m].kind # "execute" BY <1>11
    <3>2. QED BY <1>5, <2>4, <3>1, Popped
  <2>6. Low(A2)
    <3>1. r2.nCcalls <= MaxC
      <4>1. r.nCcalls <= MaxC /\ r.nCcalls \in Nat BY <1>1, <1>3, <1>6, <1>7 DEF Low, ThreadSet
      <4>2. QED BY <2>3, <4>1, Limits
    <3>2. QED BY <1>1, <1>6, <1>7, <3>1, LowPut
  <2>7. F[m - 1] = E[m - 1] BY <1>8, <2>1
  <2>8. s = St(A2, F, p)
    <3>1. DoUncount(St(A, E, p), t) = St(A2, E, p) BY <1>6, UncountIs DEF r2
    <3> HIDE DEF A2
    <3>2. PopC(St(A2, E, p)) = St(A2, F, p) BY <1>8, PopCIs
    <3>3. QED BY <1>10, <1>11, <3>1, <3>2
  <2> HIDE DEF A2, F
  <2>9. QED BY <2>5, <2>6, <2>7, <2>8, SafeIs DEF s
<1>12. CASE E[m].kind = "resume"
  <2> DEFINE r2 == Started(r)
             A2 == Put(A, t, r2)
             e  == E[m]
             r3 == Unhandled(r2, e)
  <2>0. Good(A, E) /\ E[m].th = t BY <1>5 DEF At
  <2>1. /\ r.nCcalls = 0 /\ r.allowhook = TRUE /\ r.errfunc = "none"
        /\ e.saved.previous = 0 /\ Len(r.cis) = 1
    <3>1. Fresh(A[t], E[m])
      <4> HIDE DEF m
      <4>1. QED BY <1>5, <1>12, Resumed
    <3>2. QED BY <1>6, <3>1 DEF Fresh
  <2>2. m >= 2 /\ E \in Seq(EntrySet) BY <1>5, <1>12, <2>0, NotFirst DEF Good
  <2>3. /\ r2 \in ThreadSet /\ r2.cis = r.cis /\ r2.nCcalls = 0 /\ r2.allowhook = TRUE /\ r2.errfunc = "none"
        /\ r2.size_ci = r.size_ci
    BY <1>3, <2>1 DEF Started, ThreadSet
  <2> HIDE DEF r2
  <2>4. /\ r3 \in ThreadSet /\ r3.cis = r.cis /\ r3.nCcalls = 0 /\ r3.allowhook = TRUE /\ r3.errfunc = "none"
        /\ r3.size_ci = r.size_ci /\ r3.errorJmp = 0
    <3>1. e.kind # "pcall" BY <1>12
    <3> HIDE DEF e
    <3>2. QED BY <2>1, <2>3, <3>1 DEF Unhandled, ThreadSet
  <2>5. A2[t] = r2 /\ A2 \in [Threads -> ThreadSet] BY <1>1, <1>6, <2>3, PutIs
  <2>6. DoStart(St(A, E, p), t) = St(A2, E, p) BY <1>6, StartIs DEF r2
  <2> HIDE DEF r3
  <2>7. Put(A2, t, r3) = Put(A, t, r3) BY DEF Put
  <2> HIDE DEF A2
  <2>8. Unprotected(St(A2, E, p)) = St(Put(A2, t, r3), SubSeq(E, 1, m - 1), p)
    <3>1. E[Len(E)] = e /\ e.th = t BY <1>8, <2>0
    <3> HIDE DEF e
    <3>2. Unprotected(St(A2, E, p)) = St(Put(A2, e.th, Unhandled(A2[e.th], e)), SubSeq(E, 1, Len(E) - 1), p)
      BY <1>1, <2>5, <3>1, UnprotectedIs
    <3>3. QED BY <1>8, <2>5, <3>1, <3>2 DEF r3
  <2>9. Sleeps(r3, A[t])
    <3>1. Sized(r3) BY <1>3, <2>4 DEF Sized
    <3>2. Len(r3.cis) = 1 /\ r3.cis[1] = A[t].cis[1] BY <1>6, <2>1, <2>4
    <3>3. Asleep(r3.cis) BY <3>2 DEF Asleep
    <3>4. QED BY <2>4, <3>1, <3>2, <3>3 DEF Sleeps
  <2>10. Comes(St(Put(A, t, r3), SubSeq(E, 1, m - 1), p), p)
    <3>1. m \in 2..m BY <1>1, <2>2
    <3>2. QED BY <1>5, <1>7, <1>12, <2>0, <2>9, <3>1, Left
  <2>11. s = St(Put(A, t, r3), SubSeq(E, 1, m - 1), p) BY <1>10, <1>12, <2>6, <2>7, <2>8
  <2>12. QED BY <2>10, <2>11 DEF s
<1>13. CASE E[m].kind \notin {"call", "resume"}
  <2>1. s = St(A, E, p) BY <1>10, <1>13
  <2>2. Comes(St(A, E, p), p) BY <1>5, <1>7, <1>13, SafeIs
  <2>3. QED BY <2>1, <2>2 DEF s
<1>14. QED BY <1>11, <1>12, <1>13
=============================================================================
