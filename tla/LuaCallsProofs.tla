--------------------------- MODULE LuaCallsProofs ---------------------------
(***************************************************************************)
(* The safety properties of LuaCalls, for any coroutines and any limits:   *)
(* the invariant of LuaCallsInvariant holds at first, every action keeps   *)
(* it, and each property follows from it.                                  *)
(*                                                                         *)
(* LoadCollects is assumed FALSE: the parser calls no gc tag method. One   *)
(* that fails there is cut off by luaD_protectedparser, which restores     *)
(* neither L->ci nor nCcalls nor allowhook (ldo.c:456-469), and the        *)
(* properties do not hold.                                                 *)
(*                                                                         *)
(* First what the actions do beyond the operators of LuaCallsSteps:        *)
(* OP_RETURN, OP_CALL and OP_TAILCALL within a luaV_execute, hooks and gc  *)
(* tag methods, protected calls and error functions, and coroutines that   *)
(* start, go on and yield.                                                 *)
(***************************************************************************)
EXTENDS LuaCallsSteps, WellFoundedInduction

-----------------------------------------------------------------------------
(* Steps within a thread.                                                      *)

\* OP_RETURN to Lua code of the same luaV_execute.
Back(q) == [q EXCEPT !.cis = [SubSeq(@, 1, Len(q.cis) - 1) EXCEPT ![Len(q.cis) - 1].calling = FALSE]]
DoBack(s, t, n) == [s EXCEPT !.T[t].cis = [SubSeq(@, 1, n - 1) EXCEPT ![n - 1].calling = FALSE]]
\* OP_RETURN within a luaV_execute changes one thread and no entry.
LEMMA BackIs ==
    ASSUME NEW Ts, NEW D, NEW p, NEW t
    PROVE  DoBack(St(Ts, D, p), t, Len(Ts[t].cis)) = St(Put(Ts, t, Back(Ts[t])), D, p)
<1> DEFINE r == Back(Ts[t])
<1>1. DoBack(St(Ts, D, p), t, Len(Ts[t].cis)) = [St(Ts, D, p) EXCEPT !.T[t] = r]
  BY DEF St, DoBack, Back
<1> HIDE DEF r
<1>2. QED BY <1>1, SetIs DEF r

\* The thread at the top changes, within what its innermost luaV_execute runs.
LEMMA Stays ==
    ASSUME NEW Ts, NEW D, NEW n, NEW t, At(Ts, D, n, t), Low(Ts), D[n].kind = "execute",
           NEW r, r \in ThreadSet, Sized(r), Alike(r, Ts[t]), Region(r.cis, Base(D, n), Len(r.cis)),
           \A k \in 1..Base(D, n) : r.cis[k] = Ts[t].cis[k], NEW p
    PROVE  Comes(St(Put(Ts, t, r), D, p), p)
<1> DEFINE q == Ts[t]
<1>0. Good(Ts, D) /\ Len(D) = n /\ D[n].th = t BY DEF At
<1>1. /\ Counted(D, t, n, q.nCcalls, q.allowhook, q.errfunc, q.errorJmp) /\ t \in Threads
      /\ Ts \in [Threads -> ThreadSet] /\ Base(D, n) \in Nat
  BY <1>0, AtTop DEF Good
<1>2. Len(r.cis) \in Nat BY DEF ThreadSet
<1>3. Base(D, n) <= Len(r.cis) /\ Reached(r.cis, D, n, Len(r.cis)) BY <1>1, <1>2 DEF Reached, Region
<1>4. Counted(D, t, n, r.nCcalls, r.allowhook, r.errfunc, r.errorJmp) BY <1>1 DEF Alike
<1>5. Good(Put(Ts, t, r), D) BY <1>0, <1>3, <1>4, Stay
<1>6. At(Put(Ts, t, r), D, n, t) BY <1>0, <1>5 DEF At
<1>7. Low(Put(Ts, t, r))
  <2>1. r.nCcalls <= MaxC BY <1>1 DEF Low, Alike
  <2>2. QED BY <1>1, <2>1, LowPut
<1>8. QED BY <1>6, <1>7, SafeIs

\* OP_RETURN within a luaV_execute leaves the region above the CallInfo it was called from.
LEMMA GoesBack ==
    ASSUME NEW Ts, NEW D, NEW n, NEW t, At(Ts, D, n, t), Low(Ts), D[n].kind = "execute",
           Ts[t].cis[Len(Ts[t].cis) - 1].calling, NEW p
    PROVE  Comes(DoBack(St(Ts, D, p), t, Len(Ts[t].cis)), p)
<1> DEFINE q == Ts[t]
           m == Len(q.cis) - 1
           cut == SubSeq(q.cis, 1, m)
           cis == [cut EXCEPT ![m].calling = FALSE]
           r == [q EXCEPT !.cis = cis]
           b == Base(D, n)
<1>0. Good(Ts, D) /\ Len(D) = n /\ D[n].th = t BY DEF At
<1>1. /\ q \in ThreadSet /\ Reached(q.cis, D, n, Len(q.cis)) /\ b \in Nat /\ 1 <= b /\ ~q.cis[b].calling /\ Sized(q)
  BY <1>0, AtTop DEF ThreadOK, Sized
<1>2. q.cis \in Seq(Frames) /\ Len(q.cis) \in Nat /\ q.size_ci \in Nat BY <1>1 DEF ThreadSet
<1>3. Region(q.cis, b, Len(q.cis)) BY <1>1 DEF Reached
<1>4. m \in Nat /\ m >= 1 /\ b < m /\ Len(q.cis) = m + 1
  <2>1. b < Len(q.cis) BY <1>3 DEF Region
  <2>2. b # m BY <1>1
  <2>3. QED BY <1>1, <1>2, <2>1, <2>2
<1>5. cut \in Seq(Frames) /\ Len(cut) = m /\ \A k \in 1..m : cut[k] = q.cis[k] /\ cut[k] \in Frames
  BY <1>2, <1>4
<1> HIDE DEF cut
<1>6. /\ cis \in Seq(Frames) /\ Len(cis) = m /\ \A k \in 1..(m - 1) : cis[k] = q.cis[k]
      /\ cis[m].calling = FALSE /\ cis[m].c = q.cis[m].c /\ cis[m].yield = q.cis[m].yield
  <2> DEFINE f == [cut[m] EXCEPT !.calling = FALSE]
  <2>1. m \in 1..m BY <1>4
  <2>2. cut[m] \in Frames /\ cut[m] = q.cis[m] BY <1>5, <2>1
  <2>3. f \in Frames /\ f.calling = FALSE /\ f.c = cut[m].c /\ f.yield = cut[m].yield BY <2>2 DEF Frames
  <2> HIDE DEF f
  <2>4. cis = [cut EXCEPT ![m] = f] BY DEF f
  <2>5. DOMAIN cut = 1..m /\ cut \in [1..m -> Frames] BY <1>5
  <2>6. cis \in [1..m -> Frames] /\ cis[m] = f /\ \A k \in 1..(m - 1) : cis[k] = cut[k]
    <3>1. \A k \in 1..(m - 1) : k \in 1..m /\ k # m BY <1>4
    <3> DEFINE g == [cut EXCEPT ![m] = f]
    <3>2. g \in [1..m -> Frames] /\ g[m] = f BY <2>1, <2>3, <2>5
    <3>3. \A k \in 1..m : k # m => g[k] = cut[k] BY <2>5
    <3> HIDE DEF g, cis
    <3>4. cis = g BY <2>4 DEF g
    <3>5. QED BY <3>1, <3>2, <3>3, <3>4
  <2> HIDE DEF cis
  <2>7. cis \in Seq(Frames) /\ Len(cis) = m BY <1>4, <2>6
  <2>8. QED BY <1>4, <1>5, <2>2, <2>3, <2>6, <2>7
<1> HIDE DEF cis
<1>7. r \in ThreadSet /\ r.cis = cis /\ r.size_ci = q.size_ci /\ Alike(r, q) BY <1>1, <1>6 DEF ThreadSet, Alike
<1>8. Back(q) = r BY DEF Back, cis, cut
<1> HIDE DEF r
<1>9. Sized(r) BY <1>1, <1>2, <1>4, <1>6, <1>7 DEF Sized
<1>10. Region(r.cis, b, Len(r.cis))
  <2>1. ASSUME NEW k \in (b + 1)..m PROVE ~cis[k].c /\ ~cis[k].yield /\ (cis[k].calling <=> k < m)
    <3>1. k \in (b + 1)..Len(q.cis) /\ k \in 1..m BY <1>1, <1>4
    <3>2. ~q.cis[k].c /\ ~q.cis[k].yield /\ (q.cis[k].calling <=> k < Len(q.cis)) BY <1>3, <3>1 DEF Region
    <3>3. CASE k = m BY <1>4, <1>6, <3>2, <3>3
    <3>4. CASE k # m
      <4>1. k \in 1..(m - 1) BY <1>4, <3>1, <3>4
      <4>2. cis[k] = q.cis[k] BY <1>6, <4>1
      <4>3. QED BY <1>4, <3>2, <4>1, <4>2
    <3>5. QED BY <3>3, <3>4
  <2>2. QED BY <1>4, <1>6, <1>7, <2>1 DEF Region
<1>11. \A k \in 1..b : r.cis[k] = Ts[t].cis[k] BY <1>1, <1>4, <1>6, <1>7
<1> HIDE DEF q
<1>12. Comes(St(Put(Ts, t, r), D, p), p) BY <1>7, <1>9, <1>10, <1>11, Stays DEF q
<1>13. QED BY <1>8, <1>12, BackIs DEF q

\* An entry of a gc tag method or of a hook goes: hooks are as they were.
Hooking(q, a)   == [q EXCEPT !.allowhook = a]
SetHook(s, t, a) == [s EXCEPT !.T[t].allowhook = a]
\* allowhook of one thread is set.
LEMMA HookIs ==
    ASSUME NEW Ts, NEW D, NEW p, NEW t, NEW a
    PROVE  SetHook(St(Ts, D, p), t, a) = St(Put(Ts, t, Hooking(Ts[t], a)), D, p)
<1> DEFINE r == Hooking(Ts[t], a)
<1>1. SetHook(St(Ts, D, p), t, a) = [St(Ts, D, p) EXCEPT !.T[t] = r]
  BY DEF St, SetHook, Hooking
<1> HIDE DEF r
<1>2. QED BY <1>1, SetIs DEF r

\* allowhook is all that this changes of the thread.
LEMMA HookingIs ==
    ASSUME NEW q, q \in ThreadSet, Sized(q), NEW a, a \in BOOLEAN
    PROVE  LET r == Hooking(q, a)
           IN /\ r \in ThreadSet /\ Sized(r) /\ SameCis(r, q) /\ r.allowhook = a
              /\ r.nCcalls = q.nCcalls /\ r.errfunc = q.errfunc /\ r.errorJmp = q.errorJmp
<1> DEFINE r == Hooking(q, a)
<1>1. r \in ThreadSet /\ r.cis = q.cis /\ r.size_ci = q.size_ci /\ r.allowhook = a
      /\ r.nCcalls = q.nCcalls /\ r.errfunc = q.errfunc /\ r.errorJmp = q.errorJmp
  BY DEF Hooking, ThreadSet
<1> HIDE DEF r
<1>2. QED BY <1>1 DEF SameCis, Sized, r

\* a is what it was before the entry, which for a hook is that they were on.
LEMMA Unhooked ==
    ASSUME NEW Ts, NEW D, NEW n, NEW t, At(Ts, D, n, t), Low(Ts), D[n].kind \in {"gc", "hook"},
           NEW a, a \in BOOLEAN, D[n].kind = "gc" => a = D[n].saved.allowhook, D[n].kind = "hook" => a = TRUE, NEW p
    PROVE  Comes(SetHook(PopC(St(Ts, D, p)), t, a), p)
<1> DEFINE q == Ts[t]
           r == Hooking(q, a)
           E == SubSeq(D, 1, n - 1)
<1>0. Good(Ts, D) /\ Len(D) = n /\ D[n].th = t BY DEF At
<1>1. /\ n \in Nat /\ n >= 2 /\ t \in Threads /\ Ts \in [Threads -> ThreadSet] /\ D \in Seq(EntrySet)
      /\ q \in ThreadSet /\ Sized(q) /\ EntryOK(Ts, D, n) /\ Reached(q.cis, D, n, Len(q.cis))
  BY <1>0, AtTop, NotFirst DEF Good, ThreadOK, Sized
<1>2. /\ r \in ThreadSet /\ Sized(r) /\ SameCis(r, q) /\ r.allowhook = a
      /\ r.nCcalls = q.nCcalls /\ r.errfunc = q.errfunc /\ r.errorJmp = q.errorJmp
  BY <1>1, HookingIs
<1> HIDE DEF r
<1>3. a = Quiet(D, t, n - 1)
  <2>1. SavedOK(D, n) BY <1>1 DEF EntryOK
  <2>2. CASE D[n].kind = "gc" BY <1>0, <2>1, <2>2 DEF SavedOK
  <2>3. CASE D[n].kind = "hook"
    <3>1. Quiet(D, t, n - 1) BY <1>0, <2>1, <2>3 DEF SavedOK
    <3>2. Quiet(D, t, n - 1) \in BOOLEAN BY DEF Quiet
    <3>3. QED BY <2>3, <3>1, <3>2
  <2>4. QED BY <2>2, <2>3
<1>4. Unwinds(r, Ts, D, n, t)
  <2>1. (n - 1) + 1 = n BY <1>1
  <2>2. Untallied(r, q, D, t, n - 1) BY <1>2, <1>3, <2>1 DEF Untallied, Protected
  <2>3. Len(q.cis) = In(D, n) BY <1>1 DEF Reached, In
  <2>4. QED BY <1>2, <2>2, <2>3 DEF Unwinds, SameCis
<1>5. At(Put(Ts, t, r), E, n - 1, t) /\ D[n - 1].kind # "resume"
  <2>1. D[n].kind \notin {"host", "resume"} /\ D[n].kind # "execute" OBVIOUS
  <2>2. QED BY <1>4, <2>1, Popped
<1>6. Low(Put(Ts, t, r))
  <2>1. r.nCcalls <= MaxC BY <1>1, <1>2 DEF Low
  <2>2. QED BY <1>1, <2>1, LowPut
<1>7. E[n - 1] = D[n - 1] BY <1>0, <1>1
<1>8. SetHook(PopC(St(Ts, D, p)), t, a) = St(Put(Ts, t, r), E, p)
  <2>1. PopC(St(Ts, D, p)) = St(Ts, E, p) BY <1>0, PopCIs
  <2> HIDE DEF E
  <2>2. SetHook(St(Ts, E, p), t, a) = St(Put(Ts, t, r), E, p) BY HookIs DEF r
  <2>3. QED BY <2>1, <2>2
<1>9. Comes(St(Put(Ts, t, r), E, p), p)
  <2>1. E[n - 1].kind # "resume" BY <1>5, <1>7
  <2> HIDE DEF E
  <2>2. QED BY <1>5, <1>6, <2>1, SafeIs
<1>10. QED BY <1>8, <1>9

\* One comes: hooks are off.
LEMMA Hooked ==
    ASSUME NEW Ts, NEW D, NEW n, NEW t, At(Ts, D, n, t), Low(Ts),
           D[n].kind \notin {"host", "parser", "error", "resume"},
           NEW kind, kind \in {"gc", "hook"}, NEW saved, Keeping(Ts[t], kind, saved), NEW a, a = FALSE, NEW p
    PROVE  Comes(SetHook(PushC(St(Ts, D, p), kind, t, saved), t, a), p)
<1> DEFINE q == Ts[t]
           r == Hooking(q, a)
<1>0. Good(Ts, D) /\ Len(D) = n /\ D[n].th = t BY DEF At
<1>1. /\ n \in Nat /\ n >= 2 /\ t \in Threads /\ Ts \in [Threads -> ThreadSet] /\ q \in ThreadSet /\ Sized(q)
  BY <1>0, AtTop, NotFirst DEF Good, ThreadOK, Sized
<1>2. /\ r \in ThreadSet /\ Sized(r) /\ SameCis(r, q) /\ r.allowhook = a
      /\ r.nCcalls = q.nCcalls /\ r.errfunc = q.errfunc /\ r.errorJmp = q.errorJmp
  BY <1>1, HookingIs
<1> HIDE DEF r
<1>3. PICK E : PushC(St(Ts, D, p), kind, t, saved) = St(Ts, E, p) /\ Adds(D, E, kind, t, Len(q.cis), saved)
  BY PushIs
<1>4. kind \in Plain /\ MayFollow(kind, D, n) BY <1>1 DEF Plain, MayFollow
<1>5. Tallied(r, q, kind, n)
  <2>1. r.allowhook = (q.allowhook /\ kind \notin {"hook", "gc"}) BY <1>2
  <2>2. kind # "call" /\ kind \notin Protected BY DEF Protected
  <2>3. QED BY <1>2, <2>1, <2>2 DEF Tallied
<1>6. At(Put(Ts, t, r), E, n + 1, t) /\ Tops(E, n, kind, t, Len(r.cis), saved)
  BY <1>2, <1>3, <1>4, <1>5, Pushed
<1>7. E[n + 1].kind # "resume" BY <1>6 DEF Tops
<1>8. Low(Put(Ts, t, r))
  <2>1. r.nCcalls <= MaxC BY <1>1, <1>2 DEF Low
  <2>2. QED BY <1>1, <2>1, LowPut
<1>9. SetHook(St(Ts, E, p), t, a) = St(Put(Ts, t, r), E, p) BY HookIs DEF r
<1>10. QED BY <1>3, <1>6, <1>7, <1>8, <1>9, SafeIs

-----------------------------------------------------------------------------
\* OP_CALL: the function that calls another of the same luaV_execute is marked.
Mark(q, k)      == [q EXCEPT !.cis[k].calling = TRUE]
DoMark(s, t, k) == [s EXCEPT !.T[t].cis[k].calling = TRUE]
\* One CallInfo of one thread is marked as having called another.
LEMMA MarkIs ==
    ASSUME NEW Ts, NEW D, NEW p, NEW t, NEW k
    PROVE  DoMark(St(Ts, D, p), t, k) = St(Put(Ts, t, Mark(Ts[t], k)), D, p)
<1> DEFINE r == Mark(Ts[t], k)
<1>1. DoMark(St(Ts, D, p), t, k) = [St(Ts, D, p) EXCEPT !.T[t] = r]
  BY DEF St, DoMark, Mark
<1> HIDE DEF r
<1>2. QED BY <1>1, SetIs DEF r

\* A CallInfo that is marked.
Marked(r, q, k) ==
    /\ r \in ThreadSet /\ Sized(r) /\ Alike(r, q) /\ Len(r.cis) = Len(q.cis)
    /\ r.cis[k].calling = TRUE /\ r.cis[k].c = q.cis[k].c /\ r.cis[k].yield = q.cis[k].yield
    /\ \A i \in 1..Len(q.cis) : i # k => r.cis[i] = q.cis[i]
\* The mark is all that this changes of the thread.
LEMMA MarkedIs ==
    ASSUME NEW q, q \in ThreadSet, Sized(q), NEW k, k \in 1..Len(q.cis)
    PROVE  Marked(Mark(q, k), q, k)
<1> DEFINE m == Len(q.cis)
           f == [q.cis[k] EXCEPT !.calling = TRUE]
           cis == [q.cis EXCEPT ![k] = f]
           r == [q EXCEPT !.cis = cis]
<1>1. q.cis \in Seq(Frames) /\ m \in Nat /\ q.size_ci \in Nat BY DEF ThreadSet
<1>2. q.cis[k] \in Frames BY <1>1
<1>3. f \in Frames /\ f.calling = TRUE /\ f.c = q.cis[k].c /\ f.yield = q.cis[k].yield BY <1>2 DEF Frames
<1> HIDE DEF f
<1>4. q.cis \in [1..m -> Frames] /\ DOMAIN q.cis = 1..m BY <1>1
<1>5. cis \in [1..m -> Frames] /\ cis[k] = f /\ \A i \in 1..m : i # k => cis[i] = q.cis[i] BY <1>3, <1>4
<1>6. Mark(q, k) = r BY DEF Mark, f
<1> HIDE DEF cis
<1>7. cis \in Seq(Frames) /\ Len(cis) = m BY <1>1, <1>5
<1>8. r \in ThreadSet /\ r.cis = cis /\ r.size_ci = q.size_ci /\ Alike(r, q) BY <1>7 DEF ThreadSet, Alike
<1> HIDE DEF r
<1>9. Sized(r) BY <1>7, <1>8 DEF Sized
<1>10. QED BY <1>3, <1>5, <1>6, <1>7, <1>8, <1>9 DEF Marked

\* OP_CALL of a Lua function: the same luaV_execute runs it.
LEMMA Deeper ==
    ASSUME NEW Ts, NEW D, NEW n, NEW t, At(Ts, D, n, t), Low(Ts), D[n].kind = "execute",
           NEW h, NEW f, Called(h, Ts[t], f), Runs(f), NEW r, Marked(r, h, Len(Ts[t].cis)), NEW p
    PROVE  Comes(St(Put(Ts, t, r), D, p), p)
<1> DEFINE q == Ts[t]
           m == Len(q.cis)
           b == Base(D, n)
<1>0. Good(Ts, D) /\ Len(D) = n /\ D[n].th = t BY DEF At
<1>1. /\ q \in ThreadSet /\ Reached(q.cis, D, n, m) /\ b \in Nat /\ m \in Nat /\ 1 <= b
  BY <1>0, AtTop
<1>2. Region(q.cis, b, m) BY <1>1 DEF Reached
<1>3. /\ Alike(h, q) /\ Len(h.cis) = m + 1 /\ h.cis[m + 1] = f /\ \A k \in 1..m : h.cis[k] = q.cis[k]
  BY DEF Called
<1>4. /\ r \in ThreadSet /\ Sized(r) /\ Alike(r, h) /\ Len(r.cis) = m + 1
      /\ r.cis[m].calling = TRUE /\ r.cis[m].c = h.cis[m].c /\ r.cis[m].yield = h.cis[m].yield
      /\ \A i \in 1..(m + 1) : i # m => r.cis[i] = h.cis[i]
  BY <1>3 DEF Marked
<1>5. Alike(r, q) BY <1>3, <1>4 DEF Alike
<1>6. b < m BY <1>2 DEF Region
<1>7. ASSUME NEW k \in (b + 1)..(m + 1)
      PROVE ~r.cis[k].c /\ ~r.cis[k].yield /\ (r.cis[k].calling <=> k < m + 1)
  <2>1. CASE k = m + 1
    <3>1. k \in 1..(m + 1) /\ k # m BY <1>1, <2>1
    <3>2. r.cis[k] = f BY <1>3, <1>4, <2>1, <3>1
    <3>3. QED BY <1>1, <2>1, <3>2 DEF Runs
  <2>2. CASE k = m
    <3>1. k \in (b + 1)..m /\ k \in 1..m BY <1>1, <1>6, <2>2
    <3>2. ~q.cis[k].c /\ ~q.cis[k].yield BY <1>2, <3>1 DEF Region
    <3>3. h.cis[k] = q.cis[k] BY <1>3, <3>1
    <3>4. QED BY <1>1, <1>4, <2>2, <3>2, <3>3
  <2>3. CASE k # m /\ k # m + 1
    <3>1. k \in (b + 1)..m /\ k \in 1..m /\ k \in 1..(m + 1) /\ k < m BY <1>1, <1>6, <2>3
    <3>2. ~q.cis[k].c /\ ~q.cis[k].yield /\ (q.cis[k].calling <=> k < m) BY <1>2, <3>1 DEF Region
    <3>3. r.cis[k] = q.cis[k] BY <1>3, <1>4, <2>3, <3>1
    <3>4. QED BY <1>1, <3>1, <3>2, <3>3
  <2>4. QED BY <2>1, <2>2, <2>3
<1>8. Region(r.cis, b, Len(r.cis)) BY <1>1, <1>4, <1>6, <1>7 DEF Region
<1>9. \A k \in 1..b : r.cis[k] = Ts[t].cis[k]
  <2>1. \A k \in 1..b : k \in 1..m /\ k \in 1..(m + 1) /\ k # m BY <1>1, <1>6
  <2>2. QED BY <1>3, <1>4, <2>1
<1> HIDE DEF q, b, m
<1>10. QED BY <1>4, <1>5, <1>8, <1>9, Stays DEF q, b

\* OP_TAILCALL of a Lua function: it takes the place of the one that calls it.
LEMMA Instead ==
    ASSUME NEW Ts, NEW D, NEW n, NEW t, At(Ts, D, n, t), Low(Ts), D[n].kind = "execute",
           NEW h, NEW f, Called(h, Ts[t], f), NEW p
    PROVE  Comes(St(Put(Ts, t, Cut1(h)), D, p), p)
<1> DEFINE q == Ts[t]
           m == Len(q.cis)
           b == Base(D, n)
           r == Cut1(h)
<1>0. Good(Ts, D) /\ Len(D) = n /\ D[n].th = t BY DEF At
<1>1. /\ q \in ThreadSet /\ Reached(q.cis, D, n, m) /\ b \in Nat /\ m \in Nat /\ 1 <= b /\ b <= m
  BY <1>0, AtTop
<1>2. Region(q.cis, b, m) BY <1>1 DEF Reached
<1>3. /\ h \in ThreadSet /\ Sized(h) /\ Alike(h, q) /\ Len(h.cis) = m + 1 /\ \A k \in 1..m : h.cis[k] = q.cis[k]
  BY DEF Called
<1>4. Len(h.cis) >= 2 BY <1>1, <1>3
<1>5. /\ r \in ThreadSet /\ Sized(r) /\ Alike(r, h)
      /\ Len(r.cis) = Len(h.cis) - 1 /\ \A k \in 1..(Len(h.cis) - 1) : r.cis[k] = h.cis[k]
  BY <1>3, <1>4, Cut1Is
<1> HIDE DEF r
<1>6. Len(r.cis) = m /\ \A k \in 1..m : r.cis[k] = q.cis[k]
  <2>1. Len(h.cis) - 1 = m BY <1>1, <1>3
  <2>2. QED BY <1>3, <1>5, <2>1
<1>7. Alike(r, q) BY <1>3, <1>5 DEF Alike
<1>8. Region(r.cis, b, Len(r.cis))
  <2>1. \A k \in (b + 1)..m : k \in 1..m BY <1>1
  <2>2. QED BY <1>2, <1>6, <2>1 DEF Region
<1>9. \A k \in 1..b : r.cis[k] = Ts[t].cis[k] BY <1>1, <1>6
<1> HIDE DEF q, b, m
<1>10. QED BY <1>5, <1>7, <1>8, <1>9, Stays DEF q, b, r

\* A call of OP_CALL or OP_TAILCALL that has been entered by luaD_precall.
EnteredLua(s, k) == Innermost(s).kind = "execute" /\ Len(s.C) = k
\* A call that has ended in an error has not been entered.
LEMMA NotEntered ==
    ASSUME NEW s, NEW p, NEW n, n \in Nat, Over(s, p, n)
    PROVE  Comes(s, p) /\ ~EnteredLua(s, n + 1)
<1>1. Comes(s, p) /\ (Len(s.C) < n \/ s.C[Len(s.C)].kind = "error") BY DEF Over
<1>2. CASE Len(s.C) < n
  <2>1. Len(s.C) # n + 1 BY <1>2
  <2>2. QED BY <1>1, <2>1 DEF EnteredLua
<1>3. CASE s.C[Len(s.C)].kind = "error"
  <2>1. Innermost(s).kind # "execute" BY <1>3 DEF Innermost
  <2>2. QED BY <1>1, <2>1 DEF EnteredLua
<1>4. QED BY <1>1, <1>2, <1>3

\* A call that has been entered is known by its entry; without it the C stack is as before.
LEMMA EntersLua ==
    ASSUME NEW Ts, NEW D, NEW n, NEW t, At(Ts, D, n, t), NEW A, NEW E, NEW p, NEW at,
           Adds(D, E, "execute", t, at, Nothing)
    PROVE  EnteredLua(St(A, E, p), n + 1) /\ PopC(St(A, E, p)) = St(A, D, p)
<1>0. Good(Ts, D) /\ Len(D) = n /\ D[n].th = t BY DEF At
<1>1. D \in Seq(EntrySet) /\ n \in Nat BY <1>0, AtTop
<1> DEFINE e == Entry("execute", t, at, Nothing)
<1>2. e.kind = "execute" BY DEF Entry
<1>3. E = Append(D, e) BY DEF Adds
<1> HIDE DEF e
<1>4. Len(E) = n + 1 /\ E[n + 1] = e BY <1>0, <1>1, <1>3
<1>5. SubSeq(E, 1, Len(E) - 1) = D
  <2> DEFINE F == SubSeq(E, 1, Len(E) - 1)
  <2>1. \A i \in 1..n : E[i] = D[i] BY <1>0, <1>1, <1>3
  <2>2. Len(E) - 1 = n BY <1>1, <1>4
  <2>3. F = [i \in 1..n |-> D[i]]
    <3>1. F = [i \in 1..n |-> E[i]] BY <1>1, <2>2
    <3>2. QED BY <2>1, <3>1
  <2>4. D = [i \in 1..n |-> D[i]] BY <1>0, <1>1
  <2>5. QED BY <2>3, <2>4
<1>6. EnteredLua(St(A, E, p), n + 1) BY <1>2, <1>4, Fields DEF EnteredLua
<1>7. QED BY <1>5, <1>6, PopCIs

\* OP_CALL of a C function.
LEMMA CallsC ==
    ASSUME NEW Ts, NEW D, NEW n, NEW t, At(Ts, D, n, t), Low(Ts), D[n].kind = "execute", NEW p
    PROVE  Comes(luaD_precall(St(Ts, D, p), t, TRUE), p)
<1> DEFINE c == TRUE
<1>1. c \in BOOLEAN /\ c OBVIOUS
<1> HIDE DEF c
<1>2. D[n].kind \in {"call", "execute", "resume"} /\ D[n].kind # "resume" OBVIOUS
<1>3. Comes(luaD_precall(St(Ts, D, p), t, c), p) BY <1>1, <1>2, Precall
<1>4. QED BY <1>3 DEF c

\* What luaD_precall of a Lua function leaves to OP_CALL and OP_TAILCALL.
CallOf(s, Ts, D, p, t) == s = luaD_precall(St(Ts, D, p), t, FALSE)
Goes(s, Ts, D, p, t)   == \E h, f : Runs(f) /\ Called(h, Ts[t], f) /\ PopC(s) = St(Put(Ts, t, h), D, p)
\* luaD_precall of a Lua function has either failed, or added a CallInfo that can run.
LEMMA CallsLua ==
    ASSUME NEW Ts, NEW D, NEW n, NEW t, At(Ts, D, n, t), Low(Ts), D[n].kind = "execute", NEW p,
           NEW s, CallOf(s, Ts, D, p, t)
    PROVE  \/ Comes(s, p) /\ ~EnteredLua(s, n + 1)
           \/ EnteredLua(s, n + 1) /\ Goes(s, Ts, D, p, t)
<1> DEFINE c == FALSE
           f == Frame(c)
<1>0. n \in Nat BY AtTop DEF At
<1>1. c \in BOOLEAN /\ CodeOf(c) = "execute" /\ Runs(f) BY DEF CodeOf, Runs, Frame
<1>2. s = luaD_precall(St(Ts, D, p), t, c) BY DEF CallOf
<1> HIDE DEF c
<1>3. \/ Over(s, p, n)
      \/ \E h, E : /\ Called(h, Ts[t], f) /\ s = St(Put(Ts, t, h), E, p)
                   /\ Adds(D, E, CodeOf(c), t, Len(h.cis), Nothing)
  <2>1. D[n].kind \in {"call", "execute", "resume"} OBVIOUS
  <2> DEFINE x == luaD_precall(St(Ts, D, p), t, c)
  <2>2. \/ Over(x, p, n)
        \/ \E h, E : /\ Called(h, Ts[t], f) /\ x = St(Put(Ts, t, h), E, p)
                     /\ Adds(D, E, CodeOf(c), t, Len(h.cis), Nothing)
    BY <1>1, <2>1, PrecallOver
  <2> HIDE DEF x
  <2>3. s = x BY <1>2 DEF x
  <2>4. QED BY <2>2, <2>3
<1> HIDE DEF f
<1>4. CASE Over(s, p, n)
  <2>1. Comes(s, p) /\ ~EnteredLua(s, n + 1) BY <1>0, <1>4, NotEntered
  <2>2. QED BY <2>1
<1>5. ASSUME NEW h, NEW E, Called(h, Ts[t], f), s = St(Put(Ts, t, h), E, p),
             Adds(D, E, CodeOf(c), t, Len(h.cis), Nothing)
      PROVE  EnteredLua(s, n + 1) /\ PopC(s) = St(Put(Ts, t, h), D, p)
  <2> DEFINE A == Put(Ts, t, h)
             at == Len(h.cis)
  <2>1. Adds(D, E, "execute", t, at, Nothing) BY <1>1, <1>5
  <2> HIDE DEF A, at
  <2>2. EnteredLua(St(A, E, p), n + 1) /\ PopC(St(A, E, p)) = St(A, D, p) BY <2>1, EntersLua
  <2>3. QED BY <1>5, <2>2 DEF A
<1>6. QED BY <1>1, <1>3, <1>4, <1>5 DEF Goes

\* OP_CALL of a Lua function ends in a good state: the region of its luaV_execute has grown.
LEMMA OpCall ==
    ASSUME NEW Ts, NEW D, NEW n, NEW t, At(Ts, D, n, t), Low(Ts), D[n].kind = "execute", NEW p,
           NEW s, CallOf(s, Ts, D, p, t)
    PROVE  Comes(IF EnteredLua(s, n + 1) THEN DoMark(PopC(s), t, Len(Ts[t].cis)) ELSE s, p)
<1> DEFINE m == Len(Ts[t].cis)
<1>1. \/ Comes(s, p) /\ ~EnteredLua(s, n + 1)
      \/ EnteredLua(s, n + 1) /\ Goes(s, Ts, D, p, t)
  BY CallsLua
<1>3. ASSUME NEW h, NEW f, Runs(f), Called(h, Ts[t], f), PopC(s) = St(Put(Ts, t, h), D, p)
      PROVE  Comes(DoMark(PopC(s), t, m), p)
  <2> DEFINE A == Put(Ts, t, h)
             r == Mark(h, m)
  <2>0. m \in Nat /\ m >= 1 /\ t \in Threads /\ Ts \in [Threads -> ThreadSet] BY AtTop DEF At, Good
  <2>1. h \in ThreadSet /\ Sized(h) /\ m \in 1..Len(h.cis) BY <1>3, <2>0 DEF Called
  <2>2. A[t] = h BY <2>0, PutIs
  <2> HIDE DEF m
  <2>3. DoMark(St(A, D, p), t, m) = St(Put(A, t, r), D, p) BY <2>2, MarkIs
  <2>4. Marked(r, h, m) BY <2>1, MarkedIs
  <2> HIDE DEF r
  <2>5. Put(A, t, r) = Put(Ts, t, r) BY DEF Put
  <2>6. Comes(St(Put(Ts, t, r), D, p), p) BY <1>3, <2>4, Deeper DEF m
  <2>7. QED BY <1>3, <2>3, <2>5, <2>6
<1>4. QED BY <1>1, <1>3 DEF Goes

\* OP_TAILCALL ends in a good state: another function has the last CallInfo of the region.
LEMMA OpTailcall ==
    ASSUME NEW Ts, NEW D, NEW n, NEW t, At(Ts, D, n, t), Low(Ts), D[n].kind = "execute", NEW p,
           NEW s, CallOf(s, Ts, D, p, t)
    PROVE  Comes(IF EnteredLua(s, n + 1) THEN DoCut(PopC(s), t) ELSE s, p)
<1>1. \/ Comes(s, p) /\ ~EnteredLua(s, n + 1)
      \/ EnteredLua(s, n + 1) /\ Goes(s, Ts, D, p, t)
  BY CallsLua
<1>2. ASSUME NEW h, NEW f, Called(h, Ts[t], f), PopC(s) = St(Put(Ts, t, h), D, p)
      PROVE  Comes(DoCut(PopC(s), t), p)
  <2> DEFINE A == Put(Ts, t, h)
             r == Cut1(h)
  <2>0. t \in Threads /\ Ts \in [Threads -> ThreadSet] BY AtTop DEF At, Good
  <2>1. A[t] = h BY <2>0, PutIs
  <2>2. DoCut(St(A, D, p), t) = St(Put(A, t, r), D, p) BY <2>1, CutIs
  <2>3. Comes(St(Put(Ts, t, r), D, p), p) BY <1>2, Instead
  <2> HIDE DEF r
  <2>4. Put(A, t, r) = Put(Ts, t, r) BY DEF Put
  <2>5. QED BY <1>2, <2>2, <2>3, <2>4
<1>3. QED BY <1>1, <1>2 DEF Goes

\* pcall and xpcall set the error function.
WithErr(q, ef)   == [q EXCEPT !.errfunc = ef]
SetErr(s, t, ef) == [s EXCEPT !.T[t].errfunc = ef]
\* The error function of one thread is set.
LEMMA ErrIs ==
    ASSUME NEW Ts, NEW D, NEW p, NEW t, NEW ef
    PROVE  SetErr(St(Ts, D, p), t, ef) = St(Put(Ts, t, WithErr(Ts[t], ef)), D, p)
<1> DEFINE r == WithErr(Ts[t], ef)
<1>1. SetErr(St(Ts, D, p), t, ef) = [St(Ts, D, p) EXCEPT !.T[t] = r]
  BY DEF St, SetErr, WithErr
<1> HIDE DEF r
<1>2. QED BY <1>1, SetIs DEF r

\* A protected call in progress may have any error function.
LEMMA Errfunc ==
    ASSUME NEW Ts, NEW D, NEW n, NEW t, At(Ts, D, n, t), Low(Ts), D[n].kind = "pcall", NEW ef, ef \in ErrFuncs
    PROVE  At(Put(Ts, t, WithErr(Ts[t], ef)), D, n, t) /\ Low(Put(Ts, t, WithErr(Ts[t], ef)))
<1> DEFINE q == Ts[t]
           r == WithErr(q, ef)
<1>0. Good(Ts, D) /\ Len(D) = n /\ D[n].th = t BY DEF At
<1>1. /\ n \in Nat /\ n >= 1 /\ t \in Threads /\ Ts \in [Threads -> ThreadSet] /\ q \in ThreadSet /\ Sized(q)
      /\ Counted(D, t, n, q.nCcalls, q.allowhook, q.errfunc, q.errorJmp)
      /\ Reached(q.cis, D, n, Len(q.cis)) /\ Base(D, n) <= Len(q.cis)
  BY <1>0, AtTop DEF Good, ThreadOK, Sized
<1>2. /\ r \in ThreadSet /\ r.cis = q.cis /\ r.size_ci = q.size_ci /\ r.nCcalls = q.nCcalls
      /\ r.allowhook = q.allowhook /\ r.errfunc = ef /\ r.errorJmp = q.errorJmp
  <2> HIDE DEF q
  <2>1. QED BY <1>1 DEF WithErr, ThreadSet
<1> HIDE DEF r
<1>3. Counted(D, t, n, r.nCcalls, r.allowhook, r.errfunc, r.errorJmp)
  <2>1. ~ \A i \in 1..n : D[i].th = t => D[i].kind # "pcall" BY <1>0, <1>1
  <2>2. QED BY <1>1, <1>2, <2>1 DEF Counted
<1>4. Sized(r) BY <1>1, <1>2 DEF Sized
<1>5. /\ Base(D, n) <= Len(r.cis) /\ \A k \in 1..Base(D, n) : r.cis[k] = Ts[t].cis[k]
      /\ Reached(r.cis, D, n, Len(r.cis))
  BY <1>1, <1>2
<1>6. Good(Put(Ts, t, r), D) BY <1>0, <1>2, <1>3, <1>4, <1>5, Stay
<1>7. Low(Put(Ts, t, r))
  <2>1. r.nCcalls <= MaxC BY <1>1, <1>2 DEF Low
  <2>2. QED BY <1>1, <2>1, LowPut
<1>8. QED BY <1>0, <1>6, <1>7 DEF At, r

\* pcall and xpcall end in a good state.
LEMMA Pcall ==
    ASSUME NEW Ts, NEW D, NEW n, NEW t, At(Ts, D, n, t), Low(Ts), D[n].kind = "cfunc",
           NEW ef, ef \in ErrFuncs, NEW c \in BOOLEAN, NEW p
    PROVE  Comes(luaD_call(SetErr(rawrunprotected(St(Ts, D, p), "pcall", t), t, ef), t, c), p)
<1> DEFINE kind == "pcall"
           S == rawrunprotected(St(Ts, D, p), kind, t)
<1>1. MayFollow(kind, D, n)
  <2>1. D[n].kind # "host" OBVIOUS
  <2>2. n \in Nat /\ n >= 2 BY <2>1, NotFirst
  <2>3. QED BY <2>2 DEF MayFollow
<1>2. kind \in {"pcall", "parser"} OBVIOUS
<1>3. kind = "pcall" OBVIOUS
<1> HIDE DEF kind
<1>4. PICK r, E : /\ S = St(Put(Ts, t, r), E, p)
                  /\ At(Put(Ts, t, r), E, n + 1, t) /\ Low(Put(Ts, t, r)) /\ E[n + 1].kind = kind
  BY <1>1, <1>2, RawAt
<1> DEFINE A == Put(Ts, t, r)
           B == Put(A, t, WithErr(A[t], ef))
<1> HIDE DEF A, S
<1>5. S = St(A, E, p) /\ At(A, E, n + 1, t) /\ Low(A) /\ E[n + 1].kind = "pcall" BY <1>3, <1>4 DEF A
<1>6. SetErr(St(A, E, p), t, ef) = St(B, E, p) BY ErrIs
<1>7. At(B, E, n + 1, t) /\ Low(B) BY <1>5, Errfunc
<1> HIDE DEF B
<1>8. E[n + 1].kind \notin {"host", "parser", "error", "resume"} BY <1>5
<1>9. Comes(luaD_call(St(B, E, p), t, c), p) BY <1>7, <1>8, Call
<1>10. QED BY <1>5, <1>6, <1>9 DEF S, kind

\* The error function is called on top of what raised the error.
LEMMA Handle ==
    ASSUME NEW Ts, NEW D, NEW n, NEW t, At(Ts, D, n, t), Low(Ts), D[n].kind = "error", NEW c \in BOOLEAN, NEW p
    PROVE  Comes(luaD_call(PushC(PopC(St(Ts, D, p)), "handler", t, Nothing), t, c), p)
<1> DEFINE q == Ts[t]
           m == n - 1
           E == SubSeq(D, 1, m)
           kind == "handler"
<1>0. Good(Ts, D) /\ Len(D) = n /\ D[n].th = t BY DEF At
<1>1. /\ n \in Nat /\ n >= 2 /\ t \in Threads /\ Ts \in [Threads -> ThreadSet] /\ q \in ThreadSet /\ Sized(q)
      /\ Reached(q.cis, D, n, Len(q.cis)) /\ EntryOK(Ts, D, n) /\ D \in Seq(EntrySet)
  BY <1>0, AtTop, NotFirst DEF Good, ThreadOK, Sized
<1>2. Stands(D, n) BY <1>1 DEF EntryOK
<1>3. n # 2 /\ D[m].kind \notin {"parser", "error"} BY <1>2 DEF Stands
<1>4. m \in Nat /\ m >= 2 /\ m + 1 = n BY <1>1, <1>3
<1>5. Unwinds(q, Ts, D, n, t)
  <2>1. Untallied(q, q, D, t, n - 1) BY <1>4 DEF Untallied, Protected
  <2>2. Len(q.cis) = In(D, n) BY <1>1 DEF Reached, In
  <2>3. QED BY <1>1, <2>1, <2>2 DEF Unwinds
<1>6. At(Put(Ts, t, q), E, m, t) /\ D[m].kind # "resume"
  <2>1. D[n].kind \notin {"host", "resume"} /\ D[n].kind # "execute" OBVIOUS
  <2> HIDE DEF q
  <2>2. QED BY <1>5, <2>1, Popped
<1>7. Put(Ts, t, q) = Ts BY <1>1 DEF Put
<1>8. At(Ts, E, m, t) BY <1>6, <1>7
<1>9. E[m] = D[m] BY <1>0, <1>1, <1>4
<1>10. PopC(St(Ts, D, p)) = St(Ts, E, p) BY <1>0, PopCIs
<1>11. MayFollow(kind, E, m) BY <1>3, <1>4, <1>6, <1>9 DEF MayFollow
<1>12. kind \in Plain /\ Keeping(q, kind, Nothing) /\ SameCis(q, q) BY DEF Plain, Keeping, Saved, Protected, SameCis
<1>13. Tallied(q, q, kind, m)
  <2>1. q.allowhook \in BOOLEAN BY <1>1 DEF ThreadSet
  <2> HIDE DEF q
  <2>2. QED BY <2>1 DEF Tallied, Protected
<1> HIDE DEF m, E
<1>14. PICK F : PushC(St(Ts, E, p), kind, t, Nothing) = St(Ts, F, p) /\ Adds(E, F, kind, t, Len(q.cis), Nothing)
  BY PushIs
<1>15. kind = "handler" OBVIOUS
<1> HIDE DEF kind
<1>16. At(Ts, F, m + 1, t) /\ Tops(F, m, kind, t, Len(q.cis), Nothing)
  <2>1. At(Put(Ts, t, q), F, m + 1, t) /\ Tops(F, m, kind, t, Len(q.cis), Nothing)
    BY <1>1, <1>8, <1>11, <1>12, <1>13, <1>14, Pushed
  <2>2. QED BY <1>7, <2>1
<1>17. F[m + 1].kind \notin {"host", "parser", "error", "resume"} BY <1>15, <1>16 DEF Tops
<1>18. Comes(luaD_call(St(Ts, F, p), t, c), p) BY <1>16, <1>17, Call
<1>19. QED BY <1>10, <1>14, <1>18 DEF kind

\* luaD_reallocstack.
Roomy(q)      == [q EXCEPT !.extra = TRUE]
SetRoom(s, t) == [s EXCEPT !.T[t].extra = TRUE]
\* luaD_reallocstack leaves a good state good.
LEMMA Realloc ==
    ASSUME NEW Ts, NEW D, NEW n, NEW t, At(Ts, D, n, t), Low(Ts), D[n].kind # "resume", NEW p
    PROVE  Comes(SetRoom(St(Ts, D, p), t), p)
<1> DEFINE q == Ts[t]
           r == Roomy(q)
<1>0. Good(Ts, D) /\ Len(D) = n /\ D[n].th = t BY DEF At
<1>1. t \in Threads /\ Ts \in [Threads -> ThreadSet] /\ q \in ThreadSet /\ Sized(q)
  BY <1>0, AtTop DEF Good, ThreadOK, Sized
<1>2. Grown(r, q) /\ r.nCcalls = q.nCcalls
  <2> HIDE DEF q
  <2>1. r \in ThreadSet /\ r.cis = q.cis /\ r.size_ci = q.size_ci /\ Alike(r, q) BY <1>1 DEF Roomy, ThreadSet, Alike
  <2>2. QED BY <1>1, <2>1 DEF Grown, Sized, Alike
<1>3. SetRoom(St(Ts, D, p), t) = St(Put(Ts, t, r), D, p)
  <2>1. SetRoom(St(Ts, D, p), t) = [St(Ts, D, p) EXCEPT !.T[t] = r]
    BY DEF St, SetRoom, Roomy
  <2> HIDE DEF r
  <2>2. QED BY <2>1, SetIs
<1> HIDE DEF r
<1>4. At(Put(Ts, t, r), D, n, t) BY <1>2, Regrown
<1>5. Low(Put(Ts, t, r))
  <2>1. r.nCcalls <= MaxC BY <1>1, <1>2 DEF Low
  <2>2. QED BY <1>1, <2>1, LowPut
<1>6. QED BY <1>3, <1>4, <1>5, SafeIs

-----------------------------------------------------------------------------
(* Coroutines.                                                                 *)

\* The greatest of some indices.
LEMMA Greatest ==
    ASSUME NEW n \in Nat, NEW S, S \subseteq 1..n, S # {}
    PROVE  \E i \in S : \A j \in S : j <= i
<1> DEFINE U == {n - i : i \in S}
<1>1. \A i \in S : i \in Int /\ 1 <= i /\ i <= n OBVIOUS
<1>2. U \subseteq Nat BY <1>1
<1>3. U # {} OBVIOUS
<1>4. PICK u \in U : \A v \in U : <<v, u>> \notin OpToRel(<, Nat)
  <2> HIDE DEF U
  <2>1. QED BY <1>2, <1>3, NatLessThanWellFounded, WFMin, Zenon
<1>5. \A v \in U : ~(v < u) BY <1>2, <1>4 DEF OpToRel
<1>6. PICK i \in S : u = n - i OBVIOUS
<1>7. ASSUME NEW j \in S PROVE j <= i
  <2>1. n - j \in U OBVIOUS
  <2>2. ~(n - j < n - i) BY <1>5, <1>6, <2>1
  <2>3. QED BY <1>1, <2>2
<1>8. QED BY <1>7

\* A thread with entries has an innermost one.
LEMMA HasLast ==
    ASSUME NEW Ts, NEW D, Good(Ts, D), NEW t, ~Absent(D, t)
    PROVE  \E i \in 1..Len(D) : Last(D, t, i)
<1> DEFINE S == {i \in 1..Len(D) : D[i].th = t}
<1>1. Len(D) \in Nat BY DEF Good
<1>2. S \subseteq 1..Len(D) /\ S # {} BY DEF Absent
<1>3. PICK i \in S : \A j \in S : j <= i BY <1>1, <1>2, Greatest
<1>4. \A j \in (i + 1)..Len(D) : D[j].th # t
  <2> SUFFICES ASSUME NEW j \in (i + 1)..Len(D), D[j].th = t PROVE FALSE OBVIOUS
  <2>1. j \in S BY <1>1, <1>2
  <2>2. QED BY <1>1, <1>2, <1>3, <2>1
<1>5. QED BY <1>4 DEF Last

\* A coroutine that can be resumed has nothing on the C stack.
LEMMA Sleeping ==
    ASSUME NEW Ts, NEW D, NEW n, NEW t, At(Ts, D, n, t), D[n].kind = "cfunc",
           NEW co, co \in Coroutines, Len(Ts[co].cis) = 1 \/ Ts[co].cis[Len(Ts[co].cis)].yield
    PROVE  Absent(D, co) /\ Asleep(Ts[co].cis)
<1> DEFINE cis == Ts[co].cis
<1>0. Good(Ts, D) /\ Len(D) = n /\ D[n].th = t BY DEF At
<1>1. n \in Nat /\ co \in Threads /\ ThreadOK(Ts[co], D, co) BY <1>0, AtTop, Limits DEF Good
<1>2. SUFFICES Absent(D, co) BY <1>1 DEF ThreadOK
<1>3. SUFFICES ASSUME ~Absent(D, co) PROVE FALSE OBVIOUS
<1>4. PICK i \in 1..Len(D) : Last(D, co, i) BY <1>0, <1>3, HasLast
<1>5. Reached(cis, D, i, Len(cis)) /\ EntryOK(Ts, D, i) /\ D[i].th = co BY <1>0, <1>1, <1>4 DEF ThreadOK, Good, Last
<1>6. D[i].kind = "cfunc"
  <2>1. CASE i = n BY <2>1
  <2>2. CASE i # n
    <3>1. i + 1 \in 1..Len(D) /\ i + 1 # 1 /\ (i + 1) - 1 = i /\ i + 1 \in (i + 1)..Len(D) BY <1>0, <1>1, <2>2
    <3>2. Stands(D, i + 1) /\ D[i + 1].th # co
      <4>1. EntryOK(Ts, D, i + 1) BY <1>0, <3>1 DEF Good
      <4>2. QED BY <1>4, <3>1, <4>1 DEF EntryOK, Last
    <3>3. D[i + 1].kind = "resume" BY <1>5, <3>1, <3>2 DEF Stands
    <3>4. QED BY <3>1, <3>2, <3>3 DEF Stands, On
  <2>3. QED BY <2>1, <2>2
<1>7. Len(cis) = D[i].at BY <1>5, <1>6 DEF Reached, Base
<1>8. D[i].at > 1 /\ ~cis[D[i].at].yield BY <1>5, <1>6 DEF EntryOK, FramesOK
<1>9. Len(cis) # 1 BY <1>7, <1>8
<1>10. QED BY <1>7, <1>8, <1>9

\* lua_resume, whether the coroutine starts or goes on: its base is on the stack.
Resuming(q, k) == [q EXCEPT !.errorJmp = k]
AtBase(q)      == [q EXCEPT !.cis = SubSeq(@, 1, 1)]
\* A coroutine that is put back to its base keeps all but its CallInfo.
LEMMA AtBaseIs ==
    ASSUME NEW q, q \in ThreadSet, Sized(q), Len(q.cis) >= 1
    PROVE  /\ AtBase(q) \in ThreadSet /\ Sized(AtBase(q)) /\ Alike(AtBase(q), q)
           /\ Len(AtBase(q).cis) = 1 /\ AtBase(q).cis[1] = q.cis[1]
<1> DEFINE cut == SubSeq(q.cis, 1, 1)
           r == [q EXCEPT !.cis = cut]
<1>1. q.cis \in Seq(Frames) /\ Len(q.cis) \in Nat /\ q.size_ci \in Nat BY DEF ThreadSet
<1>2. cut \in Seq(Frames) /\ Len(cut) = 1 /\ cut[1] = q.cis[1] BY <1>1
<1>3. AtBase(q) = r BY DEF AtBase
<1> HIDE DEF cut
<1>4. r \in ThreadSet /\ r.cis = cut /\ r.size_ci = q.size_ci /\ Alike(r, q) BY <1>2 DEF ThreadSet, Alike
<1> HIDE DEF r
<1>5. Sized(r) BY <1>1, <1>2, <1>4 DEF Sized
<1>6. QED BY <1>2, <1>3, <1>4, <1>5

\* A good state in which a lua_resume has begun is good.
LEMMA Resume ==
    ASSUME NEW Ts, NEW D, NEW n, NEW t, At(Ts, D, n, t), Low(Ts), D[n].kind = "cfunc",
           NEW co, co \in Coroutines, Absent(D, co), NEW E, Adds(D, E, "resume", co, Len(Ts[co].cis), Handler(Ts[co])),
           NEW r, r = AtBase(Resuming(Ts[co], n + 1))
    PROVE  At(Put(Ts, co, r), E, n + 1, co) /\ Low(Put(Ts, co, r)) /\ E[n + 1].kind = "resume"
<1> DEFINE q == Ts[co]
           h == Resuming(q, n + 1)
           saved == Handler(q)
<1>0. Good(Ts, D) /\ Len(D) = n /\ D[n].th = t BY DEF At
<1>1. /\ n \in Nat /\ co \in Threads /\ ThreadOK(q, D, co) /\ q \in ThreadSet /\ Ts \in [Threads -> ThreadSet]
      /\ D \in Seq(EntrySet) /\ Len(q.cis) \in Nat
  BY <1>0, AtTop, Limits DEF Good, ThreadSet
<1>2. /\ Len(q.cis) >= 1 /\ Sized(q) /\ Counted(D, co, n, q.nCcalls, q.allowhook, q.errfunc, q.errorJmp)
  BY <1>0, <1>1 DEF ThreadOK, Sized
<1>3. /\ h \in ThreadSet /\ h.cis = q.cis /\ h.size_ci = q.size_ci /\ h.nCcalls = q.nCcalls
      /\ h.allowhook = q.allowhook /\ h.errfunc = q.errfunc /\ h.errorJmp = n + 1
  <2>1. n + 1 \in Nat BY <1>1
  <2> HIDE DEF q
  <2>2. QED BY <1>1, <2>1 DEF Resuming, ThreadSet
<1>4. /\ saved \in Saved /\ saved.nCcalls = q.nCcalls /\ saved.allowhook = q.allowhook /\ saved.errfunc = q.errfunc
      /\ saved.previous = q.errorJmp
  <2>1. /\ q.nCcalls \in Nat /\ q.allowhook \in BOOLEAN /\ q.errfunc \in ErrFuncs /\ q.errorJmp \in Nat
    BY <1>1 DEF ThreadSet
  <2>2. QED BY <1>1, <2>1 DEF Handler, Saved
<1>5. q.allowhook \in BOOLEAN /\ q.errfunc \in ErrFuncs /\ q.nCcalls <= MaxC /\ q.nCcalls \in Nat BY <1>1 DEF ThreadSet, Low
<1> DEFINE at == Len(q.cis)
           e  == Entry("resume", co, at, saved)
<1>6. e \in EntrySet /\ e.kind = "resume" /\ e.th = co /\ e.saved = saved
  BY <1>1, <1>4 DEF Entry, EntrySet, Kinds, Protected
<1>7. E = Append(D, e) BY DEF Adds
<1> HIDE DEF e
<1>8. E \in Seq(EntrySet) /\ Len(E) = n + 1 /\ E[n + 1] = e /\ \A i \in 1..n : E[i] = D[i] BY <1>0, <1>1, <1>6, <1>7
<1> HIDE DEF h, saved
<1>9. /\ r \in ThreadSet /\ Sized(r) /\ Alike(r, h) /\ Len(r.cis) = 1 /\ r.cis[1] = q.cis[1]
  <2>1. Sized(h) /\ Len(h.cis) >= 1 BY <1>2, <1>3 DEF Sized
  <2>2. r = AtBase(h) BY DEF h
  <2>3. QED BY <1>3, <2>1, <2>2, AtBaseIs
<1>10. SavedOK(E, n + 1)
  <2>1. Counted(E, co, n, q.nCcalls, q.allowhook, q.errfunc, q.errorJmp)
    <3> HIDE DEF q
    <3>1. QED BY <1>1, <1>2, <1>8, CountedSame
  <2>2. (n + 1) - 1 = n BY <1>1
  <2> HIDE DEF q
  <2>3. QED BY <1>4, <1>5, <1>6, <1>8, <2>1, <2>2 DEF SavedOK
<1>11. Tallied(r, q, "resume", n)
  <2> HIDE DEF q
  <2>1. QED BY <1>3, <1>5, <1>9 DEF Tallied, Alike, Protected
<1>12. Good(Put(Ts, co, r), E) BY <1>0, <1>6, <1>8, <1>9, <1>10, <1>11, Begin
<1>13. Low(Put(Ts, co, r))
  <2>1. r.nCcalls <= MaxC BY <1>3, <1>5, <1>9 DEF Alike
  <2>2. QED BY <1>1, <2>1, LowPut
<1>14. QED BY <1>6, <1>8, <1>12, <1>13 DEF At

\* What luaD_rawrunprotected does for lua_resume.
Begins(E, Ts, D, n, co, p) ==
    /\ rawrunprotected(St(Ts, D, p), "resume", co) = St(Put(Ts, co, Resuming(Ts[co], n + 1)), E, p)
    /\ Adds(D, E, "resume", co, Len(Ts[co].cis), Handler(Ts[co]))
\* luaD_rawrunprotected for lua_resume, with the C stack that it leaves named.
LEMMA ResumeIs ==
    ASSUME NEW Ts, NEW D, NEW n, NEW t, At(Ts, D, n, t), NEW co, NEW p
    PROVE  \E E : Begins(E, Ts, D, n, co, p)
<1> DEFINE kind == "resume"
<1>1. Len(D) = n BY DEF At
<1> HIDE DEF kind
<1>2. PICK E : /\ rawrunprotected(St(Ts, D, p), kind, co) = St(Put(Ts, co, [Ts[co] EXCEPT !.errorJmp = Len(D) + 1]), E, p)
               /\ Adds(D, E, kind, co, Len(Ts[co].cis), Handler(Ts[co]))
  BY RawPick
<1>3. rawrunprotected(St(Ts, D, p), kind, co) = St(Put(Ts, co, Resuming(Ts[co], n + 1)), E, p)
  BY <1>1, <1>2 DEF Resuming
<1>4. QED BY <1>2, <1>3 DEF kind, Begins

\* A coroutine starts.
LEMMA Started1 ==
    ASSUME NEW Ts, NEW D, NEW n, NEW t, At(Ts, D, n, t), Low(Ts), D[n].kind = "cfunc",
           NEW co, co \in Coroutines, Absent(D, co), Len(Ts[co].cis) = 1, NEW c \in BOOLEAN, c = FALSE, NEW p
    PROVE  Comes(luaD_precall(rawrunprotected(St(Ts, D, p), "resume", co), co, c), p)
<1> DEFINE q == Ts[co]
           h == Resuming(q, n + 1)
           r == AtBase(h)
           A == Put(Ts, co, r)
<1>1. n \in Nat /\ co \in Threads /\ Ts \in [Threads -> ThreadSet] /\ q \in ThreadSet
  BY AtTop, Limits DEF At, Good
<1>2. h \in ThreadSet /\ h.cis = q.cis
  <2>1. n + 1 \in Nat BY <1>1
  <2> HIDE DEF q
  <2>2. QED BY <1>1, <2>1 DEF Resuming, ThreadSet
<1>3. h = r
  <2> HIDE DEF h
  <2> DEFINE cis == h.cis
             cut == SubSeq(cis, 1, 1)
  <2>1. cis \in Seq(Frames) /\ Len(cis) = 1 BY <1>2 DEF ThreadSet
  <2> HIDE DEF cis
  <2>2. cut = cis
    <3>1. cis = [i \in 1..1 |-> cis[i]] BY <2>1
    <3>2. cut = [i \in 1..1 |-> cis[i]] BY <2>1
    <3>3. QED BY <3>1, <3>2
  <2>3. r = [h EXCEPT !.cis = cut] BY DEF AtBase, cis
  <2> HIDE DEF r
  <2>4. [h EXCEPT !.cis = h.cis] = h BY <1>2 DEF ThreadSet
  <2>5. QED BY <2>2, <2>3, <2>4 DEF cis
<1>4. PICK E : Begins(E, Ts, D, n, co, p) BY ResumeIs
<1>5. At(A, E, n + 1, co) /\ Low(A) /\ E[n + 1].kind = "resume"
  <2> HIDE DEF r
  <2>1. r = AtBase(Resuming(Ts[co], n + 1)) BY DEF r
  <2>2. QED BY <1>4, <2>1, Resume DEF Begins
<1> HIDE DEF h, r, A
<1>6. rawrunprotected(St(Ts, D, p), "resume", co) = St(A, E, p) BY <1>3, <1>4 DEF A, h, Begins
<1>7. Comes(luaD_precall(St(A, E, p), co, c), p)
  <2>1. E[n + 1].kind \in {"call", "execute", "resume"} /\ E[n + 1].kind # "execute" BY <1>5
  <2>2. ~c OBVIOUS
  <2>3. QED BY <1>5, <2>1, <2>2, Precall
<1>8. QED BY <1>6, <1>7

\* A coroutine goes on after a yield, which is complete: luaV_execute runs what called it.
LEMMA GoesOn ==
    ASSUME NEW Ts, NEW D, NEW n, NEW t, At(Ts, D, n, t), Low(Ts), D[n].kind = "cfunc",
           NEW co, co \in Coroutines, Absent(D, co), Len(Ts[co].cis) # 1, NEW p
    PROVE  Comes(PushC(DoCut(rawrunprotected(St(Ts, D, p), "resume", co), co), "execute", co, Nothing), p)
<1>0. PICK E : Begins(E, Ts, D, n, co, p) BY ResumeIs
<1> DEFINE q == Ts[co]
           h == Resuming(q, n + 1)
           r == AtBase(h)
           A == Put(Ts, co, r)
           g == Cut1(h)
           B == Put(Ts, co, g)
           hi == Len(q.cis) - 1
<1>1. /\ n \in Nat /\ n >= 1 /\ co \in Threads /\ Ts \in [Threads -> ThreadSet] /\ q \in ThreadSet /\ ThreadOK(q, D, co)
  BY AtTop, Limits DEF At, Good
<1>2. Len(q.cis) > 2 /\ Region(q.cis, 1, hi) /\ Sized(q) /\ Len(q.cis) \in Nat
  <2>1. Absent(D, co) => Asleep(q.cis) BY <1>1 DEF ThreadOK
  <2>2. Len(q.cis) > 2 /\ Region(q.cis, 1, hi) BY <2>1 DEF Asleep
  <2>3. Sized(q) BY <1>1 DEF ThreadOK, Sized
  <2>4. Len(q.cis) \in Nat BY <1>1 DEF ThreadSet
  <2>5. QED BY <2>2, <2>3, <2>4
<1>3. h \in ThreadSet /\ h.cis = q.cis /\ h.size_ci = q.size_ci
  <2>1. n + 1 \in Nat BY <1>1
  <2> HIDE DEF q
  <2>2. QED BY <1>1, <2>1 DEF Resuming, ThreadSet
<1>4. Sized(h) /\ Len(h.cis) >= 2 BY <1>2, <1>3 DEF Sized
<1> HIDE DEF h
<1>5. /\ r \in ThreadSet /\ Sized(r) /\ Alike(r, h) /\ Len(r.cis) = 1 /\ r.cis[1] = h.cis[1]
  BY <1>3, <1>4, AtBaseIs
<1>6. /\ g \in ThreadSet /\ Sized(g) /\ Alike(g, h)
      /\ Len(g.cis) = Len(h.cis) - 1 /\ \A k \in 1..(Len(h.cis) - 1) : g.cis[k] = h.cis[k]
  BY <1>3, <1>4, Cut1Is
<1>7. rawrunprotected(St(Ts, D, p), "resume", co) = St(Put(Ts, co, h), E, p) BY <1>0 DEF h, Begins
<1>8. At(A, E, n + 1, co) /\ Low(A) /\ E[n + 1].kind = "resume"
  <2> HIDE DEF r
  <2>1. r = AtBase(Resuming(Ts[co], n + 1)) BY DEF r, h
  <2>2. QED BY <1>0, <2>1, Resume DEF Begins
<1> HIDE DEF r, g
<1>9. A[co] = r BY <1>1, <1>5, PutIs
<1>10. DoCut(St(Put(Ts, co, h), E, p), co) = St(B, E, p)
  <2> DEFINE H == Put(Ts, co, h)
  <2>1. H[co] = h BY <1>1, PutIs
  <2>2. Put(H, co, g) = B BY DEF Put
  <2> HIDE DEF H, B
  <2>3. DoCut(St(H, E, p), co) = St(Put(H, co, Cut1(H[co])), E, p) BY CutIs
  <2>4. Put(H, co, Cut1(H[co])) = B BY <2>1, <2>2 DEF g
  <2>5. DoCut(St(H, E, p), co) = St(B, E, p) BY <2>3, <2>4
  <2>6. QED BY <2>5 DEF H
<1>11. B[co] = g /\ Put(A, co, g) = B BY <1>1, <1>6, PutIs DEF Put
<1>12. \A u \in Threads \ {co} : A[u] = Ts[u] BY <1>1, PutIs
<1> HIDE DEF A, B
<1>13. PICK F : PushC(St(B, E, p), "execute", co, Nothing) = St(B, F, p)
                /\ Adds(E, F, "execute", co, Len(B[co].cis), Nothing)
  BY PushIs
<1>14. Len(g.cis) = hi /\ hi \in Nat /\ hi >= 2 /\ \A k \in 1..hi : g.cis[k] = q.cis[k]
  <2>1. Len(h.cis) - 1 = hi BY <1>3
  <2>2. QED BY <1>2, <1>3, <1>6, <2>1
<1>15. Pushes(E, F, n + 1, co) /\ Tops(F, n + 1, "execute", co, hi, Nothing)
  <2>1. Adds(E, F, "execute", co, hi, Nothing) BY <1>11, <1>13, <1>14
  <2>2. "execute" \in Kinds /\ Nothing \in Saved BY DEF Kinds, Saved
  <2> HIDE DEF hi
  <2>3. QED BY <1>8, <1>14, <2>1, <2>2, Appended
<1>16. Good(A, E) /\ Len(E) = n + 1 BY <1>8 DEF At
<1>17. Stands(F, (n + 1) + 1)
  <2>1. n + 1 # 1 BY <1>1
  <2>2. F[(n + 1) + 1].kind = "execute" BY <1>15 DEF Tops
  <2>3. QED BY <1>8, <1>15, <1>16, <2>1, <2>2, StandsOn
<1>18. Base(E, n + 1) = 1 BY <1>8 DEF Base
<1>19. IntoLua(A, E, F, n + 1, co, g)
  <2>1. Tallied(g, A[co], "execute", n + 1)
    <3>1. r.allowhook \in BOOLEAN BY <1>5 DEF ThreadSet
    <3>2. QED BY <1>5, <1>6, <1>9, <3>1 DEF Tallied, Protected, Alike
  <2>2. Region(g.cis, 1, Len(g.cis))
    <3>1. \A k \in (1 + 1)..hi : k \in 1..hi BY <1>14
    <3> HIDE DEF hi
    <3>2. QED BY <1>2, <1>14, <3>1 DEF Region
  <2>3. \A k \in 1..1 : g.cis[k] = A[co].cis[k]
    <3>1. 1 \in 1..hi BY <1>14
    <3>2. g.cis[1] = q.cis[1] BY <1>14, <3>1
    <3>3. \A k \in 1..1 : k = 1 OBVIOUS
    <3>4. r.cis[1] = q.cis[1] BY <1>3, <1>5
    <3>5. QED BY <1>9, <3>2, <3>3, <3>4
  <2>4. F[(n + 1) + 1].kind = "execute" BY <1>15 DEF Tops
  <2>5. QED BY <1>6, <1>17, <1>18, <2>1, <2>2, <2>3, <2>4 DEF IntoLua
<1>20. Good(B, F)
  <2>1. Good(Put(A, co, g), F) BY <1>15, <1>16, <1>19, PushExecute
  <2>2. QED BY <1>11, <2>1
<1>21. At(B, F, (n + 1) + 1, co) /\ F[(n + 1) + 1].kind = "execute" BY <1>15, <1>20 DEF At, Tops
<1>22. Low(B)
  <2>1. A \in [Threads -> ThreadSet] /\ A[co].nCcalls <= MaxC BY <1>1, <1>8, <1>16 DEF Low, Good
  <2>2. g.nCcalls <= MaxC BY <1>5, <1>6, <1>9, <2>1 DEF Alike
  <2>3. Low(Put(A, co, g)) BY <1>1, <1>8, <2>1, <2>2, LowPut
  <2>4. QED BY <1>11, <2>3
<1>23. Comes(St(B, F, p), p) BY <1>21, <1>22, SafeIs
<1>24. QED BY <1>7, <1>10, <1>13, <1>23

\* coroutine.yield: what runs is a function that the coroutine's only luaV_execute has called.
Yielded(q, k)    == [q EXCEPT !.cis[k].yield = TRUE]
DoYield(s, t, k) == [s EXCEPT !.T[t].cis[k].yield = TRUE]
\* One CallInfo of one thread is marked as having yielded.
LEMMA YieldIs ==
    ASSUME NEW Ts, NEW D, NEW p, NEW t, NEW k
    PROVE  DoYield(St(Ts, D, p), t, k) = St(Put(Ts, t, Yielded(Ts[t], k)), D, p)
<1> DEFINE r == Yielded(Ts[t], k)
<1>1. DoYield(St(Ts, D, p), t, k) = [St(Ts, D, p) EXCEPT !.T[t] = r]
  BY DEF St, DoYield, Yielded
<1> HIDE DEF r
<1>2. QED BY <1>1, SetIs DEF r

\* The mark is all that this changes of the thread.
LEMMA YieldedIs ==
    ASSUME NEW q, q \in ThreadSet, Sized(q), NEW k, k \in 1..Len(q.cis)
    PROVE  LET r == Yielded(q, k)
           IN /\ r \in ThreadSet /\ Sized(r) /\ Alike(r, q) /\ Len(r.cis) = Len(q.cis) /\ r.size_ci = q.size_ci
              /\ r.cis[k].yield = TRUE /\ r.cis[k].c = q.cis[k].c
              /\ \A i \in 1..Len(q.cis) : i # k => r.cis[i] = q.cis[i]
<1> DEFINE m == Len(q.cis)
           f == [q.cis[k] EXCEPT !.yield = TRUE]
           cis == [q.cis EXCEPT ![k] = f]
           r == [q EXCEPT !.cis = cis]
<1>1. q.cis \in Seq(Frames) /\ m \in Nat /\ q.size_ci \in Nat BY DEF ThreadSet
<1>2. q.cis[k] \in Frames BY <1>1
<1>3. f \in Frames /\ f.yield = TRUE /\ f.c = q.cis[k].c BY <1>2 DEF Frames
<1> HIDE DEF f
<1>4. q.cis \in [1..m -> Frames] /\ DOMAIN q.cis = 1..m BY <1>1
<1>5. cis \in [1..m -> Frames] /\ cis[k] = f /\ \A i \in 1..m : i # k => cis[i] = q.cis[i] BY <1>3, <1>4
<1>6. Yielded(q, k) = r BY DEF Yielded, f
<1> HIDE DEF cis
<1>7. cis \in Seq(Frames) /\ Len(cis) = m BY <1>1, <1>5
<1>8. r \in ThreadSet /\ r.cis = cis /\ r.size_ci = q.size_ci /\ Alike(r, q) BY <1>7 DEF ThreadSet, Alike
<1> HIDE DEF r
<1>9. Sized(r) BY <1>7, <1>8 DEF Sized
<1>10. QED BY <1>3, <1>5, <1>6, <1>7, <1>8, <1>9

\* With no luaD_call, the coroutine is lua_resume, luaV_execute and the function that yields.
Three(D, n, t) ==
    /\ n - 2 >= 2 /\ D[n - 2].kind = "resume" /\ D[n - 1].kind = "execute"
    /\ D[n - 2].th = t /\ D[n - 1].th = t /\ \A i \in 1..(n - 3) : D[i].th # t
\* A coroutine that may yield has just these entries, so its yield cuts off all of them.
LEMMA OnlyThree ==
    ASSUME NEW Ts, NEW D, NEW n, NEW t, At(Ts, D, n, t), D[n].kind = "cfunc", Ts[t].nCcalls = 0
    PROVE  Three(D, n, t)
<1>0. Good(Ts, D) /\ Len(D) = n /\ D[n].th = t BY DEF At
<1>1. n \in Nat /\ n >= 2 /\ Counted(D, t, n, Ts[t].nCcalls, Ts[t].allowhook, Ts[t].errfunc, Ts[t].errorJmp)
  <2>1. D[n].kind # "host" OBVIOUS
  <2>2. QED BY <1>0, <2>1, AtTop, NotFirst
<1>2. \A i \in 1..n : EntryOK(Ts, D, i) BY <1>0 DEF Good
<1>3. ASSUME NEW i \in 1..n, D[i].th = t, D[i].kind = "call" PROVE FALSE
  <2> DEFINE S == {j \in 1..n : D[j].kind = "call" /\ D[j].th = t}
  <2>1. IsFiniteSet(S) /\ i \in S
    <3>1. i \in S BY <1>3
    <3>2. IsFiniteSet({j \in 1..n : D[j].kind = "call" /\ D[j].th = t})
      <4>1. n \in Nat BY <1>1
      <4>2. QED BY ONLY <4>1, CallsFinite
    <3>3. QED BY <3>1, <3>2
  <2>2. Cardinality(S) = 0
    <3>1. Calls(D, t, n) = 0 BY <1>1 DEF Counted
    <3>2. QED BY <3>1 DEF Calls
  <2> HIDE DEF S
  <2>3. QED BY <2>1, <2>2, FS_EmptySet
<1>4. D[n - 1].kind = "execute" /\ D[n - 1].th = t
  <2>1. n \in 1..n /\ n # 1 /\ n - 1 \in 1..n BY <1>1
  <2>2. Stands(D, n) BY <1>2, <2>1 DEF EntryOK
  <2>3. D[n - 1].th = t /\ D[n - 1].kind \in {"call", "execute"} BY <1>0, <2>2 DEF Stands, On
  <2>4. D[n - 1].kind # "call" BY <1>3, <2>1, <2>3
  <2>5. QED BY <2>3, <2>4
<1> DEFINE m == n - 1
<1>5. m \in 1..n /\ m # 1 /\ m - 1 = n - 2 /\ m - 1 \in 1..n
  <2>1. n - 1 \in 1..n BY <1>1
  <2>2. n - 1 # 1
    <3>1. EntryOK(Ts, D, n - 1) BY <1>2, <2>1
    <3>2. QED BY <1>4, <3>1 DEF EntryOK
  <2>3. QED BY <1>1, <2>1, <2>2
<1>6. D[m].kind = "execute" /\ D[m].th = t BY <1>4
<1> HIDE DEF m
<1>7. D[m - 1].kind = "resume" /\ D[m - 1].th = t
  <2>1. Stands(D, m) BY <1>2, <1>5 DEF EntryOK
  <2>2. D[m - 1].th = t /\ D[m - 1].kind \in {"call", "resume"} BY <1>6, <2>1 DEF Stands, On
  <2>3. D[m - 1].kind # "call" BY <1>3, <1>5, <2>2
  <2>4. QED BY <2>2, <2>3
<1> DEFINE k == m - 1
<1>8. k \in 1..n /\ k = n - 2 /\ k # 1 /\ k - 1 = n - 3
  <2>1. EntryOK(Ts, D, m - 1) BY <1>2, <1>5
  <2>2. m - 1 # 1 BY <1>7, <2>1 DEF EntryOK
  <2>3. QED BY <1>1, <1>5, <2>2
<1>9. D[k].kind = "resume" /\ D[k].th = t BY <1>7
<1> HIDE DEF k
<1>10. \A i \in 1..(n - 3) : D[i].th # t
  <2>1. Stands(D, k) BY <1>2, <1>8 DEF EntryOK
  <2>2. \A j \in 1..(k - 1) : D[j].th # D[k].th BY <1>9, <2>1 DEF Stands
  <2>3. QED BY <1>8, <1>9, <2>2
<1>11. n - 2 >= 2 BY <1>1, <1>8
<1>12. QED BY <1>4, <1>7, <1>5, <1>10, <1>11 DEF Three

\* A prefix of a prefix is a prefix.
LEMMA Nested ==
    ASSUME NEW D, D \in Seq(EntrySet), NEW i \in 0..Len(D), NEW j \in 0..i
    PROVE  SubSeq(SubSeq(D, 1, i), 1, j) = SubSeq(D, 1, j) /\ Len(SubSeq(D, 1, i)) = i
  OBVIOUS

\* coroutine.yield ends in a good state: the coroutine sleeps, and its resumer goes on.
LEMMA Yields ==
    ASSUME NEW Ts, NEW D, NEW n, NEW t, At(Ts, D, n, t), Low(Ts), D[n].kind = "cfunc", Ts[t].nCcalls = 0, NEW p
    PROVE  Comes(Unprotected(PopC(PopC(DoYield(St(Ts, D, p), t, Len(Ts[t].cis))))), p)
<1> DEFINE q == Ts[t]
           k == Len(q.cis)
           r == Yielded(q, k)
           m == n - 2
           e == D[m]
           A == Put(Ts, t, r)
           E == SubSeq(D, 1, m)
           u == Unhandled(r, e)
<1>0. Good(Ts, D) /\ Len(D) = n /\ D[n].th = t BY DEF At
<1>1. /\ n \in Nat /\ n >= 1 /\ t \in Threads /\ Ts \in [Threads -> ThreadSet] /\ D \in Seq(EntrySet) /\ q \in ThreadSet
      /\ Sized(q) /\ k \in Nat /\ Reached(q.cis, D, n, k) /\ EntryOK(Ts, D, n)
      /\ Counted(D, t, n, q.nCcalls, q.allowhook, q.errfunc, q.errorJmp)
  BY <1>0, AtTop DEF Good, ThreadOK, Sized
<1>2. Three(D, n, t) BY OnlyThree
<1>3. m \in Nat /\ m >= 2 /\ m \in 2..n /\ e.kind = "resume" /\ e.th = t /\ D[n - 1].kind = "execute" /\ D[n - 1].th = t
  BY <1>1, <1>2 DEF Three
<1>4. k > 2 /\ q.cis[k].c /\ Region(q.cis, 1, k - 1)
  <2>1. k = D[n].at /\ In(D, n) = D[n].at - 1 BY <1>1 DEF Reached, Base, In
  <2>2. D[n].at > 1 /\ q.cis[D[n].at].c /\ Reached(q.cis, D, n - 1, In(D, n))
    <3>1. FramesOK(q.cis, D, n) BY <1>0, <1>1 DEF EntryOK
    <3>2. n > 1 BY <1>1, <1>3
    <3>3. QED BY <3>1, <3>2 DEF FramesOK
  <2>3. Base(D, n - 1) = 1
    <3>1. (n - 1) - 1 = m BY <1>1
    <3>2. QED BY <1>3, <3>1 DEF Base
  <2>4. Region(q.cis, 1, k - 1) BY <1>3, <2>1, <2>2, <2>3 DEF Reached
  <2>5. 1 < k - 1 BY <2>4 DEF Region
  <2>6. QED BY <1>1, <2>1, <2>2, <2>4, <2>5
<1>5. /\ r \in ThreadSet /\ Sized(r) /\ Alike(r, q) /\ Len(r.cis) = k /\ r.size_ci = q.size_ci
      /\ r.cis[k].yield = TRUE /\ r.cis[k].c = q.cis[k].c
      /\ \A i \in 1..k : i # k => r.cis[i] = q.cis[i]
  <2>1. k \in 1..Len(q.cis) BY <1>1, <1>4
  <2> HIDE DEF k, q
  <2>2. QED BY <1>1, <2>1, YieldedIs DEF k
<1> HIDE DEF r
<1>6. \A i \in 1..n : D[i].th = t => i = m \/ i = n - 1 \/ i = n
  <2>1. \A i \in 1..n : i \in 1..(n - 3) \/ i = m \/ i = n - 1 \/ i = n BY <1>1, <1>3
  <2>2. QED BY <1>2, <2>1 DEF Three
<1>7. q.allowhook = TRUE /\ q.errfunc = "none"
  <2>1. \A i \in 1..n : D[i].th = t => D[i].kind \in {"resume", "execute", "cfunc"} BY <1>3, <1>6
  <2>2. Quiet(D, t, n) = TRUE BY <2>1 DEF Quiet
  <2>3. \A i \in 1..n : D[i].th = t => D[i].kind # "pcall" BY <2>1
  <2>4. QED BY <1>1, <2>2, <2>3 DEF Counted
<1>8. e.saved.previous = 0
  <2>1. SavedOK(D, m)
    <3>1. m \in 1..Len(D) BY <1>0, <1>1, <1>3
    <3>2. QED BY <1>0, <3>1 DEF Good, EntryOK
  <2>2. e.kind \in Protected BY <1>3 DEF Protected
  <2>3. Catches(D, t, m - 1, e.saved.previous) BY <1>3, <2>1, <2>2 DEF SavedOK, Counted
  <2>4. m - 1 = n - 3 /\ m - 1 \in Nat BY <1>1, <1>3
  <2>5. e.saved.previous \in 0..(m - 1) /\ (e.saved.previous > 0 => D[e.saved.previous].th = t) BY <2>3 DEF Catches
  <2>6. QED BY <1>2, <2>4, <2>5 DEF Three
<1>9. /\ u \in ThreadSet /\ u.cis = r.cis /\ u.nCcalls = 0 /\ u.allowhook = TRUE /\ u.errfunc = "none"
      /\ u.size_ci = r.size_ci /\ u.errorJmp = 0
  <2>1. r.nCcalls = 0 /\ r.allowhook = TRUE /\ r.errfunc = "none" BY <1>5, <1>7 DEF Alike
  <2>2. e.kind # "pcall" BY <1>3
  <2> HIDE DEF e, q, k
  <2>3. QED BY <1>5, <1>8, <2>1, <2>2 DEF Unhandled, ThreadSet
<1>10. A[t] = r /\ A \in [Threads -> ThreadSet] /\ Put(A, t, u) = Put(Ts, t, u)
  <2>1. A[t] = r /\ A \in [Threads -> ThreadSet] BY <1>1, <1>5, PutIs
  <2> HIDE DEF u
  <2>2. QED BY <2>1 DEF Put
<1>11. DoYield(St(Ts, D, p), t, k) = St(A, D, p)
  <2> HIDE DEF k
  <2>1. QED BY YieldIs DEF r
<1>12. PopC(PopC(St(A, D, p))) = St(A, E, p) /\ Len(E) = m /\ E[m] = e /\ SubSeq(E, 1, m - 1) = SubSeq(D, 1, m - 1)
  <2> HIDE DEF A
  <2> DEFINE F == SubSeq(D, 1, n - 1)
  <2>1. n - 1 \in 0..Len(D) /\ m \in 0..(n - 1) /\ m \in 0..Len(D) /\ m - 1 \in 0..m BY <1>0, <1>1, <1>3
  <2>2. Len(F) = n - 1 /\ SubSeq(F, 1, m) = E /\ Len(E) = m /\ SubSeq(E, 1, m - 1) = SubSeq(D, 1, m - 1)
    <3> HIDE DEF m
    <3>1. QED BY <1>1, <2>1, Nested
  <2>3. PopC(St(A, D, p)) = St(A, F, p)
    <3>1. PopC(St(A, D, p)) = St(A, SubSeq(D, 1, Len(D) - 1), p) BY PopCIs
    <3>2. Len(D) - 1 = n - 1 BY <1>0
    <3>3. QED BY <3>1, <3>2
  <2>4. Len(F) - 1 = m BY <1>1, <2>2
  <2>5. E[m] = e BY <1>0, <1>1, <1>3
  <2> HIDE DEF F, E, e, m
  <2>6. PopC(St(A, F, p)) = St(A, SubSeq(F, 1, Len(F) - 1), p) BY PopCIs
  <2>7. QED BY <2>2, <2>3, <2>4, <2>5, <2>6
<1>13. Unprotected(St(A, E, p)) = St(Put(Ts, t, u), SubSeq(D, 1, m - 1), p)
  <2> HIDE DEF A, E, e, m
  <2>1. E[Len(E)] = e BY <1>12
  <2>2. Unprotected(St(A, E, p)) = St(Put(A, e.th, Unhandled(A[e.th], e)), SubSeq(E, 1, Len(E) - 1), p)
    BY <1>1, <1>3, <1>10, <2>1, UnprotectedIs
  <2>3. Unhandled(A[e.th], e) = u BY <1>3, <1>10
  <2> HIDE DEF u
  <2>4. QED BY <1>3, <1>10, <1>12, <2>2, <2>3
<1> HIDE DEF u
<1>14. Sleeps(u, q)
  <2>1. Sized(u) BY <1>5, <1>9 DEF Sized
  <2>2. 1 \in 1..k /\ 1 # k BY <1>1, <1>4
  <2>3. u.cis[1] = q.cis[1] /\ Len(u.cis) = k BY <1>5, <1>9, <2>2
  <2>4. Region(u.cis, 1, k - 1)
    <3> DEFINE hi == k - 1
    <3>1. \A i \in (1 + 1)..hi : i \in 1..k /\ i # k BY <1>1
    <3>2. \A i \in (1 + 1)..hi : u.cis[i] = q.cis[i] BY <1>5, <1>9, <3>1
    <3>3. Region(q.cis, 1, hi) BY <1>4
    <3> HIDE DEF hi
    <3>4. Region(u.cis, 1, hi) BY <3>2, <3>3 DEF Region
    <3>5. QED BY <3>4 DEF hi
  <2>5. u.cis[k].c /\ u.cis[k].yield BY <1>4, <1>5, <1>9
  <2>6. Asleep(u.cis)
    <3> HIDE DEF k
    <3>1. QED BY <1>4, <2>3, <2>4, <2>5 DEF Asleep
  <2>7. Len(u.cis) >= 1 BY <1>1, <1>4, <2>3
  <2>8. QED BY <1>9, <2>1, <2>3, <2>6, <2>7 DEF Sleeps
<1>15. Comes(St(Put(Ts, t, u), SubSeq(D, 1, m - 1), p), p)
  <2>1. D[m].kind = "resume" /\ D[m].th = t BY <1>3
  <2> HIDE DEF m
  <2>2. QED BY <1>3, <1>14, <2>1, Left
<1>16. QED BY <1>11, <1>12, <1>13, <1>15

\* lua_cpcall and lua_load.
LEMMA Cpcall ==
    ASSUME NEW Ts, NEW D, NEW n, NEW t, At(Ts, D, n, t), Low(Ts), D[n].kind = "host", NEW c \in BOOLEAN, NEW p
    PROVE  Comes(luaD_call(rawrunprotected(St(Ts, D, p), "pcall", t), t, c), p)
<1> DEFINE kind == "pcall"
           S == rawrunprotected(St(Ts, D, p), kind, t)
<1>1. MayFollow(kind, D, n) BY DEF MayFollow
<1>2. kind \in {"pcall", "parser"} /\ kind = "pcall" OBVIOUS
<1> HIDE DEF kind
<1>3. PICK r, E : /\ S = St(Put(Ts, t, r), E, p)
                  /\ At(Put(Ts, t, r), E, n + 1, t) /\ Low(Put(Ts, t, r)) /\ E[n + 1].kind = kind
  BY <1>1, <1>2, RawAt
<1> DEFINE A == Put(Ts, t, r)
<1> HIDE DEF A, S
<1>4. S = St(A, E, p) /\ At(A, E, n + 1, t) /\ Low(A) /\ E[n + 1].kind = "pcall" BY <1>2, <1>3 DEF A
<1>5. E[n + 1].kind \notin {"host", "parser", "error", "resume"} BY <1>4
<1>6. Comes(luaD_call(St(A, E, p), t, c), p) BY <1>4, <1>5, Call
<1>7. QED BY <1>4, <1>6 DEF S, kind

\* lua_load ends in a good state.
LEMMA Load ==
    ASSUME NEW Ts, NEW D, NEW n, NEW t, At(Ts, D, n, t), Low(Ts), D[n].kind = "cfunc", NEW p
    PROVE  Comes(rawrunprotected(St(Ts, D, p), "parser", t), p)
<1> DEFINE kind == "parser"
           S == rawrunprotected(St(Ts, D, p), kind, t)
<1>1. MayFollow(kind, D, n)
  <2>1. D[n].kind # "host" OBVIOUS
  <2>2. n \in Nat /\ n >= 2 BY <2>1, NotFirst
  <2>3. QED BY <2>2 DEF MayFollow
<1>2. kind \in {"pcall", "parser"} /\ kind = "parser" OBVIOUS
<1> HIDE DEF kind
<1>3. PICK r, E : /\ S = St(Put(Ts, t, r), E, p)
                  /\ At(Put(Ts, t, r), E, n + 1, t) /\ Low(Put(Ts, t, r)) /\ E[n + 1].kind = kind
  BY <1>1, <1>2, RawAt
<1> HIDE DEF S
<1>4. E[n + 1].kind # "resume" BY <1>2, <1>3
<1>5. Comes(St(Put(Ts, t, r), E, p), p) BY <1>3, <1>4, SafeIs
<1>6. QED BY <1>3, <1>5 DEF S, kind

-----------------------------------------------------------------------------
(* What a step starts from and what is to show of it.                          *)

\* What the invariant says of the innermost entry, and what is to show of a step.
LEMMA Now ==
    ASSUME IInv
    PROVE  /\ At(T, C, Len(C), th) /\ Low(T) /\ State = St(T, C, panic) /\ Top = C[Len(C)] /\ Top.kind # "resume"
           /\ panic = FALSE
<1>1. State = St(T, C, panic) BY DEF State, St
<1>2. Top = C[Len(C)] BY <1>1, Fields DEF Top
<1>3. th = C[Len(C)].th BY <1>2 DEF th
<1>4. QED BY <1>1, <1>2, <1>3 DEF IInv, At, Low

\* A step that ends in a good state keeps the invariant.
LEMMA Then ==
    ASSUME IInv, NEW s, Moves(s), Comes(s, panic)
    PROVE  IInv'
<1>1. PICK Us, E : s = St(Us, E, panic) /\ Safe(Us, E) BY DEF Comes
<1>2. T' = Us /\ C' = E /\ panic' = panic BY <1>1, Fields DEF Moves
<1>3. Top' = E[Len(E)] BY <1>2 DEF Top, State, Innermost
<1>4. panic = FALSE BY DEF IInv
<1>5. QED BY <1>1, <1>2, <1>3, <1>4 DEF IInv, Safe

-----------------------------------------------------------------------------
(* Every action keeps the invariant.                                           *)

\* The host's lua_cpcall.
LEMMA CpcallKeeps == ASSUME IInv, lua_cpcall PROVE IInv'
<1> DEFINE c == TRUE
<1>1. c \in BOOLEAN OBVIOUS
<1>2. /\ At(T, C, Len(C), th) /\ Low(T) /\ State = St(T, C, panic) /\ Top = C[Len(C)] /\ panic = FALSE
  BY Now
<1>3. C[Len(C)].kind = "host" BY <1>2 DEF lua_cpcall, Is
<1>4. Good(T, C) /\ C[Len(C)].th = th BY <1>2 DEF At
<1>5. th = Main
  <2>1. /\ EntryOK(T, C, Len(C)) BY <1>4, AtTop
  <2>2. QED BY <1>3, <1>4, <2>1 DEF EntryOK, Stands
<1>6. Moves(luaD_call(rawrunprotected(State, "pcall", th), th, c)) BY <1>5 DEF lua_cpcall, Becomes
<1> HIDE DEF c
<1>7. Comes(luaD_call(rawrunprotected(St(T, C, panic), "pcall", th), th, c), panic)
  BY <1>1, <1>2, <1>3, Cpcall
<1>8. QED BY <1>2, <1>6, <1>7, Then

\* OP_CALL, of a C function or of one that the same luaV_execute runs.
LEMMA OP_CALLKeeps == ASSUME IInv, OP_CALL PROVE IInv'
<1>1. /\ At(T, C, Len(C), th) /\ Low(T) /\ State = St(T, C, panic) /\ Top = C[Len(C)] /\ panic = FALSE
  BY Now
<1>2. C[Len(C)].kind = "execute" BY <1>1 DEF OP_CALL, InLua, Is
<1> DEFINE s(c) == luaD_precall(State, th, c)
           k == Len(T[th].cis)
<1>3. PICK c \in BOOLEAN :
        Moves(IF ~c /\ EnteredLua(s(c), Len(C) + 1) THEN DoMark(PopC(s(c)), th, k) ELSE s(c))
  <2>1. Depth(State, th) = k BY <1>1, Fields
  <2>2. PICK c \in BOOLEAN :
          Moves(IF ~c /\ Innermost(s(c)).kind = "execute" /\ Len(s(c).C) = Len(C) + 1
                THEN [PopC(s(c)) EXCEPT !.T[th].cis[k].calling = TRUE] ELSE s(c))
    BY <2>1 DEF OP_CALL, Becomes
  <2>3. QED BY <2>2 DEF EnteredLua, DoMark
<1>4. CASE c = TRUE
  <2>1. Moves(luaD_precall(State, th, TRUE)) BY <1>3, <1>4
  <2>2. Comes(luaD_precall(St(T, C, panic), th, TRUE), panic) BY <1>1, <1>2, CallsC
  <2>3. QED BY <1>1, <2>1, <2>2, Then
<1>5. CASE c = FALSE
  <2> DEFINE x == luaD_precall(State, th, FALSE)
             y == IF EnteredLua(x, Len(C) + 1) THEN DoMark(PopC(x), th, k) ELSE x
  <2>1. Moves(y) BY <1>3, <1>5
  <2>2. Comes(y, panic)
    <3>1. CallOf(x, T, C, panic, th) BY <1>1 DEF CallOf
    <3> HIDE DEF x
    <3>2. QED BY <1>1, <1>2, <3>1, OpCall
  <2> HIDE DEF y
  <2>3. QED BY <2>1, <2>2, Then
<1>6. QED BY <1>4, <1>5

\* OP_TAILCALL.
LEMMA OP_TAILCALLKeeps == ASSUME IInv, OP_TAILCALL PROVE IInv'
<1>1. /\ At(T, C, Len(C), th) /\ Low(T) /\ State = St(T, C, panic) /\ Top = C[Len(C)] /\ panic = FALSE
  BY Now
<1>2. C[Len(C)].kind = "execute" BY <1>1 DEF OP_TAILCALL, InLua, Is
<1> DEFINE x == luaD_precall(State, th, FALSE)
           y == IF EnteredLua(x, Len(C) + 1) THEN DoCut(PopC(x), th) ELSE x
<1>3. Moves(y) BY DEF OP_TAILCALL, Becomes, EnteredLua, DoCut
<1>4. Comes(y, panic)
  <2>1. CallOf(x, T, C, panic, th) BY <1>1 DEF CallOf
  <2> HIDE DEF x
  <2>2. QED BY <1>1, <1>2, <2>1, OpTailcall
<1> HIDE DEF y
<1>5. QED BY <1>3, <1>4, Then

\* OP_RETURN, within a luaV_execute or out of it.
LEMMA OP_RETURNKeeps == ASSUME IInv, OP_RETURN PROVE IInv'
<1>1. /\ At(T, C, Len(C), th) /\ Low(T) /\ State = St(T, C, panic) /\ Top = C[Len(C)] /\ panic = FALSE
  BY Now
<1>2. C[Len(C)].kind = "execute" BY <1>1 DEF OP_RETURN, InLua, Is
<1> DEFINE k == Len(T[th].cis)
<1>3. Moves(IF T[th].cis[k - 1].calling THEN DoBack(State, th, k) ELSE Returned(State))
  BY DEF OP_RETURN, Becomes, DoBack
<1>4. CASE T[th].cis[k - 1].calling
  <2>1. Moves(DoBack(State, th, k)) BY <1>3, <1>4
  <2>2. Comes(DoBack(St(T, C, panic), th, k), panic) BY <1>1, <1>2, <1>4, GoesBack
  <2>3. QED BY <1>1, <2>1, <2>2, Then
<1>5. CASE ~T[th].cis[k - 1].calling
  <2>1. Moves(Returned(State)) BY <1>3, <1>5
  <2>2. Comes(Returned(St(T, C, panic)), panic) BY <1>1, <1>2, <1>5, Return
  <2>3. QED BY <1>1, <2>1, <2>2, Then
<1>6. QED BY <1>4, <1>5

\* A C function returns.
LEMMA ReturnCKeeps == ASSUME IInv, ReturnC PROVE IInv'
<1>1. /\ At(T, C, Len(C), th) /\ Low(T) /\ State = St(T, C, panic) /\ Top = C[Len(C)] /\ panic = FALSE
  BY Now
<1>2. C[Len(C)].kind = "cfunc" BY <1>1 DEF ReturnC, Is
<1>3. Moves(Returned(State)) BY DEF ReturnC, Becomes
<1>4. Comes(Returned(St(T, C, panic)), panic) BY <1>1, <1>2, Return
<1>5. QED BY <1>1, <1>3, <1>4, Then

\* luaD_call of a metamethod, a C function or a gc tag method.
LEMMA CallKeeps == ASSUME IInv, lua_call \/ do1gcTM PROVE IInv'
<1>1. /\ At(T, C, Len(C), th) /\ Low(T) /\ State = St(T, C, panic) /\ Top = C[Len(C)] /\ panic = FALSE
  BY Now
<1>2. C[Len(C)].kind \in {"execute", "cfunc", "hook", "gc"} BY <1>1 DEF lua_call, do1gcTM, InLua, Is
<1>3. PICK c \in BOOLEAN : Moves(luaD_call(State, th, c)) BY DEF lua_call, do1gcTM, Becomes
<1>4. Comes(luaD_call(St(T, C, panic), th, c), panic)
  <2>1. C[Len(C)].kind \notin {"host", "parser", "error", "resume"} BY <1>2
  <2>2. QED BY <1>1, <2>1, Call
<1>5. QED BY <1>1, <1>3, <1>4, Then

\* An error is raised.
LEMMA ErrorKeeps == ASSUME IInv, lua_error PROVE IInv'
<1>1. /\ At(T, C, Len(C), th) /\ Low(T) /\ State = St(T, C, panic) /\ Top = C[Len(C)] /\ panic = FALSE
  BY Now
<1>2. C[Len(C)].kind \in Codes \cup {"call"} BY <1>1 DEF lua_error, InLua, Is, Codes
<1>3. Moves(luaG_runerror(State, th)) BY DEF lua_error, Becomes
<1>4. Comes(luaG_runerror(St(T, C, panic), th), panic) BY <1>1, <1>2, ErrorOver DEF Over
<1>5. QED BY <1>1, <1>3, <1>4, Then

\* The error function has returned, or the compiler fails.
LEMMA ThrowKeeps == ASSUME IInv, HandlerEnds \/ SyntaxError PROVE IInv'
<1>1. /\ At(T, C, Len(C), th) /\ Low(T) /\ State = St(T, C, panic) /\ Top = C[Len(C)] /\ panic = FALSE
  BY Now
<1>2. C[Len(C)].kind # "host" BY <1>1 DEF HandlerEnds, SyntaxError, Is
<1>3. Moves(luaD_throw(State, th)) BY DEF HandlerEnds, SyntaxError, Becomes
<1>4. Comes(luaD_throw(St(T, C, panic), th), panic) BY <1>1, <1>2, ThrowOver DEF Over
<1>5. QED BY <1>1, <1>3, <1>4, Then

\* The error function is called, or the error is thrown.
LEMMA ErrormsgKeeps == ASSUME IInv, luaG_errormsg PROVE IInv'
<1>1. /\ At(T, C, Len(C), th) /\ Low(T) /\ State = St(T, C, panic) /\ Top = C[Len(C)] /\ panic = FALSE
  BY Now
<1>2. C[Len(C)].kind = "error" BY <1>1 DEF luaG_errormsg, Is
<1>3. CASE T[th].errfunc = "function"
  <2> DEFINE c == FALSE
  <2>1. c \in BOOLEAN OBVIOUS
  <2>2. Moves(luaD_call(PushC(PopC(State), "handler", th, Nothing), th, c)) BY <1>3 DEF luaG_errormsg
  <2> HIDE DEF c
  <2>3. Comes(luaD_call(PushC(PopC(St(T, C, panic)), "handler", th, Nothing), th, c), panic)
    BY <1>1, <1>2, <2>1, Handle
  <2>4. QED BY <1>1, <2>2, <2>3, Then
<1>4. CASE T[th].errfunc # "function"
  <2>1. Moves(luaD_throw(State, th)) BY <1>4 DEF luaG_errormsg
  <2>2. C[Len(C)].kind # "host" BY <1>2
  <2>3. Comes(luaD_throw(St(T, C, panic), th), panic) BY <1>1, <2>2, ThrowOver DEF Over
  <2>4. QED BY <1>1, <2>1, <2>3, Then
<1>5. QED BY <1>3, <1>4

\* pcall and xpcall begin.
LEMMA PcallKeeps == ASSUME IInv, lua_pcall PROVE IInv'
<1>1. /\ At(T, C, Len(C), th) /\ Low(T) /\ State = St(T, C, panic) /\ Top = C[Len(C)] /\ panic = FALSE
  BY Now
<1>2. C[Len(C)].kind = "cfunc" BY <1>1 DEF lua_pcall, Is
<1>3. PICK ef \in ErrFuncs, c \in BOOLEAN :
        Moves(luaD_call(SetErr(rawrunprotected(State, "pcall", th), th, ef), th, c))
  BY DEF lua_pcall, Becomes, SetErr, ErrFuncs
<1>4. Comes(luaD_call(SetErr(rawrunprotected(St(T, C, panic), "pcall", th), th, ef), th, c), panic)
  BY <1>1, <1>2, Pcall
<1>5. QED BY <1>1, <1>3, <1>4, Then

\* A protected call or the parser ends without an error.
LEMMA EndsKeeps == ASSUME IInv, PcallEnds \/ ParserEnds PROVE IInv'
<1>1. /\ At(T, C, Len(C), th) /\ Low(T) /\ State = St(T, C, panic) /\ Top = C[Len(C)] /\ panic = FALSE
  BY Now
<1>2. C[Len(C)].kind \in {"pcall", "parser"} BY <1>1 DEF PcallEnds, ParserEnds, Is
<1>3. Moves(Unprotected(State)) BY DEF PcallEnds, ParserEnds, Becomes
<1>4. Comes(Unprotected(St(T, C, panic)), panic) BY <1>1, <1>2, Ended
<1>5. QED BY <1>1, <1>3, <1>4, Then

\* The parser begins.
LEMMA LoadKeeps == ASSUME IInv, lua_load PROVE IInv'
<1>1. /\ At(T, C, Len(C), th) /\ Low(T) /\ State = St(T, C, panic) /\ Top = C[Len(C)] /\ panic = FALSE
  BY Now
<1>2. C[Len(C)].kind = "cfunc" BY <1>1 DEF lua_load, Is
<1>3. Moves(rawrunprotected(State, "parser", th)) BY DEF lua_load, Becomes
<1>4. Comes(rawrunprotected(St(T, C, panic), "parser", th), panic) BY <1>1, <1>2, Load
<1>5. QED BY <1>1, <1>3, <1>4, Then

\* When the parser may call tag methods, this one fails: an error of the method ends the parser.
LEMMA GCTMKeeps == ASSUME LoadCollects = FALSE, IInv, luaC_callGCTM PROVE IInv'
<1> DEFINE a == FALSE
           kind == "gc"
           saved == [cis |-> 0, allowhook |-> T[th].allowhook]
<1>1. /\ At(T, C, Len(C), th) /\ Low(T) /\ State = St(T, C, panic) /\ Top = C[Len(C)] /\ panic = FALSE
  BY Now
<1>2. C[Len(C)].kind \in {"execute", "cfunc", "pcall", "handler"} BY <1>1 DEF luaC_callGCTM, InLua, Is
<1>3. Moves(SetHook(PushC(State, kind, th, saved), th, a)) BY DEF luaC_callGCTM, Becomes, SetHook
<1>4. a = FALSE /\ kind \in {"gc", "hook"} OBVIOUS
<1>5. Keeping(T[th], kind, saved)
  <2>1. T[th] \in ThreadSet BY <1>1, AtTop DEF At
  <2>2. T[th].allowhook \in BOOLEAN BY <2>1 DEF ThreadSet
  <2>3. saved \in Saved
    <3> DEFINE h == T[th].allowhook
    <3> HIDE DEF h
    <3>1. h \in BOOLEAN => [cis |-> 0, allowhook |-> h] \in [cis : Nat, allowhook : BOOLEAN] OBVIOUS
    <3>2. QED BY <2>2, <3>1 DEF Saved, h
  <2>4. saved.allowhook = T[th].allowhook OBVIOUS
  <2>5. kind \notin Protected /\ kind # "hook" BY DEF Protected
  <2> HIDE DEF saved, kind
  <2>6. QED BY <2>3, <2>4, <2>5 DEF Keeping
<1> HIDE DEF a, kind, saved
<1>6. Comes(SetHook(PushC(St(T, C, panic), kind, th, saved), th, a), panic)
  <2>1. C[Len(C)].kind \notin {"host", "parser", "error", "resume"} BY <1>2
  <2>2. QED BY <1>1, <1>4, <1>5, <2>1, Hooked
<1>7. QED BY <1>1, <1>3, <1>6, Then

\* A hook is called.
LEMMA CallhookKeeps == ASSUME IInv, luaD_callhook PROVE IInv'
<1> DEFINE a == FALSE
           kind == "hook"
           saved == Nothing
<1>1. /\ At(T, C, Len(C), th) /\ Low(T) /\ State = St(T, C, panic) /\ Top = C[Len(C)] /\ panic = FALSE
  BY Now
<1>2. C[Len(C)].kind \in {"execute", "cfunc"} /\ T[th].allowhook BY <1>1 DEF luaD_callhook, InLua, Is
<1>3. Moves(SetHook(PushC(State, kind, th, saved), th, a)) BY DEF luaD_callhook, Becomes, SetHook
<1>4. a = FALSE /\ kind \in {"gc", "hook"} OBVIOUS
<1>5. Keeping(T[th], kind, saved)
  <2>1. T[th] \in ThreadSet BY <1>1, AtTop DEF At
  <2>2. T[th].allowhook = TRUE BY <1>2, <2>1 DEF ThreadSet
  <2>3. saved \in Saved BY DEF Saved
  <2>4. kind \notin Protected /\ kind # "gc" BY DEF Protected
  <2> HIDE DEF saved, kind
  <2>5. QED BY <2>2, <2>3, <2>4 DEF Keeping
<1> HIDE DEF a, kind, saved
<1>6. Comes(SetHook(PushC(St(T, C, panic), kind, th, saved), th, a), panic)
  <2>1. C[Len(C)].kind \notin {"host", "parser", "error", "resume"} BY <1>2
  <2>2. QED BY <1>1, <1>4, <1>5, <2>1, Hooked
<1>7. QED BY <1>1, <1>3, <1>6, Then

\* A hook or the loop over gc tag methods ends.
LEMMA HookEndsKeeps == ASSUME IInv, HookEnds \/ GcEnds PROVE IInv'
<1>1. /\ At(T, C, Len(C), th) /\ Low(T) /\ State = St(T, C, panic) /\ Top = C[Len(C)] /\ panic = FALSE
  BY Now
<1>2. CASE HookEnds
  <2> DEFINE a == TRUE
  <2>1. C[Len(C)].kind = "hook" BY <1>1, <1>2 DEF HookEnds, Is
  <2>2. Moves(SetHook(PopC(State), th, a)) BY <1>2 DEF HookEnds, Becomes, SetHook
  <2>3. a = TRUE /\ a \in BOOLEAN OBVIOUS
  <2> HIDE DEF a
  <2>4. Comes(SetHook(PopC(St(T, C, panic)), th, a), panic)
    <3>1. C[Len(C)].kind \in {"gc", "hook"} /\ C[Len(C)].kind # "gc" BY <2>1
    <3>2. QED BY <1>1, <2>3, <3>1, Unhooked
  <2>5. QED BY <1>1, <2>2, <2>4, Then
<1>3. CASE GcEnds
  <2> DEFINE a == C[Len(C)].saved.allowhook
  <2>1. C[Len(C)].kind = "gc" BY <1>1, <1>3 DEF GcEnds, Is
  <2>2. Moves(SetHook(PopC(State), th, a)) BY <1>1, <1>3 DEF GcEnds, Becomes, SetHook
  <2>3. a \in BOOLEAN
    <3>1. EntryOK(T, C, Len(C)) BY <1>1, AtTop DEF At
    <3>2. a = Quiet(C, C[Len(C)].th, Len(C) - 1) BY <2>1, <3>1 DEF EntryOK, SavedOK
    <3>3. QED BY <3>2 DEF Quiet
  <2>4. a = C[Len(C)].saved.allowhook OBVIOUS
  <2> HIDE DEF a
  <2>5. Comes(SetHook(PopC(St(T, C, panic)), th, a), panic)
    <3>1. C[Len(C)].kind \in {"gc", "hook"} /\ C[Len(C)].kind # "hook" BY <2>1
    <3>2. QED BY <1>1, <2>3, <2>4, <3>1, Unhooked
  <2>6. QED BY <1>1, <2>2, <2>5, Then
<1>4. QED BY <1>2, <1>3

\* A coroutine starts or goes on.
LEMMA ResumeKeeps == ASSUME IInv, lua_resume PROVE IInv'
<1>1. /\ At(T, C, Len(C), th) /\ Low(T) /\ State = St(T, C, panic) /\ Top = C[Len(C)] /\ panic = FALSE
  BY Now
<1>2. C[Len(C)].kind = "cfunc" BY <1>1 DEF lua_resume, Is
<1> DEFINE s(co) == rawrunprotected(State, "resume", co)
           c == FALSE
<1>3. PICK co \in Coroutines :
        /\ Resumable(co)
        /\ Moves(IF Len(T[co].cis) = 1 THEN luaD_precall(s(co), co, c)
                 ELSE PushC(DoCut(s(co), co), "execute", co, Nothing))
  BY DEF lua_resume, Becomes, DoCut
<1>4. c \in BOOLEAN /\ c = FALSE OBVIOUS
<1> HIDE DEF c
<1>5. Absent(C, co)
  <2>1. Len(T[co].cis) = 1 \/ T[co].cis[Len(T[co].cis)].yield BY <1>3 DEF Resumable
  <2>2. QED BY <1>1, <1>2, <2>1, Sleeping
<1>6. CASE Len(T[co].cis) = 1
  <2>1. Moves(luaD_precall(rawrunprotected(State, "resume", co), co, c)) BY <1>3, <1>6
  <2>2. Comes(luaD_precall(rawrunprotected(St(T, C, panic), "resume", co), co, c), panic)
    BY <1>1, <1>2, <1>4, <1>5, <1>6, Started1
  <2>3. QED BY <1>1, <2>1, <2>2, Then
<1>7. CASE Len(T[co].cis) # 1
  <2>1. Moves(PushC(DoCut(rawrunprotected(State, "resume", co), co), "execute", co, Nothing)) BY <1>3, <1>7
  <2>2. Comes(PushC(DoCut(rawrunprotected(St(T, C, panic), "resume", co), co), "execute", co, Nothing), panic)
    BY <1>1, <1>2, <1>5, <1>7, GoesOn
  <2>3. QED BY <1>1, <2>1, <2>2, Then
<1>8. QED BY <1>6, <1>7

\* A coroutine yields, or fails because it may not.
LEMMA YieldKeeps == ASSUME IInv, lua_yield PROVE IInv'
<1>1. /\ At(T, C, Len(C), th) /\ Low(T) /\ State = St(T, C, panic) /\ Top = C[Len(C)] /\ panic = FALSE
  BY Now
<1>2. C[Len(C)].kind = "cfunc" BY <1>1 DEF lua_yield, Is
<1> DEFINE k == Len(T[th].cis)
           fails == T[th].nCcalls > 0 \/ T[th].cis[k - 1].c
<1>3. Moves(IF fails THEN luaG_runerror(State, th) ELSE Unprotected(PopC(PopC(DoYield(State, th, k)))))
  BY DEF lua_yield, Becomes, DoYield
<1>4. CASE fails
  <2>1. Moves(luaG_runerror(State, th)) BY <1>3, <1>4
  <2>2. C[Len(C)].kind \in Codes \cup {"call"} BY <1>2 DEF Codes
  <2>3. Comes(luaG_runerror(St(T, C, panic), th), panic) BY <1>1, <2>2, ErrorOver DEF Over
  <2>4. QED BY <1>1, <2>1, <2>3, Then
<1>5. CASE ~fails
  <2>1. Moves(Unprotected(PopC(PopC(DoYield(State, th, k))))) BY <1>3, <1>5
  <2>2. T[th].nCcalls = 0
    <3>1. T[th] \in ThreadSet BY <1>1, AtTop DEF At
    <3>2. T[th].nCcalls \in Nat BY <3>1 DEF ThreadSet
    <3>3. QED BY <1>5, <3>2
  <2>3. Comes(Unprotected(PopC(PopC(DoYield(St(T, C, panic), th, k)))), panic) BY <1>1, <1>2, <2>2, Yields
  <2>4. QED BY <1>1, <2>1, <2>3, Then
<1>6. QED BY <1>4, <1>5

\* The stack is reallocated.
LEMMA ReallocKeeps == ASSUME IInv, luaD_reallocstack PROVE IInv'
<1>1. /\ At(T, C, Len(C), th) /\ Low(T) /\ State = St(T, C, panic) /\ Top = C[Len(C)] /\ panic = FALSE
      /\ Top.kind # "resume"
  BY Now
<1>2. Moves(SetRoom(State, th)) BY DEF luaD_reallocstack, Becomes, SetRoom
<1>3. Comes(SetRoom(St(T, C, panic), th), panic) BY <1>1, Realloc
<1>4. QED BY <1>1, <1>2, <1>3, Then

-----------------------------------------------------------------------------
(* The invariant.                                                              *)

\* A thread that has done nothing.
Unused(q) == /\ q \in ThreadSet /\ Sized(q) /\ Len(q.cis) = 1 /\ q.cis[1].c /\ ~q.cis[1].calling
             /\ q.nCcalls = 0 /\ q.allowhook = TRUE /\ q.errfunc = "none" /\ q.errorJmp = 0
\* lua_newthread and lua_open make a thread that has done nothing.
LEMMA NewIs == ASSUME NEW fn, fn \in BOOLEAN PROVE Unused(NewThread(fn))
<1> DEFINE one == TRUE
           fr  == Frame(one)
           cis == <<fr>>
<1>0. one \in BOOLEAN /\ one = TRUE OBVIOUS
<1>3. NewThread(fn) = [cis |-> cis, nCcalls |-> 0, allowhook |-> one, errfunc |-> "none", errorJmp |-> 0,
                       size_ci |-> BASIC_CI_SIZE, function |-> fn, extra |-> one] BY DEF NewThread
<1> HIDE DEF one
<1>1. fr \in Frames /\ fr.c /\ ~fr.calling
  <2>1. fr \in Frames BY <1>0, FrameIn
  <2>2. fr.c = one /\ fr.calling = FALSE BY DEF Frame
  <2>3. QED BY <1>0, <2>1, <2>2
<1> HIDE DEF fr
<1>2. cis \in Seq(Frames) /\ Len(cis) = 1 /\ cis[1] = fr BY <1>1
<1> HIDE DEF cis
<1>5. BASIC_CI_SIZE \in Nat /\ 2 <= BASIC_CI_SIZE /\ BASIC_CI_SIZE <= 2 * LUA_MAXCALLS BY CallConstants
<1>6. "none" \in ErrFuncs BY DEF ErrFuncs
<1>7. NewThread(fn) \in ThreadSet BY <1>0, <1>2, <1>3, <1>5, <1>6 DEF ThreadSet
<1>8. Sized(NewThread(fn))
  <2>1. NewThread(fn).cis = cis /\ NewThread(fn).size_ci = BASIC_CI_SIZE BY <1>3
  <2>2. Len(cis) <= BASIC_CI_SIZE BY <1>2, <1>5
  <2>3. QED BY <1>5, <2>1, <2>2 DEF Sized
<1>9. QED BY <1>0, <1>1, <1>2, <1>3, <1>7, <1>8 DEF Unused

\* The host with nothing running satisfies the invariant.
LEMMA Begun == ASSUME Init PROVE IInv
<1>1. /\ T = [t \in Threads |-> NewThread(t # Main)] /\ panic = FALSE
      /\ C = <<Entry("host", Main, 1, Nothing)>>
  BY DEF Init
<1>2. \A t \in Threads : Unused(T[t])
  <2> SUFFICES ASSUME NEW t \in Threads PROVE Unused(T[t]) OBVIOUS
  <2> DEFINE fn == t # Main
  <2>1. fn \in BOOLEAN /\ T[t] = NewThread(fn) BY <1>1
  <2> HIDE DEF fn
  <2>2. QED BY <2>1, NewIs
<1>3. /\ Len(C) = 1 /\ C \in Seq(EntrySet) /\ Main \in Threads
      /\ C[1].kind = "host" /\ C[1].th = Main /\ C[1].at = 1
  BY <1>1 DEF Entry, EntrySet, Kinds, Saved, Threads
<1> DEFINE D == C
<1>4. Base(D, 1) = 1 BY <1>3 DEF Base
<1>5. T \in [Threads -> ThreadSet]
  <2>1. \A t \in Threads : T[t] \in ThreadSet BY <1>2 DEF Unused
  <2>2. QED BY <1>1, <2>1
<1>6. EntryOK(T, C, 1)
  <2>1. FramesOK(T[Main].cis, C, 1) BY <1>2, <1>3, <1>4 DEF FramesOK, Unused
  <2>2. SavedOK(C, 1) BY <1>3 DEF SavedOK, Protected
  <2>3. QED BY <1>3, <2>1, <2>2 DEF EntryOK
<1>7. ASSUME NEW t \in Threads PROVE ThreadOK(T[t], C, t)
  <2>0. Unused(T[t]) BY <1>2
  <2>1. Counted(C, t, 1, 0, TRUE, "none", 0)
    <3>1. \A i \in 1..1 : i = 1 OBVIOUS
    <3>2. Calls(C, t, 1) = 0 BY <1>3, <3>1, CallsNone
    <3>3. Quiet(C, t, 1) = TRUE BY <1>3, <3>1 DEF Quiet
    <3>4. Catches(C, t, 1, 0) BY <1>3, <3>1 DEF Catches, Protected
    <3>5. QED BY <3>2, <3>3, <3>4 DEF Counted
  <2>2. Counted(C, t, Len(C), T[t].nCcalls, T[t].allowhook, T[t].errfunc, T[t].errorJmp)
    BY <1>3, <2>0, <2>1 DEF Unused
  <2>3. Asleep(T[t].cis) BY <2>0 DEF Asleep, Unused
  <2>4. \A i \in 1..Len(C) : Reached(T[t].cis, C, i, Len(T[t].cis))
    <3>1. Reached(T[t].cis, C, 1, 1) BY <1>3, <1>4 DEF Reached
    <3>2. QED BY <1>3, <2>0, <3>1 DEF Unused
  <2>5. QED BY <2>0, <2>2, <2>3, <2>4 DEF ThreadOK, Unused, Sized
<1>8. \A i \in 1..Len(C) : i = 1 BY <1>3
<1>9. Good(T, C) BY <1>3, <1>5, <1>6, <1>7, <1>8 DEF Good
<1>10. Top.kind # "resume" BY <1>3 DEF Top, State, Innermost
<1>11. \A t \in Threads : T[t].nCcalls <= MaxC BY <1>2, CallConstants DEF Unused, MaxC
<1>12. QED BY <1>1, <1>9, <1>10, <1>11 DEF IInv

\* Every action keeps the invariant, unless tag methods may fail in the parser.
LEMMA NextKeeps == ASSUME LoadCollects = FALSE, IInv, [Next]_vars PROVE IInv'
<1>1. CASE UNCHANGED vars BY <1>1 DEF vars, IInv, Top, State, Innermost
<1>2. CASE Next
  BY <1>2, CpcallKeeps, OP_CALLKeeps, OP_TAILCALLKeeps, OP_RETURNKeeps, ReturnCKeeps, CallKeeps, ErrorKeeps,
     ThrowKeeps, ErrormsgKeeps, PcallKeeps, EndsKeeps, LoadKeeps, GCTMKeeps, CallhookKeeps, HookEndsKeeps,
     ResumeKeeps, YieldKeeps, ReallocKeeps DEF Next
<1>3. QED BY <1>1, <1>2

\* The invariant holds after any number of calls, errors, resumes and yields, with any
\* coroutines and limits, unless tag methods may fail in the parser.
THEOREM CallsInvariant == ASSUME LoadCollects = FALSE PROVE Spec => []IInv
<1>1. Init => IInv BY Begun
<1>2. IInv /\ [Next]_vars => IInv' BY NextKeeps
<1>3. QED BY <1>1, <1>2, PTL DEF Spec

-----------------------------------------------------------------------------
(* The properties.                                                             *)

\* Where the luaV_execute in progress was called from.
LEMMA CalledFromIs ==
    ASSUME NEW cis, cis \in Seq(Frames), NEW b \in Nat, b >= 1, ~cis[b].calling, Region(cis, b, Len(cis))
    PROVE  CalledFrom(cis) = b + 1 /\ ~cis[Len(cis)].c /\ ~cis[Len(cis)].calling
<1> DEFINE L == Len(cis)
           From(m) == /\ \A i \in m..(L - 1) : cis[i].calling
                      /\ m > 1 => ~cis[m - 1].calling
<1>1. L \in Nat /\ DOMAIN cis = 1..L /\ b < L BY DEF Region
<1>2. \A k \in (b + 1)..L : ~cis[k].c /\ (cis[k].calling <=> k < L) BY DEF Region
<1>3. L \in (b + 1)..L /\ ~(L < L) BY <1>1
<1>4. ~cis[L].c /\ ~cis[L].calling BY <1>2, <1>3
<1>5. b + 1 \in 1..L /\ From(b + 1)
  <2>1. (b + 1) - 1 = b OBVIOUS
  <2>2. \A i \in (b + 1)..(L - 1) : cis[i].calling BY <1>1, <1>2
  <2>3. QED BY <1>1, <2>1, <2>2
<1>6. ASSUME NEW m \in 1..L, From(m) PROVE m = b + 1
  <2>1. ~(m <= b)
    <3>1. m <= b => b \in m..(L - 1) BY <1>1
    <3>2. QED BY <1>6, <3>1
  <2>2. ~(m > b + 1)
    <3> SUFFICES ASSUME m > b + 1 PROVE FALSE OBVIOUS
    <3>1. m - 1 \in (b + 1)..L /\ m - 1 < L /\ m > 1 BY <1>1
    <3>2. cis[m - 1].calling BY <1>2, <3>1
    <3>3. QED BY <1>6, <3>1, <3>2
  <2>3. QED BY <1>1, <2>1, <2>2
<1>7. CalledFrom(cis) = CHOOSE m \in 1..L : From(m) BY <1>1 DEF CalledFrom
<1>8. (CHOOSE m \in 1..L : From(m)) = b + 1
  <2> HIDE DEF From
  <2>1. QED BY <1>5, <1>6
<1>9. QED BY <1>4, <1>7, <1>8

\* What runs is at the CallInfo that it rests on: that is what the entry on top has reached.
LEMMA FrameOurs == IInv => FrameIsOurs
<1> SUFFICES ASSUME IInv PROVE FrameIsOurs OBVIOUS
<1> DEFINE n == Len(C)
           cis == T[th].cis
           b == Base(C, n)
<1>1. At(T, C, n, th) /\ Top = C[n] /\ Top.kind # "resume" BY Now
<1>2. /\ n \in Nat /\ EntryOK(T, C, n) /\ b \in Nat /\ 1 <= b /\ ~cis[b].calling /\ T[th] \in ThreadSet
      /\ Reached(cis, C, n, Len(cis)) /\ C[n].th = th
  BY <1>1, AtTop DEF At
<1>3. CASE Top.kind = "execute"
  <2>1. cis \in Seq(Frames) BY <1>2 DEF ThreadSet
  <2>2. Region(cis, b, Len(cis)) BY <1>1, <1>2, <1>3 DEF Reached
  <2> DEFINE from == C[n - 1]
  <2>3. b = IF from.kind = "resume" THEN 1 ELSE from.at BY <1>1, <1>3 DEF Base
  <2> HIDE DEF b, cis
  <2>4. CalledFrom(cis) = b + 1 /\ ~cis[Len(cis)].c /\ ~cis[Len(cis)].calling BY <1>2, <2>1, <2>2, CalledFromIs
  <2>5. CalledFrom(cis) - 1 = b BY <1>2, <2>4
  <2>6. QED BY <1>3, <2>3, <2>4, <2>5 DEF FrameIsOurs, cis
<1>4. CASE Top.kind # "execute"
  <2>1. Len(cis) = C[n].at BY <1>1, <1>2, <1>4 DEF Reached, Base
  <2>2. C[n].kind = "cfunc" => cis[C[n].at].c BY <1>2 DEF EntryOK, FramesOK
  <2>3. QED BY <1>1, <1>4, <2>1, <2>2 DEF FrameIsOurs
<1>5. QED BY <1>3, <1>4

\* What is counted on the stack, as the properties count it.
LEMMA CountIsCalls ==
    ASSUME IInv, NEW t \in Threads
    PROVE  /\ CountOf({"call"}, t) = Calls(C, t, Len(C))
           /\ (CountOf({"hook", "gc"}, t) = 0) = Quiet(C, t, Len(C))
<1> DEFINE n == Len(C)
<1>1. n \in Nat /\ DOMAIN C = 1..n BY DEF IInv, Good
<1>2. CountOf({"call"}, t) = Calls(C, t, n)
  <2>1. {i \in DOMAIN C : C[i].kind \in {"call"} /\ C[i].th = t} = {i \in 1..n : C[i].kind = "call" /\ C[i].th = t}
    BY <1>1
  <2>2. QED BY <2>1 DEF CountOf, Calls
<1> DEFINE S == {i \in DOMAIN C : C[i].kind \in {"hook", "gc"} /\ C[i].th = t}
<1>3. IsFiniteSet(S) BY <1>1, FS_Interval, FS_Subset, n \in Int, 1 \in Int, S \subseteq 1..n
<1>4. (Cardinality(S) = 0) <=> (S = {}) BY <1>3, FS_EmptySet
<1>5. (S = {}) <=> Quiet(C, t, n) BY <1>1 DEF Quiet
<1>6. CountOf({"hook", "gc"}, t) = Cardinality(S) BY DEF CountOf
<1> HIDE DEF S
<1>7. ((CountOf({"hook", "gc"}, t) = 0) <=> Quiet(C, t, n)) BY <1>4, <1>5, <1>6
<1>8. (CountOf({"hook", "gc"}, t) = 0) \in BOOLEAN /\ Quiet(C, t, n) \in BOOLEAN BY DEF Quiet
<1>9. QED BY <1>2, <1>7, <1>8

\* What the thread keeps counts all of the C stack.
LEMMA Kept == IInv => CountersKept
<1> SUFFICES ASSUME IInv PROVE CountersKept OBVIOUS
<1>1. \A t \in Threads : ThreadOK(T[t], C, t) /\ T[t] \in ThreadSet /\ T[t].nCcalls <= MaxC BY DEF IInv, Good
<1>2. \A t \in Threads : /\ T[t].nCcalls = Calls(C, t, Len(C)) /\ T[t].allowhook = Quiet(C, t, Len(C))
                         /\ Len(T[t].cis) <= T[t].size_ci /\ T[t].size_ci <= 2 * LUA_MAXCALLS
  BY <1>1 DEF ThreadOK, Counted
<1>3. CallsCounted BY <1>2, CountIsCalls DEF CallsCounted
<1>4. HooksOff BY <1>2, CountIsCalls DEF HooksOff
<1>5. WithinLimits
  <2>1. \A t \in Threads : T[t].nCcalls \in Nat /\ T[t].size_ci \in Nat /\ Len(T[t].cis) \in Nat BY <1>1 DEF ThreadSet
  <2>2. LUA_MAXCALLS \in Nat /\ LUA_MAXCCALLS \in Nat /\ EXTRACCALLS \in Nat BY CallConstants
  <2>3. QED BY <1>1, <1>2, <2>1, <2>2 DEF WithinLimits, MaxC
<1>6. QED BY <1>3, <1>4, <1>5 DEF CountersKept

\* The innermost protected entry of a thread is the one it jumps to.
LEMMA InnermostIs ==
    ASSUME NEW t, NEW p, Len(C) \in Nat, DOMAIN C = 1..Len(C), Catches(C, t, Len(C), p)
    PROVE  InnermostOf(Protected, t) = p
<1> DEFINE n == Len(C)
           S == {i \in DOMAIN C : C[i].kind \in Protected /\ C[i].th = t}
<1>1. p \in 0..n /\ S \subseteq 1..n BY DEF Catches
<1>2. \A i \in S : i <= p BY <1>1 DEF Catches
<1>3. p > 0 => p \in S BY <1>1 DEF Catches
<1>4. InnermostOf(Protected, t) = IF S = {} THEN 0 ELSE CHOOSE i \in S : \A j \in S : j <= i BY DEF InnermostOf
<1> HIDE DEF S
<1>5. CASE S = {} BY <1>1, <1>3, <1>4, <1>5
<1>6. CASE S # {}
  <2>0. PICK e \in S : TRUE BY <1>6
  <2>1. p \in S /\ \A j \in S : j <= p
    <3>1. e \in 1..n /\ e <= p BY <1>1, <1>2, <2>0
    <3>2. p > 0 BY <1>1, <3>1
    <3>3. QED BY <1>2, <1>3, <3>2
  <2>2. \A i \in S : (\A j \in S : j <= i) => i = p BY <1>1, <2>1
  <2>3. (CHOOSE i \in S : \A j \in S : j <= i) = p BY <2>1, <2>2
  <2>4. QED BY <1>4, <1>6, <2>3
<1>7. QED BY <1>5, <1>6

\* The place to jump to is the innermost protected entry, and there is one.
LEMMA Jumps == IInv => JumpsToProtected
<1> SUFFICES ASSUME IInv PROVE JumpsToProtected OBVIOUS
<1> DEFINE n == Len(C)
<1>1. At(T, C, n, th) /\ Top = C[n] /\ panic = FALSE BY Now
<1>2. n \in Nat /\ DOMAIN C = 1..n /\ Good(T, C) /\ C[n].th = th /\ EntryOK(T, C, n) BY <1>1, AtTop DEF At, Good
<1>3. \A t \in Threads : T[t].errorJmp = InnermostOf(Protected, t)
  <2>1. \A t \in Threads : Catches(C, t, n, T[t].errorJmp) BY <1>2 DEF Good, ThreadOK, Counted
  <2>2. QED BY <1>2, <2>1, InnermostIs
<1>4. ASSUME Top.kind # "host" PROVE \A i \in T[th].errorJmp..n : C[i].th = th
  <2>1. n # 1 BY <1>1, <1>2, <1>4 DEF EntryOK
  <2>2. n >= 2 BY <1>2, <2>1 DEF Good
  <2>3. QED BY <1>2, <2>2, HasHandler
<1>5. QED BY <1>1, <1>3, <1>4 DEF JumpsToProtected

\* A coroutine with no lua_resume has no entry, and with one has just that one.
LEMMA Ready == IInv => ReadyToResume
<1> SUFFICES ASSUME IInv, NEW t \in Coroutines, CountOf({"resume"}, t) # 1
             PROVE  /\ CountOf({"resume"}, t) = 0
                    /\ T[t].nCcalls = 0 /\ T[t].errfunc = "none" /\ T[t].allowhook
                    /\ Len(T[t].cis) > 1 => T[t].cis[Len(T[t].cis)].yield
  BY DEF ReadyToResume
<1> DEFINE n == Len(C)
           S == {i \in DOMAIN C : C[i].kind \in {"resume"} /\ C[i].th = t}
<1>1. Good(T, C) /\ n \in Nat /\ DOMAIN C = 1..n /\ t \in Threads /\ t # Main BY CallConstants DEF IInv, Good, Threads, Main
<1>2. CountOf({"resume"}, t) = Cardinality(S) BY DEF CountOf
<1>3. \A i \in 1..n : EntryOK(T, C, i) BY <1>1 DEF Good
<1>4. Absent(C, t)
  <2> SUFFICES ASSUME NEW k \in 1..n, C[k].th = t PROVE FALSE BY DEF Absent
  <2>1. Stands(C, k) BY <1>1, <1>3 DEF EntryOK
  <2>2. PICK j \in 1..k : C[j].kind = "resume" /\ C[j].th = t BY <2>1 DEF Stands
  <2>3. j \in S BY <1>1, <2>2
  <2>4. ASSUME NEW i \in S PROVE i = j
    <3>1. Stands(C, i) /\ Stands(C, j) BY <1>1, <1>3, <2>2, <2>3, <2>4 DEF EntryOK
    <3>2. ~(j \in 1..(i - 1)) /\ ~(i \in 1..(j - 1)) BY <2>2, <2>4, <3>1 DEF Stands
    <3>3. QED BY <1>1, <2>2, <2>4, <3>2
  <2>5. S = {j} BY <2>3, <2>4
  <2> HIDE DEF S
  <2>6. Cardinality(S) = 1 BY <2>5, FS_Singleton
  <2>7. QED BY <1>2, <2>6
<1>5. S = {} BY <1>1, <1>4 DEF Absent
<1>6. Cardinality(S) = 0 BY <1>5, FS_EmptySet
<1>7. ThreadOK(T[t], C, t) BY <1>1 DEF Good
<1>8. Counted(C, t, n, T[t].nCcalls, T[t].allowhook, T[t].errfunc, T[t].errorJmp) /\ Asleep(T[t].cis)
  BY <1>4, <1>7 DEF ThreadOK
<1>9. T[t].nCcalls = 0 /\ T[t].allowhook
  <2>1. Calls(C, t, n) = 0 /\ Quiet(C, t, n) = TRUE BY <1>1, <1>4, CountedNone DEF Absent
  <2>2. QED BY <1>8, <2>1 DEF Counted
<1>10. T[t].errfunc = "none"
  <2>1. \A i \in 1..n : C[i].th = t => C[i].kind # "pcall" BY <1>4 DEF Absent
  <2>2. QED BY <1>8, <2>1 DEF Counted
<1>11. Len(T[t].cis) > 1 => T[t].cis[Len(T[t].cis)].yield BY <1>8 DEF Asleep
<1>12. QED BY <1>2, <1>6, <1>9, <1>10, <1>11

\* Of any coroutines and limits: the code that runs finds the CallInfo of its own call
\* (luaV_execute's assertions on base and L->ci), whatever was cut off before.
THEOREM FrameIsOursHolds == ASSUME LoadCollects = FALSE PROVE Spec => []FrameIsOurs
BY CallsInvariant, FrameOurs, PTL

\* Of any coroutines and limits: nCcalls and allowhook are what is on the C stack, and the C
\* calls and CallInfo stay within the limits with what is left for handling an overflow.
THEOREM CountersKeptHolds == ASSUME LoadCollects = FALSE PROVE Spec => []CountersKept
BY CallsInvariant, Kept, PTL

\* Of any coroutines and limits: an error goes to the innermost protected call of the thread that
\* runs, which is on the C stack with nothing of another thread above it; it never panics.
THEOREM JumpsToProtectedHolds == ASSUME LoadCollects = FALSE PROVE Spec => []JumpsToProtected
BY CallsInvariant, Jumps, PTL

\* Of any coroutines and limits: a coroutine is resumed once at a time, and one that is not
\* running has nothing in progress, as lua_resume asserts.
THEOREM ReadyToResumeHolds == ASSUME LoadCollects = FALSE PROVE Spec => []ReadyToResume
BY CallsInvariant, Ready, PTL
=============================================================================
