------------------------- MODULE LuaCallsInvariant --------------------------
(***************************************************************************)
(* The inductive invariant from which LuaCallsProofs derives the safety    *)
(* properties of LuaCalls, stated of any threads T and C stack D so that   *)
(* it can be asked of the states inside a step as well.                    *)
(*                                                                         *)
(* Its idea is that each entry of the C stack rests on a number of         *)
(* CallInfo of its thread (Base), which it leaves as they are, and started *)
(* from as many as the entry below it had reached (In).  So an error that  *)
(* cuts the C stack and the CallInfo together leaves what the entries that *)
(* remain expect.  It does not hold when the parser may call tag methods:  *)
(* an error in one then keeps the CallInfo of what it cuts off.            *)
(***************************************************************************)
EXTENDS LuaCalls

Kinds     == {"host", "call", "execute", "cfunc", "hook", "gc", "error", "handler"} \cup Protected
ErrFuncs  == {"none", "function", "notfunction"}
Frames    == [c : BOOLEAN, yield : BOOLEAN, calling : BOOLEAN]
ThreadSet == [cis : Seq(Frames), nCcalls : Nat, allowhook : BOOLEAN, errfunc : ErrFuncs,
              errorJmp : Nat, size_ci : Nat, function : BOOLEAN, extra : BOOLEAN]
Saved     == {Nothing} \cup [cis : Nat, allowhook : BOOLEAN]
             \cup [cis : Nat, nCcalls : Nat, allowhook : BOOLEAN, errfunc : ErrFuncs, previous : Nat]
EntrySet  == [kind : Kinds, th : Threads, at : Nat, saved : Saved]
MaxC      == LUA_MAXCCALLS + EXTRACCALLS - 1

-----------------------------------------------------------------------------
(* The CallInfo an entry rests on.                                             *)

Base(D, i) == IF D[i].kind = "resume" THEN 1
              ELSE IF D[i].kind = "execute" THEN (IF D[i - 1].kind = "resume" THEN 1 ELSE D[i - 1].at)
              ELSE D[i].at
In(D, i)   == IF D[i].kind = "cfunc" THEN D[i].at - 1 ELSE Base(D, i)

\* One luaV_execute runs the Lua functions above lo, each called by the one below it.
Region(cis, lo, hi) ==
    /\ lo < hi
    /\ \A k \in (lo + 1)..hi : ~cis[k].c /\ ~cis[k].yield /\ (cis[k].calling <=> k < hi)

\* The entry below has reached what entry i starts from.
Reached(cis, D, i, n) == IF D[i].kind = "execute" THEN Region(cis, Base(D, i), n) ELSE n = Base(D, i)
FramesOK(cis, D, i) ==
    /\ 1 <= Base(D, i) /\ Base(D, i) <= Len(cis) /\ ~cis[Base(D, i)].calling
    /\ D[i].kind = "cfunc" => D[i].at > 1 /\ cis[D[i].at].c /\ ~cis[D[i].at].yield
    /\ i > 1 /\ D[i].kind # "resume" => Reached(cis, D, i - 1, In(D, i))

-----------------------------------------------------------------------------
(* What may stand on what.                                                     *)

On(D, i, kind, below) == D[i].kind = kind => D[i - 1].kind \in below
Stands(D, i) ==
    /\ i > 1
    /\ i = 2 => D[i].kind = "pcall"
    /\ D[i].kind # "host" /\ D[i - 1].kind \notin {"parser", "error"}
    /\ D[i - 1].kind = "resume" => D[i].kind = "execute"
    /\ On(D, i, "execute", {"call", "resume"}) /\ On(D, i, "cfunc", {"call", "execute"})
    /\ On(D, i, "parser", {"cfunc"}) /\ On(D, i, "resume", {"cfunc"})
    /\ D[i].kind # "resume" => D[i].th = D[i - 1].th
    /\ D[i].kind = "resume" => D[i].th \in Coroutines /\ \A j \in 1..(i - 1) : D[j].th # D[i].th
    /\ D[i].th \in Coroutines => \E j \in 1..i : D[j].kind = "resume" /\ D[j].th = D[i].th

-----------------------------------------------------------------------------
(* What is counted, for the first k entries.                                   *)

Calls(D, t, k)  == Cardinality({i \in 1..k : D[i].kind = "call" /\ D[i].th = t})
Quiet(D, t, k)  == \A i \in 1..k : D[i].th = t => D[i].kind \notin {"hook", "gc"}
Catches(D, t, k, p) ==
    /\ p \in 0..k
    /\ p > 0 => D[p].kind \in Protected /\ D[p].th = t
    /\ \A i \in (p + 1)..k : ~(D[i].kind \in Protected /\ D[i].th = t)
Counted(D, t, k, nCcalls, allowhook, errfunc, errorJmp) ==
    /\ nCcalls = Calls(D, t, k)
    /\ allowhook = Quiet(D, t, k)
    /\ (\A i \in 1..k : D[i].th = t => D[i].kind # "pcall") => errfunc = "none"
    /\ Catches(D, t, k, errorJmp)

\* What an entry keeps is what was true when it was made.
SavedOK(D, i) ==
    LET e == D[i]
    IN /\ e.kind \in Protected =>
            /\ Counted(D, e.th, i - 1, e.saved.nCcalls, e.saved.allowhook, e.saved.errfunc, e.saved.previous)
            /\ e.saved.nCcalls <= MaxC /\ e.saved.errfunc \in ErrFuncs
       /\ e.kind = "pcall" => e.saved.cis = e.at
       /\ e.kind = "gc"    => e.saved.allowhook = Quiet(D, e.th, i - 1)
       /\ e.kind = "hook"  => Quiet(D, e.th, i - 1)

-----------------------------------------------------------------------------
(* The invariant.                                                              *)

EntryOK(Ts, D, i) ==
    /\ IF i = 1 THEN D[i].kind = "host" /\ D[i].th = Main /\ D[i].at = 1 ELSE Stands(D, i)
    /\ FramesOK(Ts[D[i].th].cis, D, i)
    /\ SavedOK(D, i)

\* The entries of a thread are together, and rest on ever more of its CallInfo.
PairOK(D, i, j) == D[i].th = D[j].th => /\ \A k \in i..j : D[k].th = D[j].th
                                        /\ Base(D, i) <= In(D, j)

\* A coroutine that is not running is at its base, or in a C function called from Lua that yielded.
Asleep(cis) == \/ Len(cis) = 1
               \/ Len(cis) > 2 /\ cis[Len(cis)].c /\ cis[Len(cis)].yield /\ Region(cis, 1, Len(cis) - 1)
Absent(D, t)  == \A i \in 1..Len(D) : D[i].th # t
Last(D, t, i) == D[i].th = t /\ \A j \in (i + 1)..Len(D) : D[j].th # t

ThreadOK(r, D, t) ==
    /\ Len(r.cis) >= 1 /\ r.cis[1].c /\ ~r.cis[1].calling
    /\ 2 <= r.size_ci /\ r.size_ci <= 2 * LUA_MAXCALLS /\ Len(r.cis) <= r.size_ci
    /\ Counted(D, t, Len(D), r.nCcalls, r.allowhook, r.errfunc, r.errorJmp)
    /\ Absent(D, t) => Asleep(r.cis)
    /\ \A i \in 1..Len(D) : Last(D, t, i) => Reached(r.cis, D, i, Len(r.cis))

Good(Ts, D) ==
    /\ Ts \in [Threads -> ThreadSet] /\ D \in Seq(EntrySet) /\ Len(D) > 0
    /\ \A i \in 1..Len(D) : EntryOK(Ts, D, i)
    /\ \A i, j \in 1..Len(D) : i < j => PairOK(D, i, j)
    /\ \A t \in Threads : ThreadOK(Ts[t], D, t)

\* Between steps no lua_resume is about to begin, and no overflow about to be thrown.
IInv == /\ Good(T, C)
        /\ Top.kind # "resume"
        /\ \A t \in Threads : T[t].nCcalls <= MaxC
        /\ panic = FALSE
=============================================================================
