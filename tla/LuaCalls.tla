------------------------------ MODULE LuaCalls ------------------------------
(***************************************************************************)
(* Calls, errors and coroutines of the bundled Lua interpreter             *)
(* (src/lua/ldo.c, with the calls of lapi.c and lbaselib.c).               *)
(*                                                                         *)
(* A thread keeps a stack of CallInfo, a count of its nested C calls, the  *)
(* error function and the place to jump to on an error.  The C stack, on   *)
(* which the interpreter itself runs, is shared by all threads.  It is     *)
(* modelled as it is: an entry for every luaV_execute, C function and      *)
(* hook, and for every luaD_call, luaD_pcall, lua_resume, protected        *)
(* parser, luaG_errormsg ("error", and "handler" while the error function  *)
(* runs) and loop over gc tag methods in progress.  What runs is the       *)
(* innermost entry; an error cuts the C stack at errorJmp.                 *)
(*                                                                         *)
(* Values are left out, but for the function that a coroutine has not      *)
(* started yet.  Functions of either kind do everything that they may.     *)
(***************************************************************************)
EXTENDS Integers, Sequences, FiniteSets

CONSTANTS
    Coroutines,     \* bound: the coroutines
    LUA_MAXCCALLS, EXTRACCALLS,    \* nested C calls, and those left to handle an overflow
    LUA_MAXCALLS, BASIC_CI_SIZE,   \* CallInfo at most, and at first
    LoadCollects,   \* whether the parser may start a collection that calls tag methods
    MaxSteps        \* bound: steps

ASSUME CallConstants ==
    /\ {LUA_MAXCCALLS, EXTRACCALLS, LUA_MAXCALLS, BASIC_CI_SIZE, MaxSteps} \subseteq Nat \ {0}
    /\ BASIC_CI_SIZE > 1 /\ BASIC_CI_SIZE <= LUA_MAXCALLS    \* 8 and 4096
    /\ LoadCollects \in BOOLEAN
    /\ "main" \notin Coroutines

Main    == "main"
Threads == {Main} \cup Coroutines

VARIABLES
    T,      \* the threads
    C,      \* the C stack, innermost entry last
    panic,  \* an error had no place to jump to
    steps

vars == <<T, C, panic, steps>>

(* T[t].cis the CallInfo, where the first is the base: c says whether it is of a C     *)
(* function, yield whether it has yielded, and calling whether it is of a Lua function *)
(* that has called another, which the same luaV_execute runs.  An entry of C has the   *)
(* kind of code it is, its thread, and at, the number of CallInfo of the thread when   *)
(* the code runs (of luaV_execute: when it was entered); a protected entry keeps in    *)
(* saved what it restores after an error.                                              *)

Frame(c) == [c |-> c, yield |-> FALSE, calling |-> FALSE]
NewThread(fn) == [cis |-> <<Frame(TRUE)>>, nCcalls |-> 0, allowhook |-> TRUE, errfunc |-> "none",
                  errorJmp |-> 0, size_ci |-> BASIC_CI_SIZE, function |-> fn, extra |-> TRUE]
Entry(kind, t, at, saved) == [kind |-> kind, th |-> t, at |-> at, saved |-> saved]
Nothing == [cis |-> 0]

Protected == {"pcall", "resume", "parser"}
Codes     == {"execute", "cfunc", "hook"}

Init == /\ T = [t \in Threads |-> NewThread(t # Main)]
        /\ C = <<Entry("host", Main, 1, Nothing)>>
        /\ panic = FALSE /\ steps = 0

-----------------------------------------------------------------------------
(* The steps, on a state [T, C, panic].                                        *)

Innermost(s) == s.C[Len(s.C)]
Depth(s, t)  == Len(s.T[t].cis)
PushC(s, kind, t, saved) == [s EXCEPT !.C = Append(@, Entry(kind, t, Depth(s, t), saved))]
PopC(s) == [s EXCEPT !.C = SubSeq(@, 1, Len(@) - 1)]

\* luaD_rawrunprotected: a protected entry, to which errors of the thread jump.
rawrunprotected(s, kind, t) ==
    LET th == s.T[t]
    IN [PushC(s, kind, t, [cis |-> Len(th.cis), nCcalls |-> th.nCcalls, allowhook |-> th.allowhook,
                           errfunc |-> th.errfunc, previous |-> th.errorJmp])
            EXCEPT !.T[t].errorJmp = Len(s.C) + 1]
\* Mutant: the previous handler is forgotten.
Unprotected_last(s) ==
    LET e == Innermost(s)
    IN [PopC(s) EXCEPT !.T[e.th].errorJmp = 0, !.T[e.th].errfunc = IF e.kind = "pcall" THEN e.saved.errfunc ELSE @]
\* It returns: the next handler is the previous one, and luaD_pcall has its own errfunc.
Unprotected(s) ==
    LET e == Innermost(s)
    IN [PopC(s) EXCEPT !.T[e.th].errorJmp = e.saved.previous,
                       !.T[e.th].errfunc = IF e.kind = "pcall" THEN e.saved.errfunc ELSE @]

\* restore_stack_limit forgets EXTRA_STACK and undoes an overflow of CallInfo.
restore_stack_limit(th) ==
    [th EXCEPT !.extra = FALSE,
               !.size_ci = IF @ > LUA_MAXCALLS /\ Len(th.cis) < LUA_MAXCALLS THEN LUA_MAXCALLS ELSE @]

\* Mutant: the number of C calls is not restored.
Restored_calls(th, e) ==
    CASE e.kind = "pcall"  -> restore_stack_limit([th EXCEPT !.cis = SubSeq(@, 1, e.saved.cis),
                                                             !.allowhook = e.saved.allowhook])
      [] e.kind = "resume" -> restore_stack_limit([th EXCEPT !.cis = SubSeq(@, 1, 1), !.allowhook = e.saved.allowhook,
                                                             !.function = FALSE])
      [] OTHER             -> th
\* Mutant: hooks are not restored.
Restored_hooks(th, e) ==
    CASE e.kind = "pcall"  -> restore_stack_limit([th EXCEPT !.cis = SubSeq(@, 1, e.saved.cis),
                                                             !.nCcalls = e.saved.nCcalls])
      [] e.kind = "resume" -> restore_stack_limit([th EXCEPT !.cis = SubSeq(@, 1, 1), !.nCcalls = 0, !.function = FALSE])
      [] OTHER             -> th

\* What luaD_pcall, lua_resume and luaD_protectedparser restore when there was an error.
Restored(th, e) ==
    CASE e.kind = "pcall"  -> restore_stack_limit([th EXCEPT !.cis = SubSeq(@, 1, e.saved.cis),
                                                             !.nCcalls = e.saved.nCcalls,
                                                             !.allowhook = e.saved.allowhook])
      [] e.kind = "resume" -> restore_stack_limit([th EXCEPT !.cis = SubSeq(@, 1, 1), !.nCcalls = 0,
                                                             !.allowhook = e.saved.allowhook, !.function = FALSE])
      [] OTHER             -> th

luaD_throw(s, t) ==
    LET j == s.T[t].errorJmp
        e == s.C[j]
    IN IF j = 0 THEN [s EXCEPT !.panic = TRUE]
       ELSE Unprotected([s EXCEPT !.C = SubSeq(@, 1, j), !.T[t] = Restored(@, e)])

\* luaG_runerror, and luaG_errormsg up to its decision; the step that follows decides.
luaG_runerror(s, t) == PushC(s, "error", t, Nothing)

\* A call: c says whether the function is a C function.
luaD_precall(s, t, c) ==
    LET r     == s.T[t]
        full  == Len(r.cis) = r.size_ci
        grown == [s EXCEPT !.T[t].size_ci = 2 * @]
        room  == IF full THEN grown ELSE s
        in    == [room EXCEPT !.T[t].cis = Append(@, Frame(c))]
    IN IF full /\ r.size_ci > LUA_MAXCALLS THEN luaD_throw(s, t)
       ELSE IF full /\ 2 * r.size_ci > LUA_MAXCALLS THEN luaG_runerror(grown, t)
       ELSE PushC(in, IF c THEN "cfunc" ELSE "execute", t, Nothing)

luaD_call(s, t, c) ==
    LET n  == s.T[t].nCcalls + 1
        s1 == PushC([s EXCEPT !.T[t].nCcalls = n], "call", t, Nothing)
    IN IF n = LUA_MAXCCALLS THEN luaG_runerror(s1, t)
       ELSE IF n >= LUA_MAXCCALLS + EXTRACCALLS THEN luaD_throw(s1, t)
       ELSE luaD_precall(s1, t, c)

\* The function of the innermost entry has returned (luaD_poscall); a luaD_call around
\* it is over, and so is a coroutine when its body returns.
Returned(s) ==
    LET e == Innermost(s)
        r == PopC([s EXCEPT !.T[e.th].cis = SubSeq(@, 1, Len(@) - 1)])
    IN CASE Innermost(r).kind = "call"   -> PopC([r EXCEPT !.T[e.th].nCcalls = @ - 1])
         [] Innermost(r).kind = "resume" -> Unprotected([r EXCEPT !.T[e.th].function = FALSE])
         [] OTHER                        -> r

-----------------------------------------------------------------------------
(* What the running code does.                                                 *)

State   == [T |-> T, C |-> C, panic |-> panic]
Top     == Innermost(State)
Is(K)   == Top.kind \in K /\ ~panic
Moves(s)   == T' = s.T /\ C' = s.C /\ panic' = s.panic
Becomes(s) == steps < MaxSteps /\ steps' = steps + 1 /\ Moves(s)
th      == Top.th
InLua   == Is({"execute"}) /\ ~T[th].cis[Len(T[th].cis)].c

\* lua.c: the host runs everything in lua_cpcall.
lua_cpcall == Is({"host"}) /\ Becomes(luaD_call(rawrunprotected(State, "pcall", Main), Main, TRUE))

\* OP_CALL: Lua code calls a Lua function, which the same luaV_execute runs, or a C
\* function; both are entered by luaD_precall.
OP_CALL == /\ InLua
           /\ \E c \in BOOLEAN :
                LET s       == luaD_precall(State, th, c)
                    entered == ~c /\ Innermost(s).kind = "execute" /\ Len(s.C) = Len(C) + 1
                IN Becomes(IF entered THEN [PopC(s) EXCEPT !.T[th].cis[Depth(State, th)].calling = TRUE] ELSE s)

\* OP_TAILCALL: the function takes the place of the one that calls it.
OP_TAILCALL == /\ InLua
               /\ LET s == luaD_precall(State, th, FALSE)
                  IN Becomes(IF Innermost(s).kind = "execute" /\ Len(s.C) = Len(C) + 1
                             THEN [PopC(s) EXCEPT !.T[th].cis = SubSeq(@, 1, Len(@) - 1)] ELSE s)

\* OP_RETURN: to Lua code of the same luaV_execute, or out of it.
OP_RETURN == /\ InLua
             /\ LET n == Len(T[th].cis)
                IN Becomes(IF T[th].cis[n - 1].calling
                           THEN [State EXCEPT !.T[th].cis = [SubSeq(@, 1, n - 1) EXCEPT ![n - 1].calling = FALSE]]
                           ELSE Returned(State))
ReturnC   == Is({"cfunc"}) /\ Becomes(Returned(State))

\* A metamethod, or lua_call in a C function or a hook.
lua_call == (InLua \/ Is({"cfunc", "hook"})) /\ \E c \in BOOLEAN : Becomes(luaD_call(State, th, c))

\* error, a run-time error, or an error of the C library.
lua_error == (InLua \/ Is({"cfunc", "hook"})) /\ Becomes(luaG_runerror(State, th))

\* The error function is called first, whatever runs; the bound does not count this step.
luaG_errormsg == /\ Is({"error"})
                 /\ steps' = steps
                 /\ Moves(IF T[th].errfunc = "function"
                          THEN luaD_call(PushC(PopC(State), "handler", th, Nothing), th, FALSE)
                          ELSE luaD_throw(State, th))

\* pcall and xpcall; the error function of the latter may be any value.
lua_pcall == /\ Is({"cfunc"})
             /\ \E ef \in {"none", "function", "notfunction"}, c \in BOOLEAN :
                  LET s == rawrunprotected(State, "pcall", th)
                  IN Becomes(luaD_call([s EXCEPT !.T[th].errfunc = ef], th, c))
PcallEnds == Is({"pcall"}) /\ Becomes(Unprotected(State))

\* The error function has returned.
HandlerEnds == Is({"handler"}) /\ Becomes(luaD_throw(State, th))

\* lua_load; an error of the compiler does not call the error function.
lua_load    == Is({"cfunc"}) /\ Becomes(rawrunprotected(State, "parser", th))
ParserEnds  == Is({"parser"}) /\ Becomes(Unprotected(State))
SyntaxError == Is({"parser"}) /\ Becomes(luaD_throw(State, th))

\* luaC_callGCTM, of a collection at an allocation or at the end of a luaD_call.
luaC_callGCTM ==
    /\ InLua \/ Is({"cfunc", "pcall", "handler"}) \/ (LoadCollects /\ Is({"parser"}))
    /\ LET s == PushC(State, "gc", th, [cis |-> 0, allowhook |-> T[th].allowhook])
       IN Becomes([s EXCEPT !.T[th].allowhook = FALSE])
do1gcTM == Is({"gc"}) /\ \E c \in BOOLEAN : Becomes(luaD_call(State, th, c))
GcEnds == Is({"gc"}) /\ Becomes([PopC(State) EXCEPT !.T[th].allowhook = Top.saved.allowhook])

\* luaD_callhook.
luaD_callhook == /\ InLua \/ Is({"cfunc"})
                 /\ T[th].allowhook
                 /\ Becomes([PushC(State, "hook", th, Nothing) EXCEPT !.T[th].allowhook = FALSE])
HookEnds == Is({"hook"}) /\ Becomes([PopC(State) EXCEPT !.T[th].allowhook = TRUE])

\* A coroutine that has not started, or is inside a yield.
Resumable(co) == IF Len(T[co].cis) = 1 THEN T[co].function ELSE T[co].cis[Len(T[co].cis)].yield
\* Mutant: the call of yield is not completed.
lua_resume_inside ==
    /\ Is({"cfunc"})
    /\ \E co \in Coroutines :
         LET s == rawrunprotected(State, "resume", co)
         IN /\ Resumable(co)
            /\ Becomes(IF Len(T[co].cis) = 1 THEN luaD_precall(s, co, FALSE)
                       ELSE PushC(s, "execute", co, Nothing))
lua_resume ==
    /\ Is({"cfunc"})
    /\ \E co \in Coroutines :
         LET s     == rawrunprotected(State, "resume", co)
             back  == [s EXCEPT !.T[co].cis = SubSeq(@, 1, Len(@) - 1)]
         IN /\ Resumable(co)
            /\ Becomes(IF Len(T[co].cis) = 1 THEN luaD_precall(s, co, FALSE)
                       ELSE PushC(back, "execute", co, Nothing))

\* coroutine.yield; the C function returns to luaV_execute, which returns to lua_resume.
lua_yield ==
    /\ Is({"cfunc"})
    /\ LET cis == T[th].cis
           n   == Len(cis)
       IN Becomes(IF T[th].nCcalls > 0 \/ cis[n - 1].c THEN luaG_runerror(State, th)
                  ELSE Unprotected(PopC(PopC([State EXCEPT !.T[th].cis[n].yield = TRUE]))))

\* A stack that is reallocated has room for tag methods again.
luaD_reallocstack == (InLua \/ Is({"cfunc"})) /\ ~T[th].extra /\ Becomes([State EXCEPT !.T[th].extra = TRUE])

Next == \/ lua_cpcall \/ OP_CALL \/ OP_TAILCALL \/ OP_RETURN \/ ReturnC \/ lua_call \/ lua_error \/ luaG_errormsg
        \/ lua_pcall \/ PcallEnds \/ HandlerEnds \/ lua_load \/ ParserEnds \/ SyntaxError \/ luaC_callGCTM \/ do1gcTM \/ GcEnds
        \/ luaD_callhook \/ HookEnds \/ lua_resume \/ lua_yield \/ luaD_reallocstack

Spec == Init /\ [][Next]_vars

-----------------------------------------------------------------------------
(* Properties.                                                                 *)

CountOf(kinds, t) == Cardinality({i \in DOMAIN C : C[i].kind \in kinds /\ C[i].th = t})
InnermostOf(kinds, t) == LET is == {i \in DOMAIN C : C[i].kind \in kinds /\ C[i].th = t}
                         IN IF is = {} THEN 0 ELSE CHOOSE i \in is : \A j \in is : j <= i

\* The CallInfo that the thread is at is the one of the code that runs, after any number
\* of calls, errors, resumes and yields: what luaV_execute asserts of base and L->ci.  One
\* luaV_execute runs the functions above the one it was called from, and no other.
CalledFrom(cis) ==
    CHOOSE n \in DOMAIN cis : /\ \A i \in n..(Len(cis) - 1) : cis[i].calling
                              /\ n > 1 => ~cis[n - 1].calling
FrameIsOurs ==
    LET cis  == T[th].cis
        last == cis[Len(cis)]
        from == C[Len(C) - 1]
    IN IF Top.kind = "execute"
       THEN ~last.c /\ ~last.calling /\ CalledFrom(cis) - 1 = (IF from.kind = "resume" THEN 1 ELSE from.at)
       ELSE Len(cis) = Top.at /\ (Top.kind = "cfunc" => last.c)

\* nCcalls counts the luaD_call of the thread that are on the C stack, which is what
\* keeps the C stack from overflowing and yields from crossing C functions.
CallsCounted == \A t \in Threads : T[t].nCcalls = CountOf({"call"}, t)

\* Hooks are off exactly while a hook or a gc tag method of the thread runs.
HooksOff == \A t \in Threads : T[t].allowhook = (CountOf({"hook", "gc"}, t) = 0)

\* However deep calls go and handlers fail, the C calls of a thread and its CallInfo
\* stay within what is left for handling the overflow.
WithinLimits == \A t \in Threads : /\ T[t].nCcalls <= LUA_MAXCCALLS + EXTRACCALLS
                                   /\ Len(T[t].cis) <= 2 * LUA_MAXCALLS

\* The three hold whatever errors, resumes and yields have cut off: what is counted is what
\* is on the stack, and neither calls nor their handlers overflow it.
CountersKept == CallsCounted /\ HooksOff /\ WithinLimits

\* Errors of a thread go to its innermost protected call, which is still on the C stack,
\* and what they cut off belongs to that thread.  An error never finds none.
JumpsToProtected ==
    /\ ~panic
    /\ \A t \in Threads : T[t].errorJmp = InnermostOf(Protected, t)
    /\ Top.kind # "host" => \A i \in T[th].errorJmp..Len(C) : C[i].th = th

\* A coroutine is resumed once at a time; one that is not running has no C call, no error
\* function, and hooks: what lua_resume asserts before it starts one.
ReadyToResume ==
    \A t \in Coroutines : CountOf({"resume"}, t) # 1 =>
        /\ CountOf({"resume"}, t) = 0
        /\ T[t].nCcalls = 0 /\ T[t].errfunc = "none" /\ T[t].allowhook
        /\ Len(T[t].cis) > 1 => T[t].cis[Len(T[t].cis)].yield
=============================================================================
