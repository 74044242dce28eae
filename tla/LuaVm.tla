------------------------------- MODULE LuaVm -------------------------------
(***************************************************************************)
(* The virtual machine of the bundled Lua interpreter: luaV_execute of     *)
(* src/lua/lvm.c, one action per kind of instruction, with the call        *)
(* protocol of src/lua/ldo.c, the upvalues of src/lua/lfunc.c and the tag  *)
(* methods of src/lua/ltm.c.                                               *)
(*                                                                         *)
(* L is the lua_State.  Its stack is one array that the frames share: a    *)
(* callee's registers begin where the caller put its arguments, and an     *)
(* open upvalue is a place in it.  Where the C code calls a Lua function   *)
(* and goes on when it returns, the frame says in after what is left to    *)
(* do.  Values are tuples whose first member is their type; tables,        *)
(* closures and upvalues live in a heap that only grows here (see LuaHeap  *)
(* for the collector).  Growing the stack, hooks, coroutines and the order *)
(* of strings are left out.                                                *)
(***************************************************************************)
EXTENDS LuaCode, TLC

CONSTANTS
    StackSize,    \* bound: slots of the stack; the programs that are run fit into it
    MAXTAGLOOP    \* longest chain of tag methods

ASSUME VmLimits == StackSize \in Nat \ {0} /\ MAXTAGLOOP \in Nat

VARIABLE L

-----------------------------------------------------------------------------
(* Values.                                                                  *)

Nil     == <<"nil">>
Num(n)  == <<"num", n>>
Str(s)  == <<"str", s>>
Bool(b) == <<"bool", b>>
l_isfalse(v)    == v \in {Nil, Bool(FALSE)}
ttisfunction(v) == v[1] \in {"fn", "cfn"}
IsText(v)       == v[1] \in {"num", "str"}

\* Arithmetic of the host.  Division and power on doubles have no integer result in
\* general: any functions that tell the operands and their order apart stand for them.
Arith(op, a, b) ==
    CASE op = "ADD" -> a + b
      [] op = "SUB" -> a - b
      [] op = "MUL" -> a * b
      [] op = "DIV" -> (16 * a - b) % 997
      [] op = "POW" -> (8 * a + b) % 1009

luaV_tostring(v) == IF v[1] = "num" THEN ToString(v[2]) ELSE v[2]

\* A table holds the keys whose value is not nil; its flags are the events that a
\* look for a tag method found absent.
NewTable == [kv |-> << >>, meta |-> 0, flags |-> {}]
FastEvents == {"__index", "__newindex", "__gc", "__mode", "__eq"}
Get(kv, k)    == IF k \in DOMAIN kv THEN kv[k] ELSE Nil
Put(kv, k, v) == LET rest == [x \in DOMAIN kv \ {k} |-> kv[x]]
                 IN IF v = Nil THEN rest ELSE (k :> v) @@ rest

\* The keys in a fixed order, as next goes through them.
RECURSIVE InOrder(_)
InOrder(S) == IF S = {} THEN << >> ELSE LET x == CHOOSE y \in S : TRUE IN <<x>> \o InOrder(S \ {x})
luaH_next(kv, k) ==
    LET ks == InOrder(DOMAIN kv)
        at == IF k = Nil THEN 0 ELSE CHOOSE n \in DOMAIN ks : ks[n] = k
    IN IF at = Len(ks) THEN <<Nil>> ELSE <<ks[at + 1], kv[ks[at + 1]]>>

-----------------------------------------------------------------------------
(* The state: the running frame, errors, upvalues.                          *)

Top(s)        == s.ci[Len(s.ci)]
Code(s)       == s.heap.clo[Top(s).fn].p
GetR(s, n)    == s.stack[Top(s).base + n]
SetR(s, n, v) == [s EXCEPT !.stack[Top(s).base + n] = v]
GetRK(s, n)   == IF n < MAXSTACK THEN GetR(s, n) ELSE Code(s).k[n - MAXSTACK + 1]
dojump(s, n)  == [s EXCEPT !.ci[Len(s.ci)].pc = @ + n]
luaG_runerror(s) == [s EXCEPT !.status = "error"]
Globals       == 1         \* the table of globals is the first table of the heap

Table(s, v)   == s.heap.tab[v[2]]
Store(s, v, key, val) == [s EXCEPT !.heap.tab[v[2]].kv = Put(@, key, val)]

\* The open upvalue of a slot, made when there is none, in its place in the list.
luaF_findupval(s, level) ==
    LET same  == {u \in DOMAIN s.heap.upv : s.heap.upv[u].open /\ s.heap.upv[u].v = level}
        new   == Len(s.heap.upv) + 1
        Above(u) == s.heap.upv[u].v > level
        Below(u) == ~Above(u)
    IN IF same # {} THEN [s |-> s, u |-> CHOOSE u \in same : TRUE]
       ELSE [s |-> [s EXCEPT !.openupval = SelectSeq(@, Above) \o <<new>> \o SelectSeq(@, Below),
                             !.heap.upv  = Append(@, [open |-> TRUE, v |-> level])],
             u |-> new]

\* The open upvalues from the head of the list down to level keep their value.
RECURSIVE luaF_close(_, _)
luaF_close(s, level) ==
    LET u == Head(s.openupval)
    IN IF s.openupval = << >> \/ s.heap.upv[u].v < level THEN s
       ELSE luaF_close([s EXCEPT !.openupval = Tail(@),
                                 !.heap.upv[u] = [open |-> FALSE, v |-> s.stack[@.v]]], level)

UpvalValue(s, u) == IF s.heap.upv[u].open THEN s.stack[s.heap.upv[u].v] ELSE s.heap.upv[u].v

-----------------------------------------------------------------------------
(* Tag methods.                                                             *)

\* What the table mt has for an event; that it has nothing is cached in its flags.
fasttm(s, mt, event) ==
    IF mt = 0 \/ event \in s.heap.tab[mt].flags THEN [s |-> s, tm |-> Nil]
    ELSE LET tm == Get(s.heap.tab[mt].kv, Str(event))
         IN [s  |-> IF tm # Nil THEN s ELSE [s EXCEPT !.heap.tab[mt].flags = @ \cup {event}],
             tm |-> tm]

luaT_gettmbyobj(s, v, event) ==
    IF v[1] # "tab" \/ Table(s, v).meta = 0 THEN Nil
    ELSE Get(s.heap.tab[Table(s, v).meta].kv, Str(event))

\* How an access ends: with a value, in an error, or in a call whose result it is.
Value(s, v)      == [s |-> s, how |-> "value", v |-> v, args |-> << >>]
Failed(s)        == [s |-> s, how |-> "error", v |-> Nil, args |-> << >>]
ByCall(s, f, as) == [s |-> s, how |-> "call", v |-> f, args |-> as]

RECURSIVE luaV_gettable(_, _, _, _)
luaV_gettable(s, t, key, loop) ==
    LET own  == Get(Table(s, t).kv, key)
        fast == fasttm(s, Table(s, t).meta, "__index")
        r    == IF t[1] = "tab" THEN fast ELSE [s |-> s, tm |-> luaT_gettmbyobj(s, t, "__index")]
    IN IF loop > MAXTAGLOOP THEN Failed(s)
       ELSE IF t[1] = "tab" /\ own # Nil THEN Value(s, own)
       ELSE IF r.tm = Nil THEN IF t[1] = "tab" THEN Value(r.s, Nil) ELSE Failed(s)
       ELSE IF ttisfunction(r.tm) THEN ByCall(r.s, r.tm, <<t, key>>)
       ELSE luaV_gettable(r.s, r.tm, key, loop + 1)

\* Mutant: a new key leaves the flags of the table as they are.
RECURSIVE luaV_settable_flags(_, _, _, _, _)
luaV_settable_flags(s, t, key, val, loop) ==
    LET isnew == Get(Table(s, t).kv, key) = Nil
        r     == IF t[1] = "tab" THEN IF isnew THEN fasttm(s, Table(s, t).meta, "__newindex") ELSE [s |-> s, tm |-> Nil]
                 ELSE [s |-> s, tm |-> luaT_gettmbyobj(s, t, "__newindex")]
    IN IF loop > MAXTAGLOOP \/ (t[1] = "tab" /\ key = Nil) THEN Failed(s)
       ELSE IF r.tm = Nil THEN IF t[1] = "tab" THEN Value(Store(r.s, t, key, val), Nil) ELSE Failed(s)
       ELSE IF ttisfunction(r.tm) THEN ByCall(r.s, r.tm, <<t, key, val>>)
       ELSE luaV_settable_flags(r.s, r.tm, key, val, loop + 1)

\* The primitive set comes first: it makes the slot, and forgets what the flags of
\* the table say, before the tag method is looked for.
RECURSIVE luaV_settable(_, _, _, _, _)
luaV_settable(s, t, key, val, loop) ==
    LET isnew == Get(Table(s, t).kv, key) = Nil
        slot  == [s EXCEPT !.heap.tab[t[2]].flags = {}]
        fast  == fasttm(slot, Table(s, t).meta, "__newindex")
        r     == IF t[1] = "tab" THEN IF isnew THEN fast ELSE [s |-> slot, tm |-> Nil]
                 ELSE [s |-> s, tm |-> luaT_gettmbyobj(s, t, "__newindex")]
    IN IF loop > MAXTAGLOOP \/ (t[1] = "tab" /\ key = Nil) THEN Failed(s)
       ELSE IF r.tm = Nil THEN IF t[1] = "tab" THEN Value(Store(r.s, t, key, val), Nil) ELSE Failed(s)
       ELSE IF ttisfunction(r.tm) THEN ByCall(r.s, r.tm, <<t, key, val>>)
       ELSE luaV_settable(r.s, r.tm, key, val, loop + 1)

\* The tag method of the first operand, or else of the second.
call_binTM(s, p1, p2, event) ==
    LET tm1 == luaT_gettmbyobj(s, p1, event)
        tm  == IF tm1 # Nil THEN tm1 ELSE luaT_gettmbyobj(s, p2, event)
    IN IF ttisfunction(tm) THEN ByCall(s, tm, <<p1, p2>>) ELSE Failed(s)

\* Both operands must agree on the tag method of an order.
call_orderTM(s, p1, p2, event) ==
    LET tm1 == luaT_gettmbyobj(s, p1, event)
    IN IF tm1 # Nil /\ tm1 = luaT_gettmbyobj(s, p2, event) THEN ByCall(s, tm1, <<p1, p2>>)
       ELSE Failed(s)

\* Tables that are not the same one are equal when a common tag method says so.
luaV_equalval(s, t1, t2) ==
    LET m1 == Table(s, t1).meta
        m2 == Table(s, t2).meta
        a  == fasttm(s, m1, "__eq")
        b  == IF m1 = m2 \/ a.tm = Nil THEN a ELSE fasttm(a.s, m2, "__eq")
    IN IF t1 = t2 \/ t1[1] # "tab" \/ t2[1] # "tab" THEN Value(s, Bool(t1 = t2))
       ELSE IF a.tm = Nil \/ a.tm # b.tm THEN Value(b.s, Bool(FALSE))
       ELSE ByCall(b.s, a.tm, <<t1, t2>>)

-----------------------------------------------------------------------------
(* Calls (ldo.c).                                                           *)

Missing(n) == [m \in 1..n |-> Nil]
Adjust(vs, n) == [m \in 1..n |-> IF m <= Len(vs) THEN vs[m] ELSE Nil]
\* The values of stack slots from..to-1, and values written from a slot on.
Slice(s, from, to)   == [n \in 1..(to - from) |-> s.stack[from + n - 1]]
Write(stack, at, vs) == [n \in DOMAIN stack |-> IF n \in at..(at + Len(vs) - 1) THEN vs[n - at + 1]
                                                ELSE stack[n]]

\* The first nfixargs arguments, nil for those missing, and the table arg of the rest.
adjust_varargs(s, nfixargs, at) ==
    LET given == Slice(s, at, s.top)
        fixed == Adjust(given, nfixargs)
        rest  == SubSeq(given, nfixargs + 1, Len(given))
        kv    == [k \in {Num(n) : n \in {m \in DOMAIN rest : rest[m] # Nil}} |-> rest[k[2]]]
                    @@ (Str("n") :> Num(Len(rest)))
        id    == Len(s.heap.tab) + 1
    IN [s EXCEPT !.heap.tab = Append(@, [NewTable EXCEPT !.kv = kv]),
                 !.stack = Write(@, at, fixed \o <<<<"tab", id>>>>),
                 !.top   = at + nfixargs + 1]

\* The C functions that the programs use: what each returns, and what it does.
Returns(s, vs) == [s EXCEPT !.ret = vs, !.status = "returning"]
CFunction(s, name, args) ==
    LET arg(n) == IF n <= Len(args) THEN args[n] ELSE Nil
    IN CASE name = "emit" -> Returns([s EXCEPT !.out = Append(@, args)], args)
         [] name = "next" -> IF arg(1)[1] # "tab" THEN luaG_runerror(s)
                             ELSE Returns(s, luaH_next(Table(s, arg(1)).kv, arg(2)))
         [] name = "pow"  -> Returns(s, <<Num(Arith("POW", arg(1)[2], arg(2)[2]))>>)
         [] name = "setmetatable" ->
               Returns([s EXCEPT !.heap.tab[arg(1)[2]].meta = IF arg(2) = Nil THEN 0 ELSE arg(2)[2]],
                       <<arg(1)>>)

\* Enters the function in slot func, with its arguments from there to the top;
\* after is what the caller does with the results.
luaD_precall(s0, func, after) ==
    LET f0   == s0.stack[func]
        tm   == luaT_gettmbyobj(s0, f0, "__call")
        hole == [s0 EXCEPT !.stack = Write(@, func, <<tm>> \o Slice(s0, func, s0.top)), !.top = @ + 1]
        s1   == [(IF ttisfunction(f0) THEN s0 ELSE hole) EXCEPT !.ci[Len(s0.ci)].after = after]
        f    == s1.stack[func]
        p    == s1.heap.clo[f[2]].p
        s2   == IF p.is_vararg THEN adjust_varargs(s1, p.numparams, func + 1) ELSE s1
        end  == func + 1 + p.maxstacksize
    IN IF ~ttisfunction(f) THEN luaG_runerror(s0)
       ELSE IF f[1] = "cfn" THEN CFunction(s1, f[2], Slice(s1, func + 1, s1.top))
       ELSE [s2 EXCEPT !.ci = Append(@, [fn |-> f[2], base |-> func + 1, top |-> end,
                                         pc |-> 0, after |-> [kind |-> "none"]]),
                       !.stack = Write(@, s2.top, Missing(end - s2.top)),
                       !.top   = end]

\* Calls f with args above the top of the stack (callTMres, callTM).
callTM(s, f, args, after) ==
    luaD_precall([s EXCEPT !.stack = Write(@, s.top, <<f>> \o args), !.top = @ + 1 + Len(args)],
                 s.top, [after EXCEPT !.top = s.top])
After(kind) == [kind |-> kind, top |-> 0, slot |-> 0, wanted |-> 0, a |-> 0, total |-> 0, last |-> 0]

\* The results, as many as wanted (all when that is LUA_MULTRET), from slot res on.
luaD_poscall(s, wanted, res, vs) ==
    LET all == IF wanted = LUA_MULTRET THEN vs ELSE Adjust(vs, wanted)
    IN [s EXCEPT !.stack = Write(@, res, all), !.top = res + Len(all)]

\* An access that may call: its value goes to register a, now or after the call.
ToReg(r, a) ==
    CASE r.how = "value" -> SetR(r.s, a, r.v)
      [] r.how = "call"  -> callTM(r.s, r.v, r.args, [After("reg") EXCEPT !.a = a])
      [] OTHER           -> luaG_runerror(r.s)
\* A comparison: the jump that follows is taken when the outcome is cond.
Branch(s, holds, cond) ==
    IF holds # (cond = 1) THEN dojump(s, 1)
    ELSE dojump(s, At(Code(s), Top(s).pc).b + 1)
ToBranch(r, cond, kind) ==
    CASE r.how = "value" -> Branch(r.s, r.v = Bool(TRUE), cond)
      [] r.how = "call"  -> callTM(r.s, r.v, r.args, [After(kind) EXCEPT !.a = cond])
      [] OTHER           -> luaG_runerror(r.s)

\* Concatenates the last two of total operands, the last in register last, until
\* one is left; the instruction's own target is register a.
RECURSIVE luaV_concat(_, _, _, _)
luaV_concat(s, total, last, a) ==
    LET x == GetR(s, last - 1)
        y == GetR(s, last)
        r == call_binTM(s, x, y, "__concat")
    IN IF total = 1 THEN SetR(s, a, GetR(s, last))
       ELSE IF IsText(x) /\ IsText(y)
       THEN luaV_concat(SetR(s, last - 1, Str(luaV_tostring(x) \o luaV_tostring(y))),
                        total - 1, last - 1, a)
       ELSE IF r.how = "error" THEN luaG_runerror(s)
       ELSE callTM(s, r.v, r.args, [After("concat") EXCEPT !.a = a, !.total = total, !.last = last])

-----------------------------------------------------------------------------
(* The instructions.  i is the one at hand and s the state with the program *)
(* counter already behind it.                                               *)

i == At(Code(L), Top(L).pc)
s == dojump(L, 1)
Running(ops) == L.status = "running" /\ i.op \in ops
Up(n) == L.heap.clo[Top(L).fn].upvals[n + 1]

OP_MOVE     == Running({"MOVE"}) /\ L' = SetR(s, i.a, GetR(s, i.b))
OP_LOADK    == Running({"LOADK"}) /\ L' = SetR(s, i.a, Code(s).k[i.b + 1])
OP_LOADBOOL == Running({"LOADBOOL"}) /\ L' = SetR(dojump(s, i.c), i.a, Bool(i.b = 1))
OP_LOADNIL  == /\ Running({"LOADNIL"})
               /\ L' = [s EXCEPT !.stack = Write(@, Top(s).base + i.a, Missing(i.b - i.a + 1))]
OP_GETUPVAL == Running({"GETUPVAL"}) /\ L' = SetR(s, i.a, UpvalValue(s, Up(i.b)))
OP_SETUPVAL == /\ Running({"SETUPVAL"})
               /\ L' = LET u == s.heap.upv[Up(i.b)]
                       IN IF u.open THEN [s EXCEPT !.stack[u.v] = GetR(s, i.a)]
                          ELSE [s EXCEPT !.heap.upv[Up(i.b)].v = GetR(s, i.a)]
OP_GETGLOBAL == /\ Running({"GETGLOBAL"})
                /\ L' = ToReg(luaV_gettable(s, <<"tab", Globals>>, Code(s).k[i.b + 1], -1), i.a)
OP_GETTABLE == /\ Running({"GETTABLE"})
               /\ L' = ToReg(luaV_gettable(s, GetR(s, i.b), GetRK(s, i.c), -1), i.a)
OP_SELF     == /\ Running({"SELF"})
               /\ L' = ToReg(luaV_gettable(SetR(s, i.a + 1, GetR(s, i.b)), GetR(s, i.b), GetRK(s, i.c), -1),
                             i.a)

Stored(r) == CASE r.how = "value" -> r.s
               [] r.how = "call"  -> callTM(r.s, r.v, r.args, After("drop"))
               [] OTHER           -> luaG_runerror(r.s)
OP_SETGLOBAL == /\ Running({"SETGLOBAL"})
                /\ L' = Stored(luaV_settable(s, <<"tab", Globals>>, Code(s).k[i.b + 1], GetR(s, i.a), 0))
OP_SETTABLE == /\ Running({"SETTABLE"})
               /\ L' = Stored(luaV_settable(s, GetR(s, i.a), GetRK(s, i.b), GetRK(s, i.c), 0))
OP_NEWTABLE == /\ Running({"NEWTABLE"})
               /\ L' = SetR([s EXCEPT !.heap.tab = Append(@, [NewTable EXCEPT !.flags = FastEvents])],
                            i.a, <<"tab", Len(s.heap.tab) + 1>>)

TagOf == [op \in {"ADD", "SUB", "MUL", "DIV", "POW"} |->
            CASE op = "ADD" -> "__add" [] op = "SUB" -> "__sub" [] op = "MUL" -> "__mul"
              [] op = "DIV" -> "__div" [] op = "POW" -> "__pow"]
OP_ADD == \* and the other operators of arithmetic; POW asks the global __pow
    /\ Running(DOMAIN TagOf)
    /\ LET x == GetRK(s, i.b)
           y == GetRK(s, i.c)
           f == Get(s.heap.tab[Globals].kv, Str("__pow"))
       IN L' = IF x[1] # "num" \/ y[1] # "num" THEN ToReg(call_binTM(s, x, y, TagOf[i.op]), i.a)
               ELSE IF i.op # "POW" THEN SetR(s, i.a, Num(Arith(i.op, x[2], y[2])))
               ELSE IF ttisfunction(f) THEN ToReg(ByCall(s, f, <<x, y>>), i.a)
               ELSE luaG_runerror(s)
OP_UNM == /\ Running({"UNM"})
          /\ LET x == GetR(s, i.b)
             IN L' = IF x[1] = "num" THEN SetR(s, i.a, Num(-x[2]))
                     ELSE ToReg(call_binTM(s, x, Nil, "__unm"), i.a)
OP_NOT == Running({"NOT"}) /\ L' = SetR(s, i.a, Bool(l_isfalse(GetR(s, i.b))))
OP_CONCAT == Running({"CONCAT"}) /\ L' = luaV_concat(s, i.c - i.b + 1, i.c, i.a)

OP_JMP == Running({"JMP"}) /\ L' = dojump(s, i.b)
OP_EQ  == /\ Running({"EQ"})
          /\ L' = ToBranch(luaV_equalval(s, GetRK(s, i.b), GetRK(s, i.c)), i.a, "test")
OP_LT  == /\ Running({"LT"})
          /\ LET x == GetRK(s, i.b)
                 y == GetRK(s, i.c)
             IN L' = IF x[1] = "num" /\ y[1] = "num" THEN Branch(s, x[2] < y[2], i.a)
                     ELSE ToBranch(call_orderTM(s, x, y, "__lt"), i.a, "test")
OP_LE  == /\ Running({"LE"})       \* without __le: the opposite of __lt, operands exchanged
          /\ LET x == GetRK(s, i.b)
                 y == GetRK(s, i.c)
                 le == call_orderTM(s, x, y, "__le")
             IN L' = IF x[1] = "num" /\ y[1] = "num" THEN Branch(s, x[2] <= y[2], i.a)
                     ELSE IF le.how = "call" THEN ToBranch(le, i.a, "test")
                     ELSE ToBranch(call_orderTM(s, y, x, "__lt"), i.a, "nottest")
OP_TEST == /\ Running({"TEST"})
           /\ LET v == GetR(s, i.b)
              IN L' = IF l_isfalse(v) = (i.c = 1) THEN dojump(s, 1)
                      ELSE Branch(SetR(s, i.a, v), TRUE, 1)

OP_CALL ==
    /\ Running({"CALL"})
    /\ LET ra == Top(s).base + i.a
       IN L' = luaD_precall(IF i.b # 0 THEN [s EXCEPT !.top = ra + i.b] ELSE s, ra,
                            [After("call") EXCEPT !.slot = ra, !.wanted = i.c - 1])
\* The frame of a Lua function that is called takes the place of the caller's.
OP_TAILCALL ==
    /\ Running({"TAILCALL"})
    /\ LET ra   == Top(s).base + i.a
           into == luaD_precall(IF i.b # 0 THEN [s EXCEPT !.top = ra + i.b] ELSE s, ra,
                                [After("call") EXCEPT !.slot = ra, !.wanted = i.c - 1])
           shut == luaF_close(into, Top(s).base)
           n    == Len(s.ci)
           down == Top(s).base - (ra + 1)
           new  == into.ci[n + 1]
       IN L' = IF Len(into.ci) = n THEN into                  \* a C function, or an error
               ELSE [shut EXCEPT
                       !.stack = Write(@, Top(s).base - 1, Slice(shut, ra, into.top)),
                       !.top   = into.top + down,
                       !.ci    = SubSeq(@, 1, n - 1)
                                    \o <<[new EXCEPT !.base = Top(s).base, !.top = into.top + down]>>]
OP_RETURN ==
    /\ Running({"RETURN"})
    /\ LET ra   == Top(s).base + i.a
           end  == IF i.b # 0 THEN ra + i.b - 1 ELSE s.top
           shut == luaF_close(s, Top(s).base)
       IN L' = [shut EXCEPT !.ret = Slice(shut, ra, end), !.status = "returning",
                            !.ci = SubSeq(@, 1, Len(@) - 1)]

OP_FORLOOP ==
    /\ Running({"FORLOOP"})
    /\ LET ok   == \A n \in 0..2 : GetR(s, i.a + n)[1] = "num"
           step == GetR(s, i.a + 2)[2]
           idx  == GetR(s, i.a)[2] + step
           lim  == GetR(s, i.a + 1)[2]
       IN L' = IF ~ok THEN luaG_runerror(s)
               ELSE IF (step > 0 /\ idx <= lim) \/ (step <= 0 /\ idx >= lim)
               THEN SetR(dojump(s, i.b), i.a, Num(idx)) ELSE s
OP_TFORLOOP ==
    /\ Running({"TFORLOOP"})
    /\ LET cb == Top(s).base + i.a + i.c + 3
           at == Top(s).base + i.a
       IN L' = luaD_precall([s EXCEPT !.stack = Write(@, cb, Slice(s, at, at + 3)), !.top = cb + 3], cb,
                            [After("for") EXCEPT !.slot = cb, !.wanted = i.c + 1, !.a = i.a])
OP_TFORPREP ==     \* a table in the place of the generator is gone through with next
    /\ Running({"TFORPREP"})
    /\ LET t == GetR(s, i.a)
           next == Get(s.heap.tab[Globals].kv, Str("next"))
       IN L' = dojump(IF t[1] = "tab" THEN SetR(SetR(s, i.a + 1, t), i.a, next) ELSE s, i.b)
OP_SETLIST ==
    /\ Running({"SETLIST", "SETLISTO"})
    /\ LET ra == Top(s).base + i.a
           n  == IF i.op = "SETLIST" THEN (i.b % LFIELDS_PER_FLUSH) + 1 ELSE s.top - ra - 1
           from == i.b - (i.b % LFIELDS_PER_FLUSH)
           id == GetR(s, i.a)[2]
           new == {m \in 1..n : s.stack[ra + m] # Nil}
           old == {Num(from + m) : m \in 1..n}
           kv == s.heap.tab[id].kv
       IN L' = [s EXCEPT !.heap.tab[id].kv = [k \in {Num(from + m) : m \in new} |-> s.stack[ra + k[2] - from]]
                                                @@ [k \in DOMAIN kv \ old |-> kv[k]],
                         !.top = IF i.op = "SETLISTO" THEN Top(s).top ELSE @]
OP_CLOSE == Running({"CLOSE"}) /\ L' = luaF_close(s, Top(s).base + i.a)

\* The upvalues of a new closure: own registers, or upvalues of the enclosing one.
RECURSIVE Capture(_, _, _)
Capture(st, ups, n) ==
    LET c == At(Code(st), Top(st).pc)
        r == luaF_findupval(st, Top(st).base + c.b)
    IN IF n = 0 THEN [s |-> st, ups |-> ups]
       ELSE IF c.op = "GETUPVAL"
       THEN Capture(dojump(st, 1), Append(ups, st.heap.clo[Top(st).fn].upvals[c.b + 1]), n - 1)
       ELSE Capture(dojump(r.s, 1), Append(ups, r.u), n - 1)
OP_CLOSURE ==
    /\ Running({"CLOSURE"})
    /\ LET p == Code(s).p[i.b + 1]
           r == Capture(s, << >>, p.nups)
       IN L' = SetR([r.s EXCEPT !.heap.clo = Append(@, [p |-> p, upvals |-> r.ups])],
                    i.a, <<"fn", Len(r.s.heap.clo) + 1>>)

-----------------------------------------------------------------------------
(* What a frame does with the results of the function it called.            *)

Returned(kind) == L.status = "returning" /\ Top(L).after.kind = kind
af   == Top(L).after
back == [L EXCEPT !.ret = << >>, !.status = "running", !.ci[Len(L.ci)].after = [kind |-> "none"]]
tmres == IF L.ret = << >> THEN Nil ELSE L.ret[1]     \* the one result of a tag method
Popped == [back EXCEPT !.top = af.top]

AfterCall == /\ Returned("call")
             /\ L' = LET r == luaD_poscall(back, af.wanted, af.slot, L.ret)
                     IN IF af.wanted >= 0 THEN [r EXCEPT !.top = Top(L).top] ELSE r
AfterFor == /\ Returned("for")
            /\ LET r == luaD_poscall(back, af.wanted, af.slot, L.ret)
                   first == Top(L).base + af.a + 2
                   m == [r EXCEPT !.stack = Write(@, first, Slice(r, af.slot, af.slot + af.wanted)),
                                  !.top = Top(L).top]
               IN L' = IF m.stack[first] = Nil THEN dojump(m, 1) ELSE Branch(m, TRUE, 1)
AfterReg  == Returned("reg") /\ L' = SetR(Popped, af.a, tmres)
AfterDrop == Returned("drop") /\ L' = Popped
AfterTest == /\ L.status = "returning" /\ af.kind \in {"test", "nottest"}
             /\ L' = Branch(Popped, l_isfalse(tmres) = (af.kind = "nottest"), af.a)
AfterConcat == /\ Returned("concat")
               /\ L' = luaV_concat(SetR(Popped, af.last - 1, tmres), af.total - 1, af.last - 1, af.a)
\* The function that C called has returned.
Done == Returned("C") /\ L' = [back EXCEPT !.status = "done", !.ret = L.ret]

Instruction ==
    \/ OP_MOVE \/ OP_LOADK \/ OP_LOADBOOL \/ OP_LOADNIL \/ OP_GETUPVAL \/ OP_SETUPVAL \/ OP_GETGLOBAL
    \/ OP_GETTABLE \/ OP_SELF \/ OP_SETGLOBAL \/ OP_SETTABLE \/ OP_NEWTABLE \/ OP_ADD \/ OP_UNM \/ OP_NOT
    \/ OP_CONCAT \/ OP_JMP \/ OP_EQ \/ OP_LT \/ OP_LE \/ OP_TEST \/ OP_CALL \/ OP_TAILCALL \/ OP_RETURN
    \/ OP_FORLOOP \/ OP_TFORLOOP \/ OP_TFORPREP \/ OP_SETLIST \/ OP_CLOSE \/ OP_CLOSURE
Return == AfterCall \/ AfterFor \/ AfterReg \/ AfterDrop \/ AfterTest \/ AfterConcat \/ Done

\* A state in which C has just called the function with prototype p.
Called(p, globals) ==
    luaD_precall([stack |-> [n \in 0..StackSize - 1 |-> IF n = 0 THEN <<"fn", 1>> ELSE Nil],
                  top |-> 1, ci |-> <<[fn |-> 0, base |-> 0, top |-> 0, pc |-> 0, after |-> [kind |-> "C"]]>>,
                  openupval |-> << >>,
                  heap |-> [tab |-> <<[NewTable EXCEPT !.kv = globals, !.flags = FastEvents]>>,
                            clo |-> <<[p |-> p, upvals |-> << >>]>>, upv |-> << >>],
                  out |-> << >>, ret |-> << >>, status |-> "running"],
                 0, [kind |-> "C"])
=============================================================================
