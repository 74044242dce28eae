------------------------------ MODULE LuaCode ------------------------------
(***************************************************************************)
(* The code generator of the bundled Lua interpreter (src/lua/lcode.c and  *)
(* the instruction table of src/lua/lopcodes.c), which every pmfile and    *)
(* pm.lua itself pass through.                                             *)
(*                                                                         *)
(* The generator is one pass over the source: an expression is not a tree  *)
(* but an expdesc that says where its value can be had, and jumps whose    *)
(* destination is not known yet are chained through their own offset       *)
(* fields.  An operator here takes the FuncState fs (and the expdesc e)    *)
(* that the C function changes in place, and returns it changed.           *)
(*                                                                         *)
(* fs.ok says that every lua_assert passed so far held; fs.err that a      *)
(* limit was exceeded, which in the source raises a syntax error.          *)
(* Line numbers and the growth of the vectors are left out.                *)
(***************************************************************************)
EXTENDS Integers, Sequences

CONSTANTS
    MAXSTACK,          \* registers of a function; operands from here on are constants
    MAXARG_C,          \* the largest operand C
    LFIELDS_PER_FLUSH  \* list items of a constructor stored by one instruction

ASSUME CodeLimits ==
    /\ MAXSTACK \in Nat \ {0}
    /\ MAXARG_C \in Nat
    /\ MAXARG_C >= MAXSTACK
    /\ LFIELDS_PER_FLUSH \in Nat \ {0}

NO_JUMP == -1
NO_REG  == MAXARG_C + 1     \* no register: beyond every register and constant
LUA_MULTRET == -1

\* The rows of the table of instruction modes that say something.
OpModeT    == {"EQ", "LT", "LE", "TEST", "TFORLOOP"}
OpModeBreg == {"MOVE", "LOADNIL", "GETTABLE", "SELF", "UNM", "NOT", "CONCAT", "TEST"}
OpModeBrk  == {"SETTABLE", "ADD", "SUB", "MUL", "DIV", "POW", "EQ", "LT", "LE"}
OpModeCrk  == {"GETTABLE", "SELF", "CONCAT"} \cup OpModeBrk
OpModeK    == {"LOADK", "GETGLOBAL", "SETGLOBAL"}
OpModesetA == {"MOVE", "LOADK", "LOADBOOL", "LOADNIL", "GETUPVAL", "GETGLOBAL", "GETTABLE",
               "NEWTABLE", "SELF", "ADD", "SUB", "MUL", "DIV", "POW", "UNM", "NOT", "CONCAT",
               "TEST", "CLOSURE"}
Mode_iAsBx == {"JMP", "FORLOOP", "TFORPREP"}
Mode_iABx  == {"LOADK", "GETGLOBAL", "SETGLOBAL", "SETLIST", "SETLISTO", "CLOSURE"}

-----------------------------------------------------------------------------
(* Instructions and results.  An instruction with one long operand keeps it *)
(* in b, as the code checker of ldebug.c does.                              *)

Pc(fs)        == Len(fs.code)
At(fs, pc)    == fs.code[pc + 1]
LastPc(fs)    == Len(fs.code) - 1
Asserted(fs, c) == IF c THEN fs ELSE [fs EXCEPT !.ok = FALSE]
Both(fs, e)   == [fs |-> fs, e |-> e]
IsTest(i)     == i.op \in OpModeT

init_exp(k, info) == [k |-> k, info |-> info, aux |-> 0, t |-> NO_JUMP, f |-> NO_JUMP]
hasjumps(e)       == e.t # e.f

-----------------------------------------------------------------------------
(* Jump lists.                                                              *)

luaK_getlabel(fs) == [fs EXCEPT !.lasttarget = Pc(fs)]

luaK_getjump(fs, pc) ==
    IF At(fs, pc).b = NO_JUMP THEN NO_JUMP ELSE pc + 1 + At(fs, pc).b

luaK_fixjump(fs, pc, dest) ==
    Asserted([fs EXCEPT !.code[pc + 1].b = dest - (pc + 1)], dest # NO_JUMP)

\* The instruction that decides whether the jump at pc is taken.
getjumpcontrol(fs, pc) == IF pc >= 1 /\ IsTest(At(fs, pc - 1)) THEN pc - 1 ELSE pc

\* The jumps of a list, in the order in which the loops of the source meet them.
RECURSIVE JumpsOf(_, _)
JumpsOf(fs, list) ==
    IF list = NO_JUMP THEN << >> ELSE <<list>> \o JumpsOf(fs, luaK_getjump(fs, list))

\* Is there a jump of the list that leaves no value, or the inverse of cond?
need_value(fs, list, cond) ==
    LET js == JumpsOf(fs, list)
    IN \E n \in 1..Len(js) :
          LET i == At(fs, getjumpcontrol(fs, js[n])) IN i.op # "TEST" \/ i.c # cond

\* Appends list l2 to list l1.
luaK_concat(fs, l1, l2) ==
    IF l2 = NO_JUMP THEN [fs |-> fs, l |-> l1]
    ELSE IF l1 = NO_JUMP THEN [fs |-> fs, l |-> l2]
    ELSE LET js == JumpsOf(fs, l1) IN [fs |-> luaK_fixjump(fs, js[Len(js)], l2), l |-> l1]

\* Every jump of the list goes to the target its control asks for; a TEST that
\* goes to a target with a register leaves its value there.
RECURSIVE luaK_patchlistaux(_, _, _, _, _, _, _)
luaK_patchlistaux(fs, list, ttarget, treg, ftarget, freg, dtarget) ==
    IF list = NO_JUMP THEN fs
    ELSE LET next == luaK_getjump(fs, list)
             at   == getjumpcontrol(fs, list)
             i    == At(fs, at)
             reg  == IF i.c = 1 THEN treg ELSE freg
             set  == [fs EXCEPT !.code[at + 1].a = IF reg = NO_REG THEN i.b ELSE reg]
             done == IF i.op # "TEST" THEN luaK_fixjump(fs, list, dtarget)
                     ELSE luaK_fixjump(set, list, IF i.c = 1 THEN ttarget ELSE ftarget)
         IN luaK_patchlistaux(done, next, ttarget, treg, ftarget, freg, dtarget)

luaK_patchtohere(fs, list) ==
    LET r == luaK_concat(luaK_getlabel(fs), fs.jpc, list) IN [r.fs EXCEPT !.jpc = r.l]

luaK_dischargejpc(fs) ==
    [luaK_patchlistaux(fs, fs.jpc, Pc(fs), NO_REG, Pc(fs), NO_REG, Pc(fs)) EXCEPT !.jpc = NO_JUMP]

luaK_patchlist(fs, list, target) ==
    IF target = Pc(fs) THEN luaK_patchtohere(fs, list)
    ELSE luaK_patchlistaux(Asserted(fs, target < Pc(fs)), list,
                           target, NO_REG, target, NO_REG, target)

-----------------------------------------------------------------------------
(* Emitting code.  What is emitted is at LastPc.                            *)

luaK_code(fs, i) ==
    LET d == luaK_dischargejpc(fs) IN [d EXCEPT !.code = Append(@, i)]

luaK_codeABC(fs, o, a, b, c) ==
    luaK_code(Asserted(fs, o \notin Mode_iABx \cup Mode_iAsBx),
              [op |-> o, a |-> a, b |-> b, c |-> c])

luaK_codeABx(fs, o, a, bx) ==
    luaK_code(Asserted(fs, o \in Mode_iABx \cup Mode_iAsBx),
              [op |-> o, a |-> a, b |-> bx, c |-> 0])

luaK_nil(fs, from, n) ==
    IF /\ Pc(fs) > fs.lasttarget
       /\ At(fs, LastPc(fs)).op = "LOADNIL"
       /\ At(fs, LastPc(fs)).a <= from
       /\ from <= At(fs, LastPc(fs)).b + 1
    THEN IF from + n - 1 > At(fs, LastPc(fs)).b
         THEN [fs EXCEPT !.code[Len(fs.code)].b = from + n - 1] ELSE fs
    ELSE luaK_codeABC(fs, "LOADNIL", from, from + n - 1, 0)

\* The jumps waiting for this place are kept on hold behind the new one.
luaK_jump(fs) ==
    LET j == luaK_codeABx([fs EXCEPT !.jpc = NO_JUMP], "JMP", 0, NO_JUMP)
    IN luaK_concat(j, LastPc(j), fs.jpc).fs

luaK_condjump(fs, op, a, b, c) == luaK_jump(luaK_codeABC(fs, op, a, b, c))

code_label(fs, a, b, jump) == luaK_codeABC(luaK_getlabel(fs), "LOADBOOL", a, b, jump)

-----------------------------------------------------------------------------
(* Registers and constants.                                                 *)

luaK_checkstack(fs, n) ==
    LET newstack == fs.freereg + n
    IN IF newstack <= fs.maxstacksize THEN fs
       ELSE IF newstack >= MAXSTACK THEN [fs EXCEPT !.err = TRUE]
       ELSE [fs EXCEPT !.maxstacksize = newstack]

\* Mutant: registers are taken without room for them.
luaK_reserveregs_unchecked(fs, n) == [fs EXCEPT !.freereg = @ + n]

luaK_reserveregs(fs, n) == [luaK_checkstack(fs, n) EXCEPT !.freereg = @ + n]

freereg(fs, reg) ==
    IF reg >= fs.nactvar /\ reg < MAXSTACK
    THEN Asserted([fs EXCEPT !.freereg = @ - 1], reg = fs.freereg - 1) ELSE fs

freeexp(fs, e) == IF e.k = "VNONRELOC" THEN freereg(fs, e.info) ELSE fs

\* The index of constant v, entered when it is new.  The key of nil is the table
\* of constants itself, so that nil too is entered once.
addk(fs, v) ==
    IF \E n \in 1..Len(fs.k) : fs.k[n] = v
    THEN [fs |-> fs, i |-> (CHOOSE n \in 1..Len(fs.k) : fs.k[n] = v) - 1]
    ELSE [fs |-> [fs EXCEPT !.k = Append(@, v)], i |-> Len(fs.k)]

luaK_stringK(fs, s) == addk(fs, <<"str", s>>)
luaK_numberK(fs, r) == addk(fs, <<"num", r>>)
nil_constant(fs)    == addk(fs, <<"nil">>)

-----------------------------------------------------------------------------
(* From an expdesc to a value in a register.                                *)

luaK_setcallreturns(fs, e, nresults) ==
    IF e.k # "VCALL" THEN Both(fs, e)
    ELSE Both([fs EXCEPT !.code[e.info + 1].c = nresults + 1],
              IF nresults = 1 THEN [e EXCEPT !.k = "VNONRELOC", !.info = At(fs, e.info).a] ELSE e)

Relocable(fs, e) == Both(fs, [e EXCEPT !.k = "VRELOCABLE", !.info = LastPc(fs)])

luaK_dischargevars(fs, e) ==
    CASE e.k = "VLOCAL"   -> Both(fs, [e EXCEPT !.k = "VNONRELOC"])
      [] e.k = "VUPVAL"   -> Relocable(luaK_codeABC(fs, "GETUPVAL", 0, e.info, 0), e)
      [] e.k = "VGLOBAL"  -> Relocable(luaK_codeABx(fs, "GETGLOBAL", 0, e.info), e)
      [] e.k = "VINDEXED" ->
            Relocable(luaK_codeABC(freereg(freereg(fs, e.aux), e.info),
                                   "GETTABLE", 0, e.info, e.aux), e)
      [] e.k = "VCALL"    -> luaK_setcallreturns(fs, e, 1)
      [] OTHER            -> Both(fs, e)

discharge2reg(fs0, e0, reg) ==
    LET r  == luaK_dischargevars(fs0, e0)
        fs == r.fs
        e  == r.e
        In(f) == Both(f, [e EXCEPT !.k = "VNONRELOC", !.info = reg])
    IN CASE e.k = "VNIL" -> In(luaK_nil(fs, reg, 1))
         [] e.k \in {"VFALSE", "VTRUE"} ->
               In(luaK_codeABC(fs, "LOADBOOL", reg, IF e.k = "VTRUE" THEN 1 ELSE 0, 0))
         [] e.k = "VK" -> In(luaK_codeABx(fs, "LOADK", reg, e.info))
         [] e.k = "VRELOCABLE" -> In([fs EXCEPT !.code[e.info + 1].a = reg])
         [] e.k = "VNONRELOC" ->
               In(IF reg # e.info THEN luaK_codeABC(fs, "MOVE", reg, e.info, 0) ELSE fs)
         [] OTHER -> Both(Asserted(fs, e.k \in {"VVOID", "VJMP"}), e)

discharge2anyreg(fs, e) ==
    IF e.k = "VNONRELOC" THEN Both(fs, e)
    ELSE LET r == luaK_reserveregs(fs, 1) IN discharge2reg(r, e, r.freereg - 1)

luaK_exp2reg(fs0, e0, reg) ==
    LET d      == discharge2reg(fs0, e0, reg)
        own    == luaK_concat(d.fs, d.e.t, d.e.info)        \* an own jump joins the t list
        fs1    == IF d.e.k = "VJMP" THEN own.fs ELSE d.fs
        e      == IF d.e.k = "VJMP" THEN [d.e EXCEPT !.t = own.l] ELSE d.e
        loads  == need_value(fs1, e.t, 1) \/ need_value(fs1, e.f, 0)
        over   == IF e.k # "VJMP" THEN luaK_jump(fs1) ELSE fs1
        lf     == code_label(over, reg, 0, 1)               \* load false and skip
        lt     == code_label(lf, reg, 1, 0)                 \* load true
        fs2    == IF loads
                  THEN luaK_patchtohere(lt, IF e.k # "VJMP" THEN LastPc(over) ELSE NO_JUMP)
                  ELSE fs1
        p_f    == IF loads THEN LastPc(lf) ELSE NO_JUMP
        p_t    == IF loads THEN LastPc(lt) ELSE NO_JUMP
        fs3    == luaK_getlabel(fs2)
        fs4    == luaK_patchlistaux(fs3, e.f, p_f, NO_REG, Pc(fs3), reg, p_f)
        fs5    == luaK_patchlistaux(fs4, e.t, Pc(fs3), reg, p_t, NO_REG, p_t)
    IN Both(IF hasjumps(e) THEN fs5 ELSE fs1,
            [e EXCEPT !.f = NO_JUMP, !.t = NO_JUMP, !.info = reg, !.k = "VNONRELOC"])

luaK_exp2nextreg(fs, e) ==
    LET d == luaK_dischargevars(fs, e)
        f == luaK_reserveregs(freeexp(d.fs, d.e), 1)
    IN luaK_exp2reg(f, d.e, f.freereg - 1)

luaK_exp2anyreg(fs, e) ==
    LET d == luaK_dischargevars(fs, e)
    IN IF d.e.k = "VNONRELOC" /\ ~hasjumps(d.e) THEN d
       ELSE IF d.e.k = "VNONRELOC" /\ d.e.info >= d.fs.nactvar
            THEN luaK_exp2reg(d.fs, d.e, d.e.info)
       ELSE luaK_exp2nextreg(d.fs, d.e)

luaK_exp2val(fs, e) ==
    IF hasjumps(e) THEN luaK_exp2anyreg(fs, e) ELSE luaK_dischargevars(fs, e)

\* The operand of the result is RK(e): a register, or a constant from MAXSTACK on.
luaK_exp2RK(fs, e) ==
    LET v == luaK_exp2val(fs, e)
        n == nil_constant(v.fs)
    IN IF v.e.k = "VNIL" /\ Len(v.fs.k) + MAXSTACK <= MAXARG_C
       THEN Both(n.fs, [v.e EXCEPT !.k = "VK", !.info = n.i])
       ELSE IF v.e.k = "VK" /\ v.e.info + MAXSTACK <= MAXARG_C THEN v
       ELSE luaK_exp2anyreg(v.fs, v.e)

RK(e) == IF e.k = "VK" THEN e.info + MAXSTACK ELSE e.info

-----------------------------------------------------------------------------
(* Assignment, methods, conditions.                                         *)

luaK_storevar(fs, var, e) ==
    LET any == luaK_exp2anyreg(fs, e)
        rk  == luaK_exp2RK(fs, e)
    IN CASE var.k = "VLOCAL"   -> luaK_exp2reg(freeexp(fs, e), e, var.info).fs
         [] var.k = "VUPVAL"   ->
               freeexp(luaK_codeABC(any.fs, "SETUPVAL", any.e.info, var.info, 0), any.e)
         [] var.k = "VGLOBAL"  ->
               freeexp(luaK_codeABx(any.fs, "SETGLOBAL", any.e.info, var.info), any.e)
         [] var.k = "VINDEXED" ->
               freeexp(luaK_codeABC(rk.fs, "SETTABLE", var.info, var.aux, RK(rk.e)), rk.e)
         [] OTHER -> Asserted(fs, FALSE)

luaK_self(fs, e, key) ==
    LET o    == luaK_exp2anyreg(fs, e)
        f1   == freeexp(o.fs, o.e)
        func == f1.freereg
        k    == luaK_exp2RK(luaK_reserveregs(f1, 2), key)
    IN Both(freeexp(luaK_codeABC(k.fs, "SELF", func, o.e.info, RK(k.e)), k.e),
            [o.e EXCEPT !.info = func, !.k = "VNONRELOC"])

invertjump(fs, e) ==
    LET at == getjumpcontrol(fs, e.info)
    IN Asserted([fs EXCEPT !.code[at + 1].a = 1 - @],
                IsTest(At(fs, at)) /\ At(fs, at).op # "TEST")

\* A jump on the value of e: returns the state, with the jump at LastPc.
jumponcond(fs, e, cond) ==
    IF e.k = "VRELOCABLE" /\ At(fs, e.info).op = "NOT"
    THEN luaK_condjump([fs EXCEPT !.code = SubSeq(@, 1, Len(@) - 1)],   \* remove the NOT
                       "TEST", NO_REG, At(fs, e.info).b, 1 - cond)
    ELSE LET d == discharge2anyreg(fs, e)
         IN luaK_condjump(freeexp(d.fs, d.e), "TEST", NO_REG, d.e.info, cond)

\* Goes on when e is true and leaves the jumps taken otherwise in e.f.
luaK_goiftrue(fs0, e0) ==
    LET d  == luaK_dischargevars(fs0, e0)
        e  == d.e
        fs == CASE e.k \in {"VK", "VTRUE"} -> d.fs
                [] e.k = "VFALSE"          -> luaK_jump(d.fs)
                [] e.k = "VJMP"            -> invertjump(d.fs, e)
                [] OTHER                   -> jumponcond(d.fs, e, 0)
        pc == IF e.k \in {"VK", "VTRUE"} THEN NO_JUMP ELSE IF e.k = "VJMP" THEN e.info ELSE LastPc(fs)
        r  == luaK_concat(fs, e.f, pc)
    IN Both(r.fs, [e EXCEPT !.f = r.l])

\* Goes on when e is false and leaves the jumps taken otherwise in e.t.
luaK_goiffalse(fs0, e0) ==
    LET d  == luaK_dischargevars(fs0, e0)
        e  == d.e
        fs == CASE e.k \in {"VNIL", "VFALSE", "VJMP"} -> d.fs
                [] e.k = "VTRUE"                      -> luaK_jump(d.fs)
                [] OTHER                              -> jumponcond(d.fs, e, 1)
        pc == IF e.k \in {"VNIL", "VFALSE"} THEN NO_JUMP
              ELSE IF e.k = "VJMP" THEN e.info ELSE LastPc(fs)
        r  == luaK_concat(fs, e.t, pc)
    IN Both(r.fs, [e EXCEPT !.t = r.l])

codenot(fs0, e0) ==
    LET d   == luaK_dischargevars(fs0, e0)
        any == discharge2anyreg(d.fs, d.e)
        Swapped(e) == [e EXCEPT !.f = e.t, !.t = e.f]
        not == Relocable(luaK_codeABC(freeexp(any.fs, any.e), "NOT", 0, any.e.info, 0), any.e)
    IN CASE d.e.k \in {"VNIL", "VFALSE"} -> Both(d.fs, Swapped([d.e EXCEPT !.k = "VTRUE"]))
         [] d.e.k \in {"VK", "VTRUE"}    -> Both(d.fs, Swapped([d.e EXCEPT !.k = "VFALSE"]))
         [] d.e.k = "VJMP"               -> Both(invertjump(d.fs, d.e), Swapped(d.e))
         [] d.e.k \in {"VRELOCABLE", "VNONRELOC"} -> Both(not.fs, Swapped(not.e))
         [] OTHER                        -> Both(Asserted(d.fs, FALSE), Swapped(d.e))

luaK_indexed(fs, t, key) ==
    LET k == luaK_exp2RK(fs, key) IN Both(k.fs, [t EXCEPT !.aux = RK(k.e), !.k = "VINDEXED"])

-----------------------------------------------------------------------------
(* Operators.                                                               *)

luaK_prefix(fs, op, e) ==
    LET v   == luaK_exp2val(fs, e)
        neg == luaK_numberK(v.fs, -v.fs.k[v.e.info + 1][2])
        any == luaK_exp2anyreg(v.fs, v.e)
    IN IF op = "not" THEN codenot(fs, e)
       ELSE IF v.e.k = "VK" /\ v.fs.k[v.e.info + 1][1] = "num"
            THEN Both(neg.fs, [v.e EXCEPT !.info = neg.i])
       ELSE Relocable(luaK_codeABC(freeexp(any.fs, any.e), "UNM", 0, any.e.info, 0), any.e)

\* What is done to the first operand before the second is read.
luaK_infix(fs, op, v) ==
    LET and == luaK_goiftrue(fs, v)
        or  == luaK_goiffalse(fs, v)
    IN CASE op = "and" -> Both(luaK_patchtohere(and.fs, and.e.t), [and.e EXCEPT !.t = NO_JUMP])
         [] op = "or"  -> Both(luaK_patchtohere(or.fs, or.e.f), [or.e EXCEPT !.f = NO_JUMP])
         [] op = ".."  -> luaK_exp2nextreg(fs, v)
         [] OTHER      -> luaK_exp2RK(fs, v)

ArithOp == [x \in {"+", "-", "*", "/", "^"} |->
              CASE x = "+" -> "ADD" [] x = "-" -> "SUB" [] x = "*" -> "MUL"
                [] x = "/" -> "DIV" [] x = "^" -> "POW"]
TestOp  == [x \in {"~=", "==", "<", "<=", ">", ">="} |->
              CASE x \in {"~=", "=="} -> "EQ" [] x \in {"<", ">"} -> "LT" [] OTHER -> "LE"]

codebinop(fs, res, op, o1, o2) ==
    LET swap == op \in {">", ">="}
        test == luaK_condjump(fs, TestOp[op], IF op = "~=" THEN 0 ELSE 1,
                              IF swap THEN o2 ELSE o1, IF swap THEN o1 ELSE o2)
    IN IF op \in DOMAIN ArithOp
       THEN Relocable(luaK_codeABC(fs, ArithOp[op], 0, o1, o2), res)
       ELSE Both(test, [res EXCEPT !.k = "VJMP", !.info = LastPc(test)])

luaK_posfix(fs, op, e1, e2) ==
    LET d   == luaK_dischargevars(fs, e2)
        and == luaK_concat(d.fs, e1.f, d.e.f)
        or  == luaK_concat(d.fs, e1.t, d.e.t)
        v   == luaK_exp2val(fs, e2)
        nxt == luaK_exp2nextreg(v.fs, v.e)
        o1  == luaK_exp2RK(fs, e1)
        o2  == luaK_exp2RK(o1.fs, e2)
    IN CASE op = "and" -> Both(Asserted(and.fs, e1.t = NO_JUMP), [d.e EXCEPT !.f = and.l])
         [] op = "or"  -> Both(Asserted(or.fs, e1.f = NO_JUMP), [d.e EXCEPT !.t = or.l])
         [] op = ".." /\ v.e.k = "VRELOCABLE" /\ At(v.fs, v.e.info).op = "CONCAT" ->
               \* a .. (b .. c) is one instruction over the registers of all three
               Both([freeexp(Asserted(v.fs, e1.info = At(v.fs, v.e.info).b - 1), e1)
                       EXCEPT !.code[v.e.info + 1].b = e1.info],
                    [e1 EXCEPT !.k = v.e.k, !.info = v.e.info])
         [] op = ".."  ->
               Relocable(luaK_codeABC(freeexp(freeexp(nxt.fs, nxt.e), e1),
                                      "CONCAT", 0, e1.info, nxt.e.info), e1)
         [] OTHER -> codebinop(freeexp(freeexp(o2.fs, o2.e), o1.e), o1.e, op, RK(o1.e), RK(o2.e))
=============================================================================
