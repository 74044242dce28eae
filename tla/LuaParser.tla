----------------------------- MODULE LuaParser -----------------------------
(***************************************************************************)
(* The parser of the bundled Lua interpreter (src/lua/lparser.c): a        *)
(* recursive descent over the tokens that calls the code generator as it   *)
(* goes and never builds a tree.                                           *)
(*                                                                         *)
(* ls is the LexState: the tokens that are left (a token is a tuple whose  *)
(* first member is its kind), the stack of FuncStates with the innermost   *)
(* last, and e, the expdesc that the last rule delivered.  A rule takes ls *)
(* and returns it.  A syntax error sets err and drops the remaining input, *)
(* so that every rule returns; what is generated after it does not count.  *)
(* Lines, the names of variables for the debugger and the limit on nested  *)
(* levels are left out.                                                    *)
(***************************************************************************)
EXTENDS LuaCode

EOS == <<"<eof>">>

token(ls)        == IF ls.t = << >> THEN "<eof>" ELSE ls.t[1][1]
seminfo(ls)      == ls.t[1][2]
lookahead(ls)    == IF Len(ls.t) < 2 THEN "<eof>" ELSE ls.t[2][1]
next(ls)         == [ls EXCEPT !.t = IF @ = << >> THEN @ ELSE Tail(@)]
syntaxerror(ls)  == [ls EXCEPT !.err = TRUE, !.t = << >>]
testnext(ls, c)  == IF token(ls) = c THEN next(ls) ELSE ls
check(ls, c)     == IF token(ls) = c THEN next(ls) ELSE syntaxerror(ls)

\* The function that is being compiled, and a step of the generator on it.
fs(ls)           == ls.fss[Len(ls.fss)]
With(ls, f)      == [ls EXCEPT !.fss[Len(ls.fss)] = f]
WithBoth(ls, r)  == [With(ls, r.fs) EXCEPT !.e = r.e]
Gives(ls, e)     == [ls EXCEPT !.e = e]
On(ls, Op(_, _)) == WithBoth(ls, Op(fs(ls), ls.e))

codestring(ls, s) ==
    LET r == luaK_stringK(fs(ls), s) IN Gives(With(ls, r.fs), init_exp("VK", r.i))

checkname(ls) ==
    IF token(ls) = "name" THEN codestring(next(ls), seminfo(ls)) ELSE syntaxerror(ls)

-----------------------------------------------------------------------------
(* Variables and blocks.                                                    *)

\* The n-th new variable is known by name, but is not in scope before adjustlocalvars.
new_localvar(ls, name, n) ==
    With(ls, [fs(ls) EXCEPT !.actvar = SubSeq(@, 1, fs(ls).nactvar + n) \o <<name>>])

adjustlocalvars(ls, nvars) == With(ls, [fs(ls) EXCEPT !.nactvar = @ + nvars])

create_local(ls, name) == adjustlocalvars(new_localvar(ls, name, 0), 1)

\* The register of variable n in function f, the innermost of that name, or -1.
searchvar(f, n) ==
    LET found == {i \in 1..f.nactvar : f.actvar[i] = n}
    IN IF found = {} THEN -1 ELSE (CHOOSE i \in found : \A j \in found : j <= i) - 1

\* The block that holds the variable in register level has to close it when left.
markupval(f, level) ==
    LET holds == {b \in 1..Len(f.bl) : f.bl[b].nactvar <= level}
    IN IF holds = {} THEN f
       ELSE [f EXCEPT !.bl[CHOOSE b \in holds : \A c \in holds : c <= b].upval = TRUE]

\* The index of the upvalue that stands for variable v of the enclosing function.
indexupvalue(f, v) ==
    LET same == {i \in 1..Len(f.upvalues) : f.upvalues[i] = [k |-> v.k, info |-> v.info]}
    IN IF same # {} THEN [f |-> f, i |-> (CHOOSE i \in same : TRUE) - 1]
       ELSE [f |-> [f EXCEPT !.upvalues = Append(@, [k |-> v.k, info |-> v.info])],
             i |-> Len(f.upvalues)]

\* Looks for n in the functions 1..level, from the inside out: returns the stack
\* of functions, whose upvalues may have grown, and where n is.
RECURSIVE singlevaraux(_, _, _, _)
singlevaraux(fss, level, n, base) ==
    IF level = 0 THEN [fss |-> fss, e |-> init_exp("VGLOBAL", NO_REG)]
    ELSE LET v == searchvar(fss[level], n)
             r == singlevaraux(fss, level - 1, n, FALSE)
             k == luaK_stringK(r.fss[level], n)
             u == indexupvalue(r.fss[level], r.e)
         IN IF v >= 0
            THEN [fss |-> IF base THEN fss ELSE [fss EXCEPT ![level] = markupval(@, v)],
                  e   |-> init_exp("VLOCAL", v)]
            ELSE IF r.e.k # "VGLOBAL"
            THEN [fss |-> [r.fss EXCEPT ![level] = u.f],
                  e   |-> [r.e EXCEPT !.info = u.i, !.k = "VUPVAL"]]
            ELSE IF base THEN [fss |-> [r.fss EXCEPT ![level] = k.fs],
                               e   |-> [r.e EXCEPT !.info = k.i]]
            ELSE r

singlevar(ls) ==
    LET r == singlevaraux(ls.fss, Len(ls.fss), seminfo(ls), TRUE)
    IN IF token(ls) # "name" THEN syntaxerror(ls)
       ELSE [next(ls) EXCEPT !.fss = r.fss, !.e = r.e]

adjust_assign(ls, nvars, nexps) ==
    LET extra == nvars - nexps
        more  == IF extra + 1 <= 0 THEN 0 ELSE extra + 1
        open  == IF more = 0 THEN fs(ls) ELSE luaK_reserveregs(fs(ls), more - 1)
        clsd  == IF ls.e.k # "VVOID" THEN On(ls, luaK_exp2nextreg) ELSE ls
        f     == fs(clsd)
    IN IF ls.e.k = "VCALL" THEN WithBoth(ls, luaK_setcallreturns(open, ls.e, more))
       ELSE IF extra > 0 THEN With(clsd, luaK_nil(luaK_reserveregs(f, extra), f.freereg, extra))
       ELSE clsd

enterblock(ls, isbreakable) ==
    LET f == fs(ls)
    IN With(ls, Asserted([f EXCEPT !.bl = Append(@,
            [breaklist |-> NO_JUMP, isbreakable |-> isbreakable,
             nactvar |-> f.nactvar, upval |-> FALSE])], f.freereg = f.nactvar))

leaveblock(ls) ==
    LET f   == fs(ls)
        b   == f.bl[Len(f.bl)]
        out == [f EXCEPT !.bl = SubSeq(@, 1, Len(@) - 1), !.nactvar = b.nactvar]
        cls == IF b.upval THEN luaK_codeABC(out, "CLOSE", b.nactvar, 0, 0) ELSE out
    IN With(ls, luaK_patchtohere([cls EXCEPT !.freereg = b.nactvar], b.breaklist))

open_func(ls) ==
    [ls EXCEPT !.fss = Append(@,
        [code |-> << >>, lasttarget |-> 0, jpc |-> NO_JUMP, freereg |-> 0, nactvar |-> 0,
         k |-> << >>, p |-> << >>, upvalues |-> << >>, bl |-> << >>, actvar |-> << >>,
         maxstacksize |-> 2, numparams |-> 0, is_vararg |-> FALSE, ok |-> TRUE, err |-> FALSE])]

\* The function itself, as the interpreter knows it.
Proto(f) == [code |-> f.code, k |-> f.k, p |-> f.p, nups |-> Len(f.upvalues),
             maxstacksize |-> f.maxstacksize, numparams |-> f.numparams,
             is_vararg |-> f.is_vararg]

\* The final return; the function leaves the stack and stays in ls.done.
close_func(ls) ==
    LET f == luaK_codeABC([fs(ls) EXCEPT !.nactvar = 0], "RETURN", 0, 1, 0)
    IN [ls EXCEPT !.fss  = SubSeq(@, 1, Len(@) - 1),
                  !.done = Proto(f),
                  !.ups  = f.upvalues,
                  !.ok   = @ /\ f.ok /\ f.bl = << >>,
                  !.err  = @ \/ f.err]

\* A new closure of the function in ls.done; a pseudo instruction per upvalue
\* says where the enclosing function has it.
RECURSIVE CodeUpvalues(_, _)
CodeUpvalues(f, ups) ==
    IF ups = << >> THEN f
    ELSE CodeUpvalues(luaK_codeABC(f, IF ups[1].k = "VLOCAL" THEN "MOVE" ELSE "GETUPVAL",
                                   0, ups[1].info, 0), Tail(ups))

pushclosure(ls) ==
    LET f == luaK_codeABx([fs(ls) EXCEPT !.p = Append(@, ls.done)], "CLOSURE", 0, Len(fs(ls).p))
    IN Gives(With(ls, CodeUpvalues(f, ls.ups)), init_exp("VRELOCABLE", LastPc(f)))

-----------------------------------------------------------------------------
(* Expressions.                                                             *)

RECURSIVE chunk(_), subexpr(_, _), funcargs(_), primaryexp(_), consitems(_, _, _, _, _),
          explist(_, _), primarysuffix(_), operators(_, _), parlist(_, _), statements(_, _)

expr(ls) == subexpr(ls, -1)

luaY_field(ls) ==
    LET t == On(ls, luaK_exp2anyreg)
        k == checkname(next(t))
    IN WithBoth(k, luaK_indexed(fs(k), t.e, k.e))

luaY_index(ls) == check(On(expr(next(ls)), luaK_exp2val), "]")

\* cc is the ConsControl: the item read last, the register of the table, and how
\* many array items there are, pending ones among them.
recfield(ls, treg) ==
    LET reg == fs(ls).freereg
        key == check(IF token(ls) = "name" THEN checkname(ls) ELSE luaY_index(ls), "=")
        rk  == On(key, luaK_exp2RK)
        val == expr(rk)
        k2  == luaK_exp2RK(fs(val), rk.e)
        v2  == luaK_exp2RK(k2.fs, val.e)
    IN With(val, [luaK_codeABC(v2.fs, "SETTABLE", treg, RK(k2.e), RK(v2.e)) EXCEPT !.freereg = reg])

closelistfield(ls, cc) ==
    LET f == luaK_exp2nextreg(fs(ls), cc.v).fs
    IN IF cc.v.k = "VVOID" THEN [ls |-> ls, cc |-> cc]
       ELSE IF cc.tostore = LFIELDS_PER_FLUSH
       THEN [ls |-> With(ls, [luaK_codeABx(f, "SETLIST", cc.t, cc.na - 1) EXCEPT !.freereg = cc.t + 1]),
             cc |-> [cc EXCEPT !.v.k = "VVOID", !.tostore = 0]]
       ELSE [ls |-> With(ls, f), cc |-> [cc EXCEPT !.v.k = "VVOID"]]

lastlistfield(ls, cc) ==
    LET open == luaK_codeABx(luaK_setcallreturns(fs(ls), cc.v, LUA_MULTRET).fs,
                             "SETLISTO", cc.t, cc.na - 1)
        f    == IF cc.v.k # "VVOID" THEN luaK_exp2nextreg(fs(ls), cc.v).fs ELSE fs(ls)
        list == luaK_codeABx(f, "SETLIST", cc.t, cc.na - 1)
    IN IF cc.tostore = 0 THEN ls
       ELSE With(ls, [(IF cc.v.k = "VCALL" THEN open ELSE list) EXCEPT !.freereg = cc.t + 1])

\* The items of a constructor, from the one at hand to the last.
consitems(ls0, t, na, tostore, v) ==
    LET ls   == testnext(ls0, ";")
        r    == closelistfield(ls, [v |-> v, t |-> t, na |-> na, tostore |-> tostore])
        isrec == \/ token(ls) = "["
                 \/ token(ls) = "name" /\ lookahead(ls) = "="
        item == IF isrec THEN recfield(r.ls, t) ELSE expr(r.ls)
        cc   == IF isrec THEN r.cc
                ELSE [r.cc EXCEPT !.v = item.e, !.na = @ + 1, !.tostore = @ + 1]
    IN IF token(ls) \in {"}", "<eof>"}
       THEN lastlistfield(check(ls, "}"), [v |-> v, t |-> t, na |-> na, tostore |-> tostore])
       ELSE IF token(item) \in {",", ";"}
       THEN consitems(next(item), t, cc.na, cc.tostore, cc.v)
       ELSE lastlistfield(check(item, "}"), cc)

\* constructor -> `{' [item {sep item} [sep]] `}'.  The sizes that the source puts
\* into the NEWTABLE afterwards are hints for its allocation and left out.
constructor(ls) ==
    LET f == luaK_codeABC(fs(ls), "NEWTABLE", 0, 0, 0)
        t == WithBoth(ls, luaK_exp2nextreg(f, init_exp("VRELOCABLE", LastPc(f))))
        r == consitems(check(t, "{"), t.e.info, 0, 0, init_exp("VVOID", 0))
    IN Gives(r, t.e)

\* parlist -> [ param { `,' param } ], after n of them.
parlist(ls, n) ==
    IF token(ls) = "..." THEN [ls |-> next(ls), n |-> n, dots |-> TRUE]
    ELSE IF token(ls) # "name" THEN [ls |-> syntaxerror(ls), n |-> n, dots |-> FALSE]
    ELSE LET p == new_localvar(next(ls), seminfo(ls), n)
         IN IF token(p) = "," THEN parlist(next(p), n + 1)
            ELSE [ls |-> p, n |-> n + 1, dots |-> FALSE]

code_params(ls0, nparams, dots) ==
    LET ls == adjustlocalvars(ls0, nparams)
        p  == With(ls, [fs(ls) EXCEPT !.numparams = fs(ls).nactvar, !.is_vararg = dots])
        a  == IF dots THEN create_local(p, "arg") ELSE p
    IN With(a, luaK_reserveregs(fs(a), fs(a).nactvar))

\* body -> `(' parlist `)' chunk END
body(ls, needself) ==
    LET o == check(open_func(ls), "(")
        s == IF needself THEN create_local(o, "self") ELSE o
        p == IF token(s) = ")" THEN [ls |-> s, n |-> 0, dots |-> FALSE] ELSE parlist(s, 0)
        c == chunk(check(code_params(p.ls, p.n, p.dots), ")"))
    IN pushclosure(close_func(check(c, "end")))

\* explist1 -> expr { `,' expr }, after n - 1 of them: the last expression is open.
explist(ls, n) ==
    LET e == expr(ls)
    IN IF token(e) = "," THEN explist(next(On(e, luaK_exp2nextreg)), n + 1)
       ELSE [ls |-> e, n |-> n]
explist1(ls) == explist(ls, 1)

funcargs(ls) ==
    LET base == ls.e.info
        none == Gives(ls, init_exp("VVOID", 0))
        list == explist1(next(ls)).ls
        open == WithBoth(list, luaK_setcallreturns(fs(list), list.e, LUA_MULTRET))
        args == CASE token(ls) = "(" /\ lookahead(ls) = ")" -> next(next(none))
                  [] token(ls) = "("      -> check(open, ")")
                  [] token(ls) = "{"      -> constructor(ls)
                  [] token(ls) = "string" -> codestring(next(ls), seminfo(ls))
                  [] OTHER                -> syntaxerror(none)
        clsd == IF args.e.k = "VVOID" THEN args ELSE On(args, luaK_exp2nextreg)
        nparams == fs(clsd).freereg - (base + 1)
        call == IF args.e.k = "VCALL" THEN luaK_codeABC(fs(args), "CALL", base, LUA_MULTRET + 1, 2)
                ELSE luaK_codeABC(fs(clsd), "CALL", base, nparams + 1, 2)
    IN Gives(With(IF args.e.k = "VCALL" THEN args ELSE clsd,
                  Asserted([call EXCEPT !.freereg = base + 1], ls.e.k = "VNONRELOC")),
             init_exp("VCALL", LastPc(call)))

\* A parenthesis cuts a call to one value and makes a variable an expression.
prefixexp(ls) ==
    CASE token(ls) = "("    -> On(check(expr(next(ls)), ")"), luaK_dischargevars)
      [] token(ls) = "name" -> singlevar(ls)
      [] OTHER              -> Gives(syntaxerror(ls), init_exp("VNIL", 0))

primarysuffix(ls) ==
    LET any == On(ls, luaK_exp2anyreg)
        key == luaY_index(any)
        nam == checkname(next(ls))
    IN CASE token(ls) = "." -> primarysuffix(luaY_field(ls))
         [] token(ls) = "[" -> primarysuffix(WithBoth(key, luaK_indexed(fs(key), any.e, key.e)))
         [] token(ls) = ":" ->
               primarysuffix(funcargs(WithBoth(nam, luaK_self(fs(nam), ls.e, nam.e))))
         [] token(ls) \in {"(", "string", "{"} ->
               primarysuffix(funcargs(On(ls, luaK_exp2nextreg)))
         [] OTHER -> ls

primaryexp(ls) == primarysuffix(prefixexp(ls))

simpleexp(ls) ==
    LET num == luaK_numberK(fs(ls), seminfo(ls))
    IN CASE token(ls) = "number"   -> Gives(With(next(ls), num.fs), init_exp("VK", num.i))
         [] token(ls) = "string"   -> codestring(next(ls), seminfo(ls))
         [] token(ls) = "nil"      -> Gives(next(ls), init_exp("VNIL", 0))
         [] token(ls) = "true"     -> Gives(next(ls), init_exp("VTRUE", 0))
         [] token(ls) = "false"    -> Gives(next(ls), init_exp("VFALSE", 0))
         [] token(ls) = "{"        -> constructor(ls)
         [] token(ls) = "function" -> body(next(ls), FALSE)
         [] OTHER                  -> primaryexp(ls)

UnOps == {"not", "-"}
\* Left and right priority of the binary operators.
priority == [op \in {"+", "-", "*", "/", "^", "..", "~=", "==", "<", "<=", ">", ">=", "and", "or"} |->
    CASE op \in {"+", "-"} -> <<6, 6>>  [] op \in {"*", "/"} -> <<7, 7>>
      [] op = "^"  -> <<10, 9>>         [] op = ".." -> <<5, 4>>
      [] op = "and" -> <<2, 2>>         [] op = "or" -> <<1, 1>>
      [] OTHER -> <<3, 3>>]
UNARY_PRIORITY == 8

\* subexpr -> (simplexep | unop subexpr) { binop subexpr }, where every binop
\* binds more tightly than limit.
subexpr(ls, limit) ==
    LET arg   == subexpr(next(ls), UNARY_PRIORITY)
        first == IF token(ls) \in UnOps THEN WithBoth(arg, luaK_prefix(fs(arg), token(ls), arg.e))
                 ELSE simpleexp(ls)
    IN operators(first, limit)

operators(ls, limit) ==
    LET op  == token(ls)
        lhs == WithBoth(ls, luaK_infix(fs(ls), op, ls.e))
        rhs == subexpr(next(lhs), priority[op][2])
    IN IF op \in DOMAIN priority /\ priority[op][1] > limit
       THEN operators(WithBoth(rhs, luaK_posfix(fs(rhs), op, lhs.e, rhs.e)), limit)
       ELSE ls

-----------------------------------------------------------------------------
(* Statements.                                                              *)

block_follow(tok) == tok \in {"else", "elseif", "end", "until", "<eof>"}

block(ls) ==
    LET c == chunk(enterblock(ls, FALSE))
    IN leaveblock(With(c, Asserted(fs(c), fs(c).bl[Len(fs(c).bl)].breaklist = NO_JUMP)))

\* Mutant: a variable that indexes an earlier target is assigned without a copy.
check_conflict_never(ls, lhs, v) == [ls |-> ls, lhs |-> lhs]

\* An assignment to local v, with the variables lhs before it on the same left
\* hand side: one that is indexed through v gets a copy of it to use.
check_conflict(ls, lhs, v) ==
    LET extra == fs(ls).freereg
        Hit(l) == l.k = "VINDEXED" /\ (l.info = v.info \/ l.aux = v.info)
        Safe(l) == IF l.k # "VINDEXED" THEN l
                   ELSE [l EXCEPT !.info = IF @ = v.info THEN extra ELSE @,
                                  !.aux  = IF @ = v.info THEN extra ELSE @]
    IN IF \E n \in DOMAIN lhs : Hit(lhs[n])
       THEN [ls  |-> With(ls, luaK_reserveregs(luaK_codeABC(fs(ls), "MOVE", extra, v.info, 0), 1)),
             lhs |-> [n \in DOMAIN lhs |-> Safe(lhs[n])]]
       ELSE [ls |-> ls, lhs |-> lhs]

\* Stores the value on top of the stack into each variable, the last one first.
RECURSIVE StoreAll(_, _)
StoreAll(ls, lhs) ==
    IF lhs = << >> THEN ls
    ELSE StoreAll(With(ls, luaK_storevar(fs(ls), lhs[Len(lhs)], init_exp("VNONRELOC", fs(ls).freereg - 1))),
                  SubSeq(lhs, 1, Len(lhs) - 1))

RECURSIVE assignment(_, _)
assignment(ls, lhs) ==
    LET nv    == primaryexp(next(ls))
        conf  == IF nv.e.k = "VLOCAL" THEN check_conflict(nv, lhs, nv.e) ELSE [ls |-> nv, lhs |-> lhs]
        vals  == explist1(check(ls, "="))
        nvars == Len(lhs)
        one   == luaK_setcallreturns(fs(vals.ls), vals.ls.e, 1)
        same  == With(vals.ls, luaK_storevar(one.fs, lhs[nvars], one.e))
        adj   == adjust_assign(vals.ls, nvars, vals.n)
        cut   == IF vals.n > nvars
                 THEN With(adj, [fs(adj) EXCEPT !.freereg = @ - (vals.n - nvars)]) ELSE adj
    IN IF lhs[nvars].k \notin {"VLOCAL", "VUPVAL", "VGLOBAL", "VINDEXED"} THEN syntaxerror(ls)
       ELSE IF token(ls) = "," THEN assignment(conf.ls, Append(conf.lhs, nv.e))
       ELSE IF vals.n = nvars THEN StoreAll(same, SubSeq(lhs, 1, nvars - 1))
       ELSE StoreAll(cut, lhs)

cond(ls) ==
    LET e == expr(ls)
        v == IF e.e.k = "VNIL" THEN [e.e EXCEPT !.k = "VFALSE"] ELSE e.e
        g == luaK_goiftrue(fs(e), v)
    IN WithBoth(e, Both(luaK_patchtohere(g.fs, g.e.t), g.e))

RECURSIVE CodeAll(_, _)
CodeAll(f, is) == IF is = << >> THEN f ELSE CodeAll(luaK_code(f, is[1]), Tail(is))

\* The condition is compiled first and its code moved behind the body.
whilestat(ls0) ==
    LET j     == With(next(ls0), luaK_jump(fs(ls0)))
        whileinit == LastPc(fs(j))
        l     == With(j, luaK_getlabel(fs(j)))
        expinit == Pc(fs(l))
        e     == expr(l)
        g     == luaK_goiffalse(fs(e), IF e.e.k = "VK" THEN [e.e EXCEPT !.k = "VTRUE"] ELSE e.e)
        joined == luaK_concat(g.fs, g.e.f, g.fs.jpc)
        exp   == SubSeq(joined.fs.code, expinit + 1, Pc(joined.fs))
        cut   == With(e, [joined.fs EXCEPT !.jpc = NO_JUMP, !.code = SubSeq(@, 1, expinit)])
        b     == check(enterblock(cut, TRUE), "do")
        lab   == With(b, luaK_getlabel(fs(b)))
        blockinit == Pc(fs(lab))
        bod   == block(lab)
        here  == luaK_patchtohere(fs(bod), whileinit)
        shift == Pc(here) - expinit
        Moved(list) == IF list = NO_JUMP THEN NO_JUMP ELSE list + shift
        out   == leaveblock(check(With(bod, CodeAll(here, exp)), "end"))
    IN With(out, luaK_patchtohere(luaK_patchlist(fs(out), Moved(g.e.t), blockinit), Moved(joined.l)))

\* The variables of the body are out of scope when the condition is compiled.
repeatstat(ls) ==
    LET l == enterblock(With(ls, luaK_getlabel(fs(ls))), TRUE)
        c == cond(check(block(next(l)), "until"))
    IN leaveblock(With(c, luaK_patchlist(fs(c), c.e.f, Pc(fs(ls)))))

exp1(ls) == On(expr(ls), luaK_exp2nextreg)

forbody(ls, base, nvars, isnum) ==
    LET b    == enterblock(check(adjustlocalvars(ls, nvars), "do"), TRUE)
        prep == Pc(fs(b))
        bod  == block(With(b, luaK_getlabel(fs(b))))
        here == luaK_patchtohere(fs(bod), prep - 1)
        loop == IF isnum THEN luaK_codeABx(here, "FORLOOP", base, NO_JUMP)
                ELSE luaK_jump(luaK_codeABC(here, "TFORLOOP", base, 0, nvars - 3))
    IN leaveblock(With(bod, luaK_patchlist(loop, LastPc(loop), prep)))

fornum(ls, varname) ==
    LET base == fs(ls).freereg
        vars == new_localvar(new_localvar(new_localvar(ls, varname, 0), "(for limit)", 1), "(for step)", 2)
        lim  == exp1(check(exp1(check(vars, "=")), ","))
        one  == luaK_numberK(fs(lim), 1)
        step == IF token(lim) = "," THEN exp1(next(lim))
                ELSE With(lim, luaK_reserveregs(luaK_codeABx(one.fs, "LOADK", one.fs.freereg, one.i), 1))
        f    == fs(step)
        sub  == luaK_codeABC(f, "SUB", f.freereg - 3, f.freereg - 3, f.freereg - 1)
    IN forbody(With(step, luaK_jump(sub)), base, 3, TRUE)

RECURSIVE fornames(_, _)
fornames(ls, n) ==
    IF token(ls) # "," THEN [ls |-> ls, n |-> n]
    ELSE IF lookahead(ls) # "name" THEN [ls |-> syntaxerror(ls), n |-> n]
    ELSE fornames(new_localvar(next(next(ls)), seminfo(next(ls)), n), n + 1)

forlist(ls, indexname) ==
    LET base == fs(ls).freereg
        gen  == new_localvar(new_localvar(ls, "(for generator)", 0), "(for state)", 1)
        vars == fornames(new_localvar(gen, indexname, 2), 3)
        vals == explist1(check(vars.ls, "in"))
        adj  == adjust_assign(vals.ls, vars.n, vals.n)
    IN forbody(With(adj, luaK_codeABx(luaK_checkstack(fs(adj), 3), "TFORPREP", base, NO_JUMP)),
               base, vars.n, FALSE)

forstat(ls) ==
    LET b    == next(enterblock(ls, FALSE))
        name == seminfo(b)
        rest == next(b)
    IN IF token(b) # "name" THEN syntaxerror(ls)
       ELSE CASE token(rest) = "=" -> leaveblock(check(fornum(rest, name), "end"))
              [] token(rest) \in {",", "in"} -> leaveblock(check(forlist(rest, name), "end"))
              [] OTHER -> syntaxerror(ls)

\* [IF | ELSEIF] cond THEN block: the jumps taken when cond is false stay in e.f.
test_then_block(ls) ==
    LET c == cond(next(ls)) IN Gives(block(check(c, "then")), c.e)

\* Leaves the arm just compiled, and lets its false jumps come here.
Escape(ls, escapelist) ==
    LET j == luaK_jump(fs(ls))
        r == luaK_concat(j, escapelist, LastPc(j))
    IN [ls |-> With(ls, luaK_patchtohere(r.fs, ls.e.f)), l |-> r.l]

RECURSIVE ifarms(_, _)
ifarms(ls, escapelist) ==
    LET esc  == Escape(ls, escapelist)
        els  == block(next(esc.ls))
        tail == luaK_concat(fs(ls), escapelist, ls.e.f)
    IN CASE token(ls) = "elseif" -> ifarms(test_then_block(esc.ls), esc.l)
         [] token(ls) = "else"   -> With(els, luaK_patchtohere(fs(els), esc.l))
         [] OTHER                -> With(ls, luaK_patchtohere(tail.fs, tail.l))

ifstat(ls) == check(ifarms(test_then_block(ls), NO_JUMP), "end")

\* The function may refer to itself: its variable is in scope before its body.
localfunc(ls) ==
    LET v == init_exp("VLOCAL", fs(ls).freereg)
        n == new_localvar(next(ls), seminfo(ls), 0)
        b == body(adjustlocalvars(With(n, luaK_reserveregs(fs(n), 1)), 1), FALSE)
    IN IF token(ls) # "name" THEN syntaxerror(ls) ELSE With(b, luaK_storevar(fs(b), v, b.e))

RECURSIVE localnames(_, _)
localnames(ls, n) ==
    IF token(ls) # "name" THEN [ls |-> syntaxerror(ls), n |-> n]
    ELSE LET v == new_localvar(next(ls), seminfo(ls), n)
         IN IF token(v) = "," THEN localnames(next(v), n + 1) ELSE [ls |-> v, n |-> n + 1]

localstat(ls) ==
    LET vars == localnames(ls, 0)
        vals == IF token(vars.ls) = "=" THEN explist1(next(vars.ls))
                ELSE [ls |-> Gives(vars.ls, init_exp("VVOID", 0)), n |-> 0]
    IN adjustlocalvars(adjust_assign(vals.ls, vars.n, vals.n), vars.n)

RECURSIVE funcfields(_)
funcfields(ls) ==
    CASE token(ls) = "." -> funcfields(luaY_field(ls))
      [] token(ls) = ":" -> [ls |-> luaY_field(ls), self |-> TRUE]
      [] OTHER           -> [ls |-> ls, self |-> FALSE]

funcstat(ls) ==
    LET n == funcfields(singlevar(next(ls)))
        b == body(n.ls, n.self)
    IN With(b, luaK_storevar(fs(b), n.ls.e, b.e))

exprstat(ls) ==
    LET v == primaryexp(ls)
    IN IF v.e.k = "VCALL" THEN WithBoth(v, luaK_setcallreturns(fs(v), v.e, 0))
       ELSE assignment(v, <<v.e>>)

retstat(ls0) ==
    LET ls   == next(ls0)
        vals == explist1(ls)
        v    == vals.ls
        open == luaK_setcallreturns(fs(v), v.e, LUA_MULTRET).fs
        tail == IF vals.n = 1
                THEN Asserted([open EXCEPT !.code[v.e.info + 1].op = "TAILCALL"],
                              At(open, v.e.info).a = open.nactvar)
                ELSE open
        any  == On(v, luaK_exp2anyreg)
        all  == On(v, luaK_exp2nextreg)
    IN IF block_follow(token(ls)) \/ token(ls) = ";"
       THEN With(ls, luaK_codeABC(fs(ls), "RETURN", 0, 1, 0))
       ELSE IF v.e.k = "VCALL"
       THEN With(v, luaK_codeABC(tail, "RETURN", tail.nactvar, LUA_MULTRET + 1, 0))
       ELSE IF vals.n = 1 THEN With(any, luaK_codeABC(fs(any), "RETURN", any.e.info, 2, 0))
       ELSE With(all, luaK_codeABC(Asserted(fs(all), vals.n = fs(all).freereg - fs(all).nactvar),
                                   "RETURN", fs(all).nactvar, vals.n + 1, 0))

\* Leaves the innermost loop; blocks on the way that hold upvalues are closed.
breakstat(ls0) ==
    LET ls    == next(ls0)
        f     == fs(ls)
        loops == {b \in DOMAIN f.bl : f.bl[b].isbreakable}
        loop  == CHOOSE b \in loops : \A c \in loops : c <= b
        upval == \E b \in loop + 1..Len(f.bl) : f.bl[b].upval
        j     == luaK_jump(IF upval THEN luaK_codeABC(f, "CLOSE", f.bl[loop].nactvar, 0, 0) ELSE f)
        r     == luaK_concat(j, j.bl[loop].breaklist, LastPc(j))
    IN IF loops = {} THEN syntaxerror(ls)
       ELSE With(ls, [r.fs EXCEPT !.bl[loop].breaklist = r.l])

statement(ls) ==
    CASE token(ls) = "if"       -> ifstat(ls)
      [] token(ls) = "while"    -> whilestat(ls)
      [] token(ls) = "do"       -> check(block(next(ls)), "end")
      [] token(ls) = "for"      -> forstat(ls)
      [] token(ls) = "repeat"   -> repeatstat(ls)
      [] token(ls) = "function" -> funcstat(ls)
      [] token(ls) = "local"    -> IF lookahead(ls) = "function" THEN localfunc(next(next(ls)))
                                   ELSE localstat(next(ls))
      [] token(ls) = "return"   -> retstat(ls)
      [] token(ls) = "break"    -> breakstat(ls)
      [] OTHER                  -> exprstat(ls)

\* chunk -> { stat [`;'] }: after each statement only the local variables keep
\* their registers, and a return or break ends the block.
statements(ls, islast) ==
    LET s == testnext(statement(ls), ";")
        f == fs(s)
    IN IF islast \/ block_follow(token(ls)) THEN ls
       ELSE statements(With(s, [Asserted(f, f.freereg >= f.nactvar) EXCEPT !.freereg = f.nactvar]),
                       token(ls) \in {"return", "break"})
chunk(ls) == statements(ls, FALSE)

\* The main function of a program, given as its tokens.
luaY_parser(tokens) ==
    LET ls == chunk(open_func([t |-> tokens, fss |-> << >>, e |-> init_exp("VVOID", 0),
                               done |-> << >>, ups |-> << >>, ok |-> TRUE, err |-> FALSE]))
    IN close_func(IF ls.t = << >> THEN ls ELSE syntaxerror(ls))
=============================================================================
