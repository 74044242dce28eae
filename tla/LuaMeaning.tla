----------------------------- MODULE LuaMeaning -----------------------------
(***************************************************************************)
(* What a Lua 5.0 program means: a direct evaluation of its syntax tree,   *)
(* with variables as boxes and no registers, jumps or code.  It is the     *)
(* reference that LuaCode, LuaParser and LuaVm together have to implement. *)
(*                                                                         *)
(* Expressions: <<"nil">> <<"true">> <<"false">> <<"number", n>>           *)
(*   <<"string", s>> <<"name", x>> <<"paren", e>> <<"bin", op, l, r>>      *)
(*   <<"un", op, e>> <<"index", t, k>> <<"call", f, args>>                 *)
(*   <<"method", o, name, args>> <<"function", params, dots, body>>        *)
(*   <<"table", items>> with items <<"item", e>> and <<"rec", k, e>>       *)
(* Statements: <<"local", names, exps>> <<"assign", vars, exps>>           *)
(*   <<"do", b>> <<"while", c, b>> <<"repeat", b, c>> <<"break">>          *)
(*   <<"if", <<<<c, b>>, ...>>, b>> <<"fornum", x, exps, b>>               *)
(*   <<"forin", names, exps, b>> <<"return", exps>> <<"exp", call>>        *)
(*   <<"localfunction", x, params, dots, b>>                               *)
(*   <<"function", path, method, params, dots, b>>                         *)
(***************************************************************************)
EXTENDS LuaVm

-----------------------------------------------------------------------------
(* From the tree to the tokens, with the parentheses that the precedence of *)
(* the operators asks for: or < and < comparison < .. < + - < * / < not -   *)
(* (unary) < ^, where .. and ^ group to the right.                          *)

Level(op) == CASE op = "or" -> 1 [] op = "and" -> 2 [] op = ".." -> 4 [] op \in {"+", "-"} -> 5
               [] op \in {"*", "/"} -> 6 [] op = "^" -> 8 [] OTHER -> 3
LevelOf(e) == CASE e[1] = "bin" -> Level(e[2]) [] e[1] = "un" -> 7 [] OTHER -> 9

RECURSIVE ExpTokens(_), BlockTokens(_), Listed(_), NameList(_), ItemTokens(_), Arms(_)

Wrapped(e, need) == IF need THEN <<<<"(">>>> \o ExpTokens(e) \o <<<<")">>>> ELSE ExpTokens(e)
Prefix(e)   == Wrapped(e, e[1] \notin {"name", "paren", "index", "call", "method"})
Listed(es)  == IF es = << >> THEN << >>
               ELSE ExpTokens(es[1]) \o (IF Len(es) = 1 THEN << >> ELSE <<<<",">>>> \o Listed(Tail(es)))
NameList(ns) == IF Len(ns) = 1 THEN <<<<"name", ns[1]>>>>
                ELSE <<<<"name", ns[1]>>, <<",">>>> \o NameList(Tail(ns))
Params(ps, dots) ==
    <<<<"(">>>> \o (IF ps = << >> THEN << >> ELSE NameList(ps))
                \o (IF dots THEN IF ps = << >> THEN <<<<"...">>>> ELSE <<<<",">>, <<"...">>>> ELSE << >>)
                \o <<<<")">>>>
ItemTokens(is) ==
    IF is = << >> THEN << >>
    ELSE (IF is[1][1] = "item" THEN ExpTokens(is[1][2])
          ELSE IF is[1][2][1] = "string"
          THEN <<<<"name", is[1][2][2]>>, <<"=">>>> \o ExpTokens(is[1][3])
          ELSE <<<<"[">>>> \o ExpTokens(is[1][2]) \o <<<<"]">>, <<"=">>>> \o ExpTokens(is[1][3]))
         \o <<<<",">>>> \o ItemTokens(Tail(is))

ExpTokens(e) ==
    CASE e[1] \in {"nil", "true", "false", "number", "string", "name"} -> <<e>>
      [] e[1] = "paren" -> Wrapped(e[2], TRUE)
      [] e[1] = "bin" ->
            LET n == Level(e[2])
                right == e[2] \in {"..", "^"}
            IN Wrapped(e[3], LevelOf(e[3]) < n \/ (LevelOf(e[3]) = n /\ right)) \o <<<<e[2]>>>>
               \o Wrapped(e[4], /\ LevelOf(e[4]) <= n
                                /\ ~(LevelOf(e[4]) = n /\ right)
                                /\ e[4][1] # "un")
      [] e[1] = "un" -> <<<<e[2]>>>> \o Wrapped(e[3], LevelOf(e[3]) < 7)
      [] e[1] = "index" -> Prefix(e[2]) \o
            (IF e[3][1] = "string" THEN <<<<".">>, <<"name", e[3][2]>>>>
             ELSE <<<<"[">>>> \o ExpTokens(e[3]) \o <<<<"]">>>>)
      [] e[1] = "call" -> Prefix(e[2]) \o
            (IF Len(e[3]) = 1 /\ e[3][1][1] \in {"string", "table"} THEN ExpTokens(e[3][1])
             ELSE <<<<"(">>>> \o Listed(e[3]) \o <<<<")">>>>)
      [] e[1] = "method" -> Prefix(e[2]) \o <<<<":">>, <<"name", e[3]>>, <<"(">>>> \o Listed(e[4])
                            \o <<<<")">>>>
      [] e[1] = "function" -> <<<<"function">>>> \o Params(e[2], e[3]) \o BlockTokens(e[4]) \o <<<<"end">>>>
      [] e[1] = "table" -> <<<<"{">>>> \o ItemTokens(e[2]) \o <<<<"}">>>>

Arms(as) == IF as = << >> THEN << >>
            ELSE <<<<"elseif">>>> \o ExpTokens(as[1][1]) \o <<<<"then">>>> \o BlockTokens(as[1][2])
                 \o Arms(Tail(as))
RECURSIVE Path(_, _)
Path(ns, method) == <<<<"name", ns[1]>>>> \o
    (IF Len(ns) = 1 THEN << >>
     ELSE <<<<IF Len(ns) = 2 /\ method THEN ":" ELSE ".">>>> \o Path(Tail(ns), method))

StatTokens(st) ==
    CASE st[1] = "local" -> <<<<"local">>>> \o NameList(st[2]) \o
                            (IF st[3] = << >> THEN << >> ELSE <<<<"=">>>> \o Listed(st[3]))
      [] st[1] = "assign" -> Listed(st[2]) \o <<<<"=">>>> \o Listed(st[3])
      [] st[1] = "do" -> <<<<"do">>>> \o BlockTokens(st[2]) \o <<<<"end">>>>
      [] st[1] = "while" -> <<<<"while">>>> \o ExpTokens(st[2]) \o <<<<"do">>>> \o BlockTokens(st[3])
                            \o <<<<"end">>>>
      [] st[1] = "repeat" -> <<<<"repeat">>>> \o BlockTokens(st[2]) \o <<<<"until">>>> \o ExpTokens(st[3])
      [] st[1] = "break" -> <<<<"break">>>>
      [] st[1] = "if" -> <<<<"if">>>> \o Tail(Arms(st[2]))
                         \o (IF st[3] = << >> THEN << >> ELSE <<<<"else">>>> \o BlockTokens(st[3]))
                         \o <<<<"end">>>>
      [] st[1] = "fornum" -> <<<<"for">>, <<"name", st[2]>>, <<"=">>>> \o Listed(st[3]) \o <<<<"do">>>>
                             \o BlockTokens(st[4]) \o <<<<"end">>>>
      [] st[1] = "forin" -> <<<<"for">>>> \o NameList(st[2]) \o <<<<"in">>>> \o Listed(st[3])
                            \o <<<<"do">>>> \o BlockTokens(st[4]) \o <<<<"end">>>>
      [] st[1] = "return" -> <<<<"return">>>> \o Listed(st[2])
      [] st[1] = "exp" -> ExpTokens(st[2])
      [] st[1] = "localfunction" -> <<<<"local">>, <<"function">>, <<"name", st[2]>>>>
                                    \o Params(st[3], st[4]) \o BlockTokens(st[5]) \o <<<<"end">>>>
      [] st[1] = "function" -> <<<<"function">>>> \o Path(st[2], st[3]) \o Params(st[4], st[5])
                               \o BlockTokens(st[6]) \o <<<<"end">>>>
BlockTokens(b) == IF b = << >> THEN << >> ELSE StatTokens(b[1]) \o BlockTokens(Tail(b))

-----------------------------------------------------------------------------
(* The world: boxes of variables, tables, closures, what was emitted.       *)

W0(globals) == [box |-> << >>, tab |-> <<[kv |-> globals, meta |-> 0]>>, clo |-> << >>, out |-> << >>,
                err |-> FALSE]
Is(w, v)  == [w |-> w, v |-> v]              \* a world and one value
Are(w, vs) == [w |-> w, v |-> vs]            \* a world and a sequence of values
Fault(w)  == [w EXCEPT !.err = TRUE]
First(r)  == Is(r.w, IF r.v = << >> THEN Nil ELSE r.v[1])
Meta(w, v, event) == IF v[1] # "tab" \/ w.tab[v[2]].meta = 0 THEN Nil
                     ELSE Get(w.tab[w.tab[v[2]].meta].kv, Str(event))

RECURSIVE Apply(_, _, _), Ev(_, _, _), EvList(_, _, _), Exec(_, _, _), Loop(_, _, _, _), ForNum(_, _, _, _, _, _, _),
          ForIn(_, _, _, _, _, _, _, _), Index(_, _, _, _), SetIndex(_, _, _, _, _), Items(_, _, _, _, _),
          LValues(_, _, _, _), Assigned(_, _, _, _), Chain(_, _, _, _)

\* Access and assignment, through as many tag methods as are allowed.
Index(w, t, k, loop) ==
    LET m == Meta(w, t, "__index")
    IN IF loop > MAXTAGLOOP THEN Is(Fault(w), Nil)
       ELSE IF t[1] = "tab" /\ Get(w.tab[t[2]].kv, k) # Nil THEN Is(w, Get(w.tab[t[2]].kv, k))
       ELSE IF m = Nil THEN IF t[1] = "tab" THEN Is(w, Nil) ELSE Is(Fault(w), Nil)
       ELSE IF ttisfunction(m) THEN First(Apply(w, m, <<t, k>>))
       ELSE Index(w, m, k, loop + 1)
SetIndex(w, t, k, v, loop) ==
    LET m == Meta(w, t, "__newindex")
    IN IF w.err THEN w
       ELSE IF loop > MAXTAGLOOP \/ (t[1] = "tab" /\ k = Nil) THEN Fault(w)
       ELSE IF t[1] = "tab" /\ (m = Nil \/ Get(w.tab[t[2]].kv, k) # Nil)
       THEN [w EXCEPT !.tab[t[2]].kv = Put(@, k, v)]
       ELSE IF m = Nil THEN Fault(w)
       ELSE IF ttisfunction(m) THEN Apply(w, m, <<t, k, v>>).w
       ELSE SetIndex(w, m, k, v, loop + 1)

Binary(w, x, y, event) ==
    LET m == IF Meta(w, x, event) # Nil THEN Meta(w, x, event) ELSE Meta(w, y, event)
    IN IF ttisfunction(m) THEN First(Apply(w, m, <<x, y>>)) ELSE Is(Fault(w), Nil)
Ordered(w, x, y, event) == Meta(w, x, event) # Nil /\ Meta(w, x, event) = Meta(w, y, event)
Truth(r, b) == Is(r.w, Bool(l_isfalse(r.v) # b))
Opcode == [op \in {"+", "-", "*", "/", "^"} |->
             CASE op = "+" -> "ADD" [] op = "-" -> "SUB" [] op = "*" -> "MUL" [] op = "/" -> "DIV"
               [] op = "^" -> "POW"]

Operate(w, op, x, y) ==
    LET nums == x[1] = "num" /\ y[1] = "num"
        eq   == IF x = y \/ ~(x[1] = "tab" /\ y[1] = "tab") \/ ~Ordered(w, x, y, "__eq")
                THEN Is(w, Bool(x = y)) ELSE Truth(First(Apply(w, Meta(w, x, "__eq"), <<x, y>>)), TRUE)
        lt(p, q) == IF nums THEN Is(w, Bool(p[2] < q[2]))
                    ELSE IF Ordered(w, p, q, "__lt")
                    THEN Truth(First(Apply(w, Meta(w, p, "__lt"), <<p, q>>)), TRUE) ELSE Is(Fault(w), Nil)
        le(p, q) == IF nums THEN Is(w, Bool(p[2] <= q[2]))
                    ELSE IF Ordered(w, p, q, "__le")
                    THEN Truth(First(Apply(w, Meta(w, p, "__le"), <<p, q>>)), TRUE)
                    ELSE LET r == lt(q, p) IN IF r.w.err THEN r ELSE Is(r.w, Bool(l_isfalse(r.v)))
    IN CASE w.err -> Is(w, Nil)
         [] op \in DOMAIN Opcode ->
               IF nums THEN Is(w, Num(Arith(Opcode[op], x[2], y[2])))
               ELSE Binary(w, x, y, TagOf[Opcode[op]])
         [] op = ".." -> IF IsText(x) /\ IsText(y) THEN Is(w, Str(luaV_tostring(x) \o luaV_tostring(y)))
                         ELSE Binary(w, x, y, "__concat")
         [] op = "==" -> eq
         [] op = "~=" -> IF eq.w.err THEN eq ELSE Is(eq.w, Bool(l_isfalse(eq.v)))
         [] op = "<" -> lt(x, y) [] op = ">" -> lt(y, x)
         [] op = "<=" -> le(x, y) [] op = ">=" -> le(y, x)

\* A chain a .. b .. c: all operands first, then the operations from the right.
Chain(w, vs, n, acc) == IF n = 0 THEN Is(w, acc)
                        ELSE LET r == Operate(w, "..", vs[n], acc) IN Chain(r.w, vs, n - 1, r.v)
RECURSIVE Operands(_)
Operands(e) == IF e[1] = "bin" /\ e[2] = ".." THEN <<<<"paren", e[3]>>>> \o Operands(e[4]) ELSE <<<<"paren", e>>>>

NewBoxes(w, vs) == [w EXCEPT !.box = @ \o vs]
Bind(env, names, first) == [x \in {names[n] : n \in DOMAIN names} |->
    first - 1 + (CHOOSE n \in DOMAIN names : names[n] = x /\ \A m \in DOMAIN names : names[m] = x => m <= n)] @@ env

\* Calls a function: its values, or those of the C function.
Apply(w, f, args) ==
    LET arg(n) == IF n <= Len(args) THEN args[n] ELSE Nil
        m    == Meta(w, f, "__call")
        c    == w.clo[f[2]]
        np   == Len(c.params)
        rest == SubSeq(args, np + 1, Len(args))
        kv   == [k \in {Num(n) : n \in {n \in DOMAIN rest : rest[n] # Nil}} |-> rest[k[2]]]
                   @@ (Str("n") :> Num(Len(rest)))
        w1   == IF c.dots THEN [w EXCEPT !.tab = Append(@, [kv |-> kv, meta |-> 0])] ELSE w
        vs   == Adjust(args, np) \o (IF c.dots THEN <<<<"tab", Len(w1.tab)>>>> ELSE << >>)
        ns   == IF c.dots THEN Append(c.params, "arg") ELSE c.params
        r    == Exec(NewBoxes(w1, vs), c.body, Bind(c.env, ns, Len(w.box) + 1))
    IN CASE w.err -> Are(w, << >>)
         [] ~ttisfunction(f) -> IF ttisfunction(m) THEN Apply(w, m, <<f>> \o args) ELSE Are(Fault(w), << >>)
         [] f[1] = "fn" -> Are(r.w, IF r.ctl = "return" THEN r.v ELSE << >>)
         [] f[2] = "emit" -> Are([w EXCEPT !.out = Append(@, args)], args)
         [] f[2] = "next" -> IF arg(1)[1] # "tab" THEN Are(Fault(w), << >>)
                             ELSE Are(w, luaH_next(w.tab[arg(1)[2]].kv, arg(2)))
         [] f[2] = "setmetatable" ->
               Are([w EXCEPT !.tab[arg(1)[2]].meta = IF arg(2) = Nil THEN 0 ELSE arg(2)[2]], <<arg(1)>>)

\* Every value of an expression (a call may have none or many).
Ev(w, e, env) ==
    LET one(x) == First(Ev(w, x, env))
        a  == one(e[3])
        b  == First(Ev(a.w, e[4], env))
        t  == one(e[2])
        k  == First(Ev(t.w, e[3], env))
        as == EvList(t.w, e[3], env)
        o  == Index(t.w, t.v, Str(e[3]), 0)
        ms == EvList(o.w, e[4], env)
        op == Operate(b.w, e[2], a.v, b.v)
        cs == LET es == Operands(e) IN EvList(w, es, env)
        ch == Chain(cs.w, cs.v, Len(cs.v) - 1, cs.v[Len(cs.v)])
        ix == Index(k.w, t.v, k.v, 0)
        gl == Index(w, <<"tab", Globals>>, Str(e[2]), 0)
        One(r) == Are(r.w, <<r.v>>)
    IN CASE w.err -> Are(w, << >>)
         [] e[1] = "nil" -> Are(w, <<Nil>>)
         [] e[1] = "true" -> Are(w, <<Bool(TRUE)>>)
         [] e[1] = "false" -> Are(w, <<Bool(FALSE)>>)
         [] e[1] = "number" -> Are(w, <<Num(e[2])>>)
         [] e[1] = "string" -> Are(w, <<Str(e[2])>>)
         [] e[1] = "name" -> IF e[2] \in DOMAIN env THEN Are(w, <<w.box[env[e[2]]]>>) ELSE One(gl)
         [] e[1] = "paren" -> One(one(e[2]))
         [] e[1] = "bin" /\ e[2] = "and" -> IF l_isfalse(a.v) THEN One(a) ELSE One(b)
         [] e[1] = "bin" /\ e[2] = "or"  -> IF l_isfalse(a.v) THEN One(b) ELSE One(a)
         [] e[1] = "bin" /\ e[2] = ".." -> IF cs.w.err THEN Are(cs.w, << >>) ELSE One(ch)
         [] e[1] = "bin" -> One(op)
         [] e[1] = "un" /\ e[2] = "not" -> Are(a.w, <<Bool(l_isfalse(a.v))>>)
         [] e[1] = "un" -> IF a.w.err THEN Are(a.w, << >>)
                           ELSE IF a.v[1] = "num" THEN Are(a.w, <<Num(-a.v[2])>>)
                           ELSE One(Binary(a.w, a.v, Nil, "__unm"))
         [] e[1] = "index" -> IF k.w.err THEN Are(k.w, << >>) ELSE One(ix)
         [] e[1] = "call" -> Apply(as.w, t.v, as.v)
         [] e[1] = "method" -> IF o.w.err THEN Are(o.w, << >>) ELSE Apply(ms.w, o.v, <<t.v>> \o ms.v)
         [] e[1] = "function" -> Are([w EXCEPT !.clo = Append(@, [params |-> e[2], dots |-> e[3],
                                                               body |-> e[4], env |-> env])],
                                     <<<<"fn", Len(w.clo) + 1>>>>)
         [] e[1] = "table" -> Items([w EXCEPT !.tab = Append(@, [kv |-> << >>, meta |-> 0])], e[2], env,
                                    Len(w.tab) + 1, 1)

\* The values of a list: one for each expression but the last, all of the last.
EvList(w, es, env) ==
    LET r == Ev(w, es[1], env)
        f == First(r)
        t == EvList(f.w, Tail(es), env)
    IN IF es = << >> THEN Are(w, << >>) ELSE IF Len(es) = 1 THEN r ELSE Are(t.w, <<f.v>> \o t.v)

\* The items of a constructor, list items from index n on.
Items(w, is, env, id, n) ==
    LET rec == is[1][1] = "rec"
        k   == IF rec THEN First(Ev(w, is[1][2], env)) ELSE Is(w, Num(n))
        r   == Ev(k.w, IF rec THEN is[1][3] ELSE is[1][2], env)
        open == ~rec /\ Len(is) = 1
        vs  == IF open THEN r.v ELSE <<First(r).v>>
        keys == [m \in DOMAIN vs |-> IF rec THEN k.v ELSE Num(n + m - 1)]
        kv  == [x \in {keys[m] : m \in {m \in DOMAIN vs : vs[m] # Nil}} |-> vs[CHOOSE m \in DOMAIN vs : keys[m] = x]]
    IN IF is = << >> \/ w.err THEN Are(w, <<<<"tab", id>>>>)
       ELSE IF r.w.err \/ k.v = Nil THEN Are(Fault(r.w), << >>)
       ELSE Items([r.w EXCEPT !.tab[id].kv = kv @@ @], Tail(is), env, id, IF rec THEN n ELSE n + 1)

\* What the variables on a left hand side stand for, and values stored there.
LValues(w, vars, env, acc) ==
    LET v == vars[1]
        t == First(Ev(w, v[2], env))
        k == First(Ev(t.w, v[3], env))
    IN IF vars = << >> THEN Are(w, acc)
       ELSE IF v[1] = "name" THEN LValues(w, Tail(vars), env, Append(acc, v))
       ELSE LValues(k.w, Tail(vars), env, Append(acc, <<"index", t.v, k.v>>))
Assigned(w, lvs, vs, env) ==
    LET n == Len(lvs)
        v == lvs[n]
        w1 == CASE w.err -> w
                [] v[1] = "name" /\ v[2] \in DOMAIN env -> [w EXCEPT !.box[env[v[2]]] = vs[n]]
                [] v[1] = "name" -> SetIndex(w, <<"tab", Globals>>, Str(v[2]), vs[n], 0)
                [] OTHER -> SetIndex(w, v[2], v[3], vs[n], 0)
    IN IF n = 0 THEN w ELSE Assigned(w1, SubSeq(lvs, 1, n - 1), vs, env)

-----------------------------------------------------------------------------
(* Statements: how a block ends is "go", "break" or "return" with values.   *)

Ends(w, ctl, v) == [w |-> w, ctl |-> ctl, v |-> v]
Cond(w, c, env) == First(Ev(w, c, env))
NextStat(r, b, env) == IF r.w.err \/ r.ctl # "go" THEN r ELSE Exec(r.w, Tail(b), env)
AfterLoop(r) == IF r.ctl = "break" THEN Ends(r.w, "go", << >>) ELSE r

Loop(w, c, b, env) ==
    LET v == Cond(w, c, env)
        r == Exec(v.w, b, env)
    IN IF v.w.err \/ l_isfalse(v.v) THEN Ends(v.w, "go", << >>)
       ELSE IF r.w.err \/ r.ctl # "go" THEN AfterLoop(r) ELSE Loop(r.w, c, b, env)
RECURSIVE Until(_, _, _, _)
Until(w, c, b, env) ==
    LET r == Exec(w, b, env)
        v == Cond(r.w, c, env)
    IN IF r.w.err \/ r.ctl # "go" THEN AfterLoop(r)
       ELSE IF v.w.err \/ ~l_isfalse(v.v) THEN Ends(v.w, "go", << >>) ELSE Until(v.w, c, b, env)
ForNum(w, x, idx, lim, step, b, env) ==
    LET r == Exec([w EXCEPT !.box[env[x]] = Num(idx)], b, env)
    IN IF (step > 0 /\ idx > lim) \/ (step <= 0 /\ idx < lim) THEN Ends(w, "go", << >>)
       ELSE IF r.w.err \/ r.ctl # "go" THEN AfterLoop(r)
       ELSE ForNum(r.w, x, idx + step, lim, step, b, env)
ForIn(w, f, st, ctl, first, n, b, env) ==
    LET c == Apply(w, f, <<st, ctl>>)
        vs == Adjust(c.v, n)
        r == Exec([c.w EXCEPT !.box = [m \in DOMAIN @ |-> IF m \in first..first + n - 1 THEN vs[m - first + 1]
                                                       ELSE @[m]]], b, env)
    IN IF c.w.err \/ vs[1] = Nil THEN Ends(c.w, "go", << >>)
       ELSE IF r.w.err \/ r.ctl # "go" THEN AfterLoop(r)
       ELSE ForIn(r.w, f, st, r.w.box[first], first, n, b, env)

RECURSIVE IfArms(_, _, _, _)
IfArms(w, arms, else, env) ==
    LET v == Cond(w, arms[1][1], env)
    IN IF arms = << >> THEN Exec(w, else, env)
       ELSE IF v.w.err THEN Ends(v.w, "go", << >>)
       ELSE IF ~l_isfalse(v.v) THEN Exec(v.w, arms[1][2], env) ELSE IfArms(v.w, Tail(arms), else, env)

RECURSIVE PathExp(_)
PathExp(ns) == IF Len(ns) = 1 THEN <<"name", ns[1]>>
               ELSE <<"index", PathExp(SubSeq(ns, 1, Len(ns) - 1)), <<"string", ns[Len(ns)]>>>>

Exec(w, b, env) ==
    LET st    == b[1]
        n     == Len(w.box) + 1
        vals  == EvList(w, st[3], env)
        locs  == NewBoxes(vals.w, Adjust(vals.v, Len(st[2])))
        lvs   == LValues(w, st[2], env, << >>)
        rhs   == EvList(lvs.w, st[3], env)
        lim   == EvList(w, st[3], env)
        step  == IF Len(lim.v) >= 3 THEN lim.v[3] ELSE Num(1)
        nums  == \A v \in {lim.v[1], lim.v[2], step} : v[1] = "num"
        gen   == Adjust(lim.v, 2 + Len(st[2]))
        tabl  == gen[1][1] = "tab"
        ret   == EvList(w, st[2], env)
        call  == Ev(w, st[2], env)
        fn    == Ev(NewBoxes(w, <<Nil>>), <<"function", st[3], st[4], st[5]>>, Bind(env, <<st[2]>>, n))
        gfn   == <<"function", IF st[3] THEN <<"self">> \o st[4] ELSE st[4], st[5], st[6]>>
    IN CASE b = << >> \/ w.err -> Ends(w, "go", << >>)
         [] st[1] = "local" -> Exec(locs, Tail(b), Bind(env, st[2], Len(vals.w.box) + 1))
         [] st[1] = "localfunction" ->
               Exec([fn.w EXCEPT !.box[n] = fn.v[1]], Tail(b), Bind(env, <<st[2]>>, n))
         [] st[1] = "assign" ->
               NextStat(Ends(Assigned(rhs.w, lvs.v, Adjust(rhs.v, Len(st[2])), env), "go", << >>), b, env)
         [] st[1] = "function" -> Exec(w, <<<<"assign", <<PathExp(st[2])>>, <<gfn>>>>>> \o Tail(b), env)
         [] st[1] = "do" -> NextStat(Exec(w, st[2], env), b, env)
         [] st[1] = "while" -> NextStat(Loop(w, st[2], st[3], env), b, env)
         [] st[1] = "repeat" -> NextStat(Until(w, st[3], st[2], env), b, env)
         [] st[1] = "break" -> Ends(w, "break", << >>)
         [] st[1] = "if" -> NextStat(IfArms(w, st[2], st[3], env), b, env)
         [] st[1] = "fornum" ->
               IF lim.w.err \/ ~nums THEN Ends(Fault(lim.w), "go", << >>)
               ELSE NextStat(ForNum(NewBoxes(lim.w, <<lim.v[1]>>), st[2], lim.v[1][2], lim.v[2][2], step[2], st[4],
                                    Bind(env, <<st[2]>>, Len(lim.w.box) + 1)), b, env)
         [] st[1] = "forin" ->
               IF lim.w.err THEN Ends(lim.w, "go", << >>)
               ELSE NextStat(ForIn(NewBoxes(lim.w, SubSeq(gen, 3, Len(gen))),
                                   IF tabl THEN <<"cfn", "next">> ELSE gen[1],
                                   IF tabl THEN gen[1] ELSE gen[2], gen[3],
                                   Len(lim.w.box) + 1, Len(st[2]), st[4],
                                   Bind(env, st[2], Len(lim.w.box) + 1)), b, env)
         [] st[1] = "return" -> Ends(ret.w, "return", ret.v)
         [] st[1] = "exp" -> NextStat(Ends(call.w, "go", << >>), b, env)

\* What a program emits and returns, and whether it fails.
Meaning(b, globals) ==
    LET r == Exec(W0(globals), b, << >>)
    IN [out |-> r.w.out, err |-> r.w.err, ret |-> IF r.ctl = "return" /\ ~r.w.err THEN r.v ELSE << >>]
=============================================================================
