---------------------------- MODULE MCLuaProgram ----------------------------
(***************************************************************************)
(* The programs that TLC runs: all expressions up to a depth, in every     *)
(* context that compiles a value differently, and programs for the         *)
(* statements, closures, calls and tag methods.                            *)
(***************************************************************************)
EXTENDS LuaProgram

N(n) == <<"number", n>>
S(x) == <<"string", x>>
V(x) == <<"name", x>>
NIL == <<"nil">>
F(x, es)   == <<"call", V(x), es>>
E(es)      == F("emit", es)
Do(x, es)  == <<"exp", F(x, es)>>
Em(es)     == Do("emit", es)
B(op, l, r) == <<"bin", op, l, r>>
Not(e)     == <<"un", "not", e>>
At2(t, k)  == <<"index", t, k>>
Local(x, e) == <<"local", <<x>>, <<e>>>>
Set(x, e)  == <<"assign", <<V(x)>>, <<e>>>>
Fun(ps, b) == <<"function", ps, FALSE, b>>
Ret(es)    == <<"return", es>>
Tab(is)    == <<"table", is>>
It(e)      == <<"item", e>>
Rec(k, e)  == <<"rec", k, e>>
While(c, b) == <<"while", c, b>>
If(c, b, d) == <<"if", <<<<c, b>>>>, d>>
Break      == <<"break">>

-----------------------------------------------------------------------------
(* Expressions, over a local with a number, a local with nil, and calls.    *)

Leaves == {NIL, N(1), V("a"), V("b"), E(<<N(2)>>)}
Ops    == {"and", "or", "==", "<", "+", ".."}
Depth1 == {B(op, l, r) : op \in Ops, l \in Leaves, r \in Leaves} \cup {<<"un", op, e>> : op \in UnOps, e \in Leaves}
Tests  == {B(op, l, r) : op \in {"and", "or"}, l \in {NIL, V("a"), V("b"), E(<<N(2)>>)}, r \in {N(1), V("b")}}
          \cup {B("<", V("a"), N(2)), B("~=", V("a"), N(3)), B(">=", N(2), V("a")), Not(V("b")), Not(E(<<NIL>>))}
Tests2 == {B(op, l, r) : op \in {"and", "or"}, l \in Tests, r \in Tests}
          \cup {Not(t) : t \in Tests} \cup {B("==", t, NIL) : t \in Tests}
Mixed  == {B(o, B(p, V("a"), N(2)), B(q, N(3), E(<<N(4)>>))) :
              o, p, q \in {"+", "-", "*", "/", "^", "..", "<", ">="}}
          \cup {B(o, <<"un", "-", V("a")>>, <<"un", "-", N(2)>>) : o \in {"+", "^", "*", ">"}}

Start == <<"local", <<"a", "b">>, <<N(3)>>>>
Returned1(e) == <<Start, Ret(<<e>>)>>
Contexts(e) ==
    { <<Start, If(e, <<Em(<<N(1)>>)>>, <<Em(<<N(0)>>)>>)>>,
      <<Start, While(e, <<Em(<<N(1)>>), <<"assign", <<V("a"), V("b")>>, <<NIL, NIL>>>>,
                          If(V("c"), <<Break>>, << >>), Set("c", N(1))>>)>>,
      <<Start, <<"repeat", <<Em(<<V("a")>>), If(B("==", V("b"), N(1)), <<Break>>, << >>), Set("b", N(1))>>, e>>>>,
      <<Start, Local("c", e), Em(<<V("c"), Tab(<<It(e)>>)>>), Set("b", e), Ret(<<V("b"), e>>)>>,
      <<Start, Set("a", Not(e)), Ret(<<V("a"), At2(Tab(<<Rec(N(1), e)>>), N(1))>>)>> }

-----------------------------------------------------------------------------
(* Statements.                                                              *)

\* Closures made in a loop share a variable with the loop, but not with each other.
Closures ==
    << Local("t", Tab(<< >>)),
       <<"fornum", "i", <<N(1), N(2)>>,
         << Local("x", B("*", V("i"), N(10))),
            <<"assign", <<At2(V("t"), V("i"))>>,
                <<Fun(<<"d">>, <<Set("x", B("+", V("x"), V("d"))), Ret(<<V("x")>>)>>)>>>> >>>>,
       Em(<<<<"call", At2(V("t"), N(1)), <<N(1)>>>>, <<"call", At2(V("t"), N(1)), <<N(1)>>>>,
            <<"call", At2(V("t"), N(2)), <<N(5)>>>>>>) >>
\* Two closures over one variable, which lives on after its block and after a break.
Shared ==
    << <<"local", <<"g", "h">>, << >>>>,
       While(<<"true">>,
         << Local("y", N(1)),
            Set("g", Fun(<< >>, <<Set("y", B("+", V("y"), N(1)))>>)),
            Set("h", Fun(<< >>, <<Ret(<<V("y")>>)>>)),
            <<"do", <<Local("z", V("y")), If(V("z"), <<Do("g", << >>), Break>>, << >>)>>>>,
            Em(<<N(99)>>) >>),
       Local("w", N(7)), Do("g", << >>), Ret(<<F("h", << >>), V("w")>>) >>
Deep ==    \* upvalues of upvalues, and a local function that calls itself
    << Local("n", N(0)),
       <<"localfunction", "f", <<"k">>, FALSE,
          << Set("n", B("+", V("n"), N(1))),
             If(B("<=", V("k"), N(0)), <<Ret(<<N(0)>>)>>, << >>),
             Local("g", Fun(<< >>, <<Set("n", B("+", V("n"), V("k"))), Ret(<<V("k")>>)>>)),
             Ret(<<B("+", F("g", << >>), F("f", <<B("-", V("k"), N(1))>>))>>) >>>>,
       Ret(<<F("f", <<N(2)>>), V("n")>>) >>
Captured ==  \* the variable in the higher register is captured first, and its block left first
    << Local("x", N(1)),
       <<"do", << Local("y", N(2)), Set("f", Fun(<< >>, <<Set("y", B("+", V("y"), V("x"))), Ret(<<V("y")>>)>>)),
                  Set("g", Fun(<< >>, <<Set("x", B("*", V("x"), N(3))), Ret(<<V("x")>>)>>)), Do("f", << >>) >>>>,
       Local("z", N(50)), Set("h", Fun(<< >>, <<Ret(<<V("z"), V("x")>>)>>)), Do("g", << >>), Set("x", N(8)),
       Ret(<<F("f", << >>), F("g", << >>), V("x"), F("h", << >>)>>) >>
TailCalls ==
    << <<"localfunction", "f", <<"k", "acc">>, FALSE,
          << Local("x", V("k")),
             Local("g", Fun(<< >>, <<Ret(<<V("x")>>)>>)),
             If(B("==", V("k"), N(0)), <<Ret(<<E(<<V("acc"), F("g", << >>)>>)>>)>>, << >>),
             Ret(<<F("f", <<B("-", V("k"), N(1)), B("+", V("acc"), F("g", << >>))>>)>>) >>>>,
       Ret(<<F("f", <<N(2), N(0)>>)>>) >>
Conflict ==   \* the variables of a left hand side that index other targets
    << <<"local", <<"i", "t">>, <<N(1), Tab(<<It(N(5)), It(N(6))>>)>>>>,
       Local("u", V("t")),
       <<"assign", <<V("i"), At2(V("t"), V("i"))>>, <<B("+", V("i"), N(1)), N(20)>>>>,
       Em(<<V("i"), At2(V("t"), N(1)), At2(V("t"), N(2))>>),
       <<"assign", <<At2(V("t"), V("i")), V("i"), V("t")>>, <<N(8), N(3), N(4)>>>>,
       Em(<<V("i"), V("t"), At2(V("u"), N(1)), At2(V("u"), N(2))>>),
       <<"assign", <<V("i"), V("t")>>, <<V("t"), V("i")>>>>,
       Ret(<<V("i"), V("t")>>) >>
Adjusted ==   \* more and fewer values than variables, open calls, parentheses
    << <<"local", <<"x", "y", "z">>, <<E(<<N(1), N(2)>>)>>>>,
       Em(<<V("x"), V("y"), V("z")>>),
       <<"assign", <<V("x"), V("y"), V("q")>>, <<N(4), E(<<N(5), N(6), N(7)>>)>>>>,
       <<"assign", <<V("z")>>, <<N(8), E(<<N(9)>>), N(10)>>>>,
       Em(<<V("x"), V("y"), V("z"), V("q")>>),
       Em(<<E(<<N(1), N(2)>>), E(<<N(3), N(4)>>)>>),
       Em(<<<<"paren", E(<<N(1), N(2)>>)>>>>),
       <<"local", <<"p", "o">>, <<N(1), N(2), N(3)>>>>,
       Ret(<<V("p"), V("o"), E(<<V("q"), NIL>>)>>) >>
Constructors ==
    << Local("t", Tab(<<It(N(1)), Rec(S("k"), N(2)), It(N(3)), It(V("u")), It(N(5)), Rec(N(9), E(<<N(6)>>)),
                        It(E(<<N(7), N(8)>>))>>)),
       Em(<<At2(V("t"), N(1)), At2(V("t"), N(2)), At2(V("t"), N(3)), At2(V("t"), N(4))>>),
       Em(<<At2(V("t"), N(5)), At2(V("t"), N(6)), At2(V("t"), N(9)), At2(V("t"), S("k"))>>),
       Ret(<<At2(Tab(<<It(N(1)), It(N(2)), It(N(3))>>), N(3)), At2(Tab(<<It(E(<<N(7)>>)), It(E(<< >>))>>), N(2))>>) >>
Methods ==
    << Set("o", Tab(<<Rec(S("v"), N(3)), Rec(S("in"), Tab(<< >>))>>)),
       <<"function", <<"o", "m">>, TRUE, <<"d">>, TRUE,
          <<Ret(<<At2(V("self"), S("v")), V("d"), At2(V("arg"), S("n")), At2(V("arg"), N(2))>>)>>>>,
       <<"function", <<"o", "in", "f">>, FALSE, << >>, TRUE, <<Ret(<<At2(V("arg"), S("n"))>>)>>>>,
       Em(<<<<"method", V("o"), "m", <<N(1), N(7), N(8)>>>>>>),
       Em(<<<<"method", V("o"), "m", << >>>>, <<"call", At2(At2(V("o"), S("in")), S("f")), <<S("x")>>>>>>),
       <<"function", <<"gf">>, FALSE, <<"s">>, FALSE, <<Ret(<<B("..", V("s"), B("..", N(1), S("z")))>>)>>>>,
       Ret(<<F("gf", <<S("y")>>)>>) >>
ForLoops ==
    << <<"fornum", "i", <<N(3), N(1), <<"un", "-", N(1)>>>>,
           <<If(B("==", V("i"), N(2)), <<Em(<<V("i")>>)>>, << >>), Em(<<V("i")>>)>>>>,
       <<"fornum", "i", <<N(1), N(0)>>, <<Em(<<V("i")>>)>>>>,
       <<"forin", <<"k", "v">>, <<Tab(<<It(N(5)), It(N(6))>>)>>, <<Em(<<V("k"), V("v")>>)>>>>,
       <<"forin", <<"k">>, <<Fun(<<"s", "c">>, <<If(B("<", V("c"), V("s")), <<Ret(<<B("+", V("c"), N(1)), N(9)>>)>>, << >>)>>),
                             N(2), N(0)>>,
           <<Em(<<V("k")>>), If(B("==", V("k"), N(5)), <<Break>>, << >>)>>>>,
       <<"forin", <<"a", "b", "c">>, <<V("next"), Tab(<<It(N(1))>>)>>, <<Em(<<V("a"), V("b"), V("c")>>), Break>>>>,
       Ret(<<N(1)>>) >>
Loops ==
    << <<"local", <<"i", "a">>, <<N(0)>>>>,
       While(B("and", B("<", V("i"), N(4)), B("or", V("a"), B("<", V("i"), N(2)))),
         << Set("i", B("+", V("i"), N(1))),
            <<"if", << <<B("==", V("i"), N(1)), <<Em(<<N(1)>>)>>>>,
                       <<B("and", V("a"), B(">", V("i"), N(2))), <<Em(<<N(2)>>), Break>>>>,
                       <<B("or", V("a"), B("~=", V("i"), N(2))), <<Em(<<N(3)>>)>>>> >>,
               <<Set("a", N(1)), Em(<<N(4)>>)>>>> >>),
       <<"repeat", << Local("k", V("i")), Set("h", Fun(<< >>, <<Ret(<<V("k")>>)>>)),
                      If(B("==", V("i"), N(5)), <<Break>>, << >>), Set("i", B("+", V("i"), N(1))) >>,
                   B(">", V("i"), N(9))>>,
       Ret(<<V("i"), F("h", << >>)>>) >>
TagMethods ==
    << Local("m", Tab(<< >>)), Local("p", F("setmetatable", <<Tab(<<Rec(S("v"), N(1))>>), V("m")>>)),
       Local("q", F("setmetatable", <<Tab(<< >>), V("m")>>)),
       Em(<<At2(V("p"), S("w")), B("==", V("p"), V("q"))>>),
       Set("f", Fun(<<"x", "y", "z">>, <<Em(<<V("z")>>), Ret(<<N(5)>>)>>)),
       <<"assign", <<At2(V("m"), S("__index")), At2(V("m"), S("__newindex")), At2(V("m"), S("__eq")),
                     At2(V("m"), S("__add")), At2(V("m"), S("__lt")), At2(V("m"), S("__concat")),
                     At2(V("m"), S("__call")), At2(V("m"), S("__unm"))>>,
                   <<Tab(<<Rec(S("w"), N(8))>>), V("f"), V("f"), V("f"), V("f"), V("f"), V("f"), V("f")>>>>,
       Em(<<At2(V("p"), S("w")), At2(V("p"), S("v")), At2(V("p"), S("u")), B("==", V("p"), V("q"))>>),
       <<"assign", <<At2(V("p"), S("n")), At2(V("p"), S("v"))>>, <<N(3), N(4)>>>>,
       Em(<<B("+", V("p"), N(1)), B("+", N(1), V("q")), B("<", V("p"), V("q")), B("<=", V("p"), V("q"))>>),
       Em(<<B("..", N(1), B("..", V("p"), B("..", N(2), N(3)))), <<"un", "-", V("q")>>, F("p", <<N(1), N(6)>>)>>),
       <<"assign", <<At2(V("m"), S("__index")), At2(V("m"), S("__le"))>>, <<V("f"), Fun(<< >>, << >>)>>>>,
       Em(<<At2(V("p"), S("none")), B("<=", V("p"), V("q")), B(">", V("p"), V("q")), B("~=", V("p"), V("q"))>>),
       Ret(<<<<"method", V("p"), "w", <<N(1)>>>>>>) >>
Chained ==    \* tables behind tables, and a chain that is too long
    << Local("a", F("setmetatable", <<Tab(<< >>), Tab(<<Rec(S("__index"), Tab(<<Rec(S("x"), N(1))>>))>>)>>)),
       Local("b", F("setmetatable", <<Tab(<< >>), Tab(<<Rec(S("__index"), V("a")), Rec(S("__newindex"), V("a"))>>)>>)),
       <<"assign", <<At2(V("b"), S("z"))>>, <<N(6)>>>>,
       Em(<<At2(V("b"), S("x")), At2(V("b"), S("z")), At2(V("a"), S("z"))>>),
       Local("c", F("setmetatable", <<Tab(<< >>), Tab(<<Rec(S("__index"), V("b"))>>)>>)),
       Local("d", F("setmetatable", <<Tab(<< >>), Tab(<<Rec(S("__index"), V("c"))>>)>>)),
       Em(<<At2(V("c"), S("z"))>>), Ret(<<At2(V("d"), S("q"))>>) >>
Failures ==
    { <<Em(<<N(1)>>), Do("nofunction", <<E(<<N(2)>>)>>), Em(<<N(3)>>)>>,
      <<Local("x", NIL), Em(<<At2(V("x"), N(1))>>), Em(<<N(2)>>)>>,
      <<<<"fornum", "i", <<S("x"), N(1)>>, <<Em(<<V("i")>>)>>>>>>,
      <<<<"assign", <<At2(Tab(<< >>), NIL)>>, <<N(1)>>>>>>,
      <<Set("f", Fun(<< >>, <<Local("u", N(1)), Set("g", Fun(<< >>, <<Ret(<<V("u")>>)>>)), Ret(<<B("+", N(1), NIL)>>)>>)),
        Em(<<F("f", << >>)>>)>> }
\* So many constants that some do not fit into an operand.
Constants == << Local("x", N(1)), Em([n \in 1..6 |-> B("+", V("x"), N(n + 10))]),
                Set("y", B("+", N(17), N(18))), Ret(<<B("==", V("y"), NIL), B("==", NIL, V("z"))>>) >>

Statements == {Captured, Closures, Shared, Deep, TailCalls, Conflict, Adjusted, Constructors, Methods, ForLoops, Loops,
               TagMethods, Chained, Constants} \cup Failures

\* not over and or or, with another not above or below: see NotIsBoolean.
RECURSIVE TwiceInverted(_, _, _)
TwiceInverted(e, nots, logic) ==
    CASE e[1] = "un" -> TwiceInverted(e[3], IF e[2] = "not" THEN nots + 1 ELSE 0, logic)
      [] e[1] = "bin" -> LET l == e[2] \in {"and", "or"}
                         IN \E n \in {3, 4} : TwiceInverted(e[n], IF l THEN nots ELSE 0, l /\ (logic \/ nots > 0))
      [] OTHER -> nots > 1 /\ logic
Plain(e) == ~TwiceInverted(e, 1, FALSE)

MCPrograms == Statements \cup {Returned1(e) : e \in Depth1 \cup Leaves \cup Mixed}
              \cup UNION {Contexts(e) : e \in {t \in Tests2 \cup Tests : Plain(t)}}

MCCodes    == LET Made(b) == Compiled(b) IN [b \in MCPrograms |-> Made(b)]
MCMeanings == LET Means(b) == Meaning(b, Environment) IN [b \in MCPrograms |-> Means(b)]

MCPrecompiled == {Closures, Loops, Constants}
MCStrings ==
    LET In(pt) == {pt.k[n][2] : n \in {m \in DOMAIN pt.k : pt.k[m][1] = "str"}}
        Of(b)  == UNION {In(pt) : pt \in Inner(MCCodes[b].done)}
    IN InOrder(UNION {Of(b) : b \in MCPrecompiled})

\* Two programs that the interpreter gets wrong: a table that is its own metatable,
\* whose new tag method is overlooked, and not over an and that holds another not.
OwnMetatable ==
    << Local("t", Tab(<< >>)), Do("setmetatable", <<V("t"), V("t")>>),
       Local("u", F("setmetatable", <<Tab(<< >>), V("t")>>)),
       <<"assign", <<At2(V("t"), S("__newindex"))>>, <<Fun(<< >>, <<Em(<<N(1)>>)>>)>>>>,
       <<"assign", <<At2(V("u"), S("x"))>>, <<N(2)>>>>, Ret(<<At2(V("u"), S("x"))>>) >>
NotNot == Returned1(Not(B("and", Not(V("a")), V("b"))))
NoPrograms == {}
MCOwnMetatable == {OwnMetatable}
MCNotNot == {Returned1(Not(B("and", V("a"), V("b")))), NotNot}
=============================================================================
