------------------------------ MODULE MCPmfile ------------------------------
(***************************************************************************)
(* Pmfiles for PmfileMeaning: those of tests/ and examples/ cut down to    *)
(* what concerns clauses and properties, and a property with every         *)
(* combination of values in three of the places where it can have one.     *)
(***************************************************************************)
EXTENDS CClauses

MCUpper == {"U", "I", "A", "B", "C", "FLAGS", "OPT", "DIR", "BASE"} \cup CNames
S(from, hyphen, to) == [from |-> from, hyphen |-> hyphen, to |-> to]
MCSelectors == "[1]" :> S(1, FALSE, NoNumber) @@ "[2]" :> S(2, FALSE, NoNumber) @@ "[0]" :> S(0, FALSE, NoNumber)
               @@ "[2-]" :> S(2, TRUE, NoNumber) @@ "[-1]" :> S(NoNumber, TRUE, 1) @@ "[-]" :> S(NoNumber, TRUE, NoNumber)
               @@ "[2-1]" :> S(2, TRUE, 1)

Ones == [outputs |-> List(<<T("U")>>)]
Copy == Ones @@ [command |-> List(<<(<<"cat ">> \o T("in") \o <<" > ">> \o T("out"))>>)]

\* examples/complex-rules.pm: one program with two settings, made of clauses that are shared.
Flags == {EMPTY, List(<<(<<"-g">>)>>), Str(<<"-g">>), List(<<T("OPT"), T("DIR")>>)}
Complex(flags) ==
    Set("DIR", F("d")) \o Set("OPT", F("1")) \o Set("FLAGS", flags)
    \o Def("src", "file", Empty, <<Str(T("DIR") \o <<"/">> \o T("BASE") \o <<".", "c">>)>>)
    \o Def("obj", "simple", [class |-> F("obj"), outputs |-> List(<<T("U") \o <<"/">> \o T("I")>>),
              command |-> List(<<(<<"cc ">> \o T("FLAGS") \o T("in") \o T("out"))>>),
              FLAGS |-> PARENT(<<(<<"-O">> \o T("OPT"))>>),
              install |-> Str(T("DIR") \o T("I") \o T("OPT"))], <<Name("src")>>)
    \o Def("one", "obj", [BASE |-> F("a")], << >>)
    \o Def("two", "obj", [BASE |-> F("b")], << >>)
    \o Def("program", "simple", Ones @@ [command |-> List(<<(<<"ld ">> \o T("in") \o T("out")), <<"strip ">> \o T("out")>>)],
           <<Name("one"), Name("two")>>)
    \o Def("fast", "program", [OPT |-> F("3")], << >>)
    \o Def("slow", "program", [OPT |-> F("0")], << >>)
    \o Def("default", "group", Empty, <<Name("fast"), Name("slow"), Name("fast")>>)

\* examples/ith.pm and foreach.pm: a rule with several outputs, some of which go on.
Picked(fields) ==
    Def("gen", "simple", [outputs |-> List(<<T("U") \o <<"/", "x", ".", "c">>, T("U") \o <<"/", "y", ".", "c">>,
                                             <<"%", "out", "[1]", "dirname", "%", "/z">>>>),
                          command |-> List(<<(<<"gen ">> \o T("in") \o <<"%", "out", "[2-]", "%">>)>>)], <<F("g")>>)
    \o Def("some", "ith", fields, <<Name("gen")>>)
    \o Def("cfile", "simple", [class |-> F("cfile")] @@ Copy, << >>)
    \o Def("each", "foreach", [rule |-> Name("cfile")], <<Name("some")>>)
    \o Def("first", "deponly", Empty, <<Name("gen")>>)
    \o Def("default", "group", [install |-> List(<<T("in"), T("out")>>)], <<Name("first"), Name("each"), Name("some")>>)
Ranges == {Empty, [i |-> Num(2)], [from |-> Num(2)], [to |-> Num(2)], [from |-> Num(2), to |-> Num(4)],
           [from |-> Num(0)], [from |-> Num(4)], [i |-> Num(1), to |-> Num(2)], [i |-> F("x")]}

\* tests/string-modifiers.pm, table-rendering.pm and group-in-out.pm.
Reference(template) ==
    Def("copy", "simple", [class |-> F("copy")] @@ Copy, << >>)
    \o Def("one", "copy", Empty, <<F("a")>>)
    \o Def("same", "copy", Empty, <<F("a")>>)
    \o Def("other", "copy", [command |-> List(Copy.command[2] \o <<(<<"sort ">> \o T("out"))>>)], <<F("a")>>)
    \o Def("files", "file", [only_n_children_are_outputs |-> Num(2)], <<F("a"), F("b"), F("c")>>)
    \o Def("default", "group", [install |-> Str(template), list |-> List(<<(<<"p">>)>>), text |-> F("t"), none |-> EMPTY],
           <<Name("one"), Name("same"), Name("other"), Name("files")>>)
References == {<<"%", key, sel, "%">> : key \in {"out", "list", "text", "none"}, sel \in DOMAIN MCSelectors}
              \cup {<<"%", key, "dirname", "%">> : key \in {"out", "list", "text", "none"}}
              \cup {T("out"), T("gone"), T("C"), <<"%", "out", "[1]", "dirname", "%">>, <<"%", "out", "basename", "%">>}

\* complex-c-program.pm, c-program-with-library.pm and dynamic-header.pm: objects with
\* definitions of their own, a library, and headers that a rule makes.
Dynamic(headers, template) ==
    CLibrary
    \o Def("one", "simple", [outputs |-> List(<<T("U") \o <<"/", "one", ".", "h">>>>), command |-> Str(template)], << >>)
    \o Def("two", "simple", Copy, <<F("in"), Name("one")>>)
    \o Def("plain", "cfile", Empty, <<F("a"), Str(<<"d", "/", "b", ".", "c">>)>>)
    \o Def("more", "cfile", [CDEFINES |-> PARENT(<<(<<"x">>)>>), dynamicheaders |-> headers], <<F("a")>>)
    \o Def("lib", "clibrary", Empty, <<Name("plain"), Name("more")>>)
    \o Def("default", "cprogram", [CDEFINES |-> List(<<(<<"y">>)>>), CLIBRARIES |-> List(<<(<<"m">>), <<"z", ".", "a">>>>)],
           <<Name("more"), Name("lib")>>)
Make == <<"make ">> \o T("out")
Dynamics == {Names(<<"one", "two">>), Name("one"), Names(<< >>), F("one")}

\* What is refused, when it is made or when it is built.
Refused == {
    Def("default", "group", Empty, <<F("a")>>),
    Def("default", "file", Empty, << >>),
    Def("f", "file", Empty, <<F("a")>>) \o Def("default", "group", Empty, <<Name("f"), Name("g")>>),
    Def("f", "file", Empty, <<F("a")>>) \o Def("default", "file", Empty, <<Name("f")>>),
    Def("default", "simple", Ones, << >>),
    Def("default", "foreach", Empty, <<F("a")>>),
    CLibrary \o Def("default", "cfile", Empty, << >>),
    Def("default", "file", [only_n_children_are_outputs |-> Num(2)], <<F("a")>>),
    Def("f", "file", Empty, <<F("a")>>) \o Def("g", "group", [class |-> F("g")], << >>)
        \o Def("default", "foreach", [rule |-> Name("g")], <<Name("f")>>)}

\* Two "%", in a value and around a name, and references that never end.
ShowA == Def("default", "file", [install |-> Str(T("A"))], <<F("a")>>)
Odd == {
    Def("default", "simple", Ones @@ [command |-> List(<<(<<"echo ", "%", "%">> \o T("A") \o <<"%", "%">>)>>),
                                      A |-> Str(<<"%", "%">>)], <<F("a")>>),
    Set("A", Str(<<"%">> \o T("B") \o <<"%">>)) \o ShowA,
    Set("A", Str(T("A"))) \o ShowA,
    Set("A", REDIRECT("B")) \o Set("B", REDIRECT("A")) \o ShowA,
    Set("B", REDIRECT("A")) \o Def("default", "file", [install |-> Str(T("A")), A |-> PARENT(<<(<<"a">>)>>)], <<F("a")>>)
        \o Set("A", REDIRECT("B"))}

\* One property in three places, seen from a clause that is in two clauses.
Values == {Nil, F("a"), List(<<(<<"b">>), <<"c">>>>), List(<< >>), EMPTY,
           PARENT(<<(<<"d">>)>>), PARENT(<<(<<"i">>)>>), REDIRECT("B"), Str(T("B"))}
Field(v, fields) == IF v = Nil THEN fields ELSE "A" :> v @@ fields
Scopes(own, around, global, other) ==
    (IF global = Nil THEN << >> ELSE Set("A", global)) \o (IF other = Nil THEN << >> ELSE Set("B", other))
    \o Def("leaf", "file", Field(own, [install |-> Str(T("A"))]), <<F("f")>>)
    \o Def("inner", "group", Field(around, "B" :> F("e")), <<Name("leaf")>>)
    \o Def("default", "group", Empty, <<Name("inner"), Name("leaf")>>)

MCPmfiles == {Complex(f) : f \in Flags} \cup {Picked(r) : r \in Ranges} \cup {Reference(t) : t \in References}
             \cup {Dynamic(h, Make) : h \in Dynamics}
             \cup Refused \cup Odd
             \cup {Scopes(v, w, g, b) : v \in Values, w \in Values, g \in Values \ {REDIRECT("B")},
                                        b \in {Nil, PARENT(<<(<<"h">>)>>)}}

\* Differences.  %...% in names of files; a range without inputs; an instance as a class;
\* what the last visit of a rule has left for the clauses in it; dynamic headers that
\* refer to properties of the clause they are for.
MCPercents == {Set("A", F("a")) \o Def("default", "file", Empty, <<Str(<<"%", "%", "A", "%", "%">>)>>)}
MCInstances == {Def("f", "file", Empty, <<F("f")>>) \o Def("two", "ith", [i |-> Num(1)], <<Name("f")>>)
                \o Def("default", "two", [A |-> F("a")], << >>)}
MCTwoScopes == {Dynamic(Name("one"), Make \o T("CDEFINES"))}
MCLeftBehind == {Def("f", "file", [install |-> Str(T("I"))], <<F("f")>>) \o Def("r", "simple", Copy, <<Name("f")>>)
                 \o Def("default", "group", "I" :> F("x"), <<Name("r"), Name("r")>>)}
=============================================================================
