------------------------------ MODULE CClauses ------------------------------
(***************************************************************************)
(* The C clauses of src/lib/c.pm as a pmfile says them: properties that    *)
(* hold commands, and classes made from simple.  Pmfiles begin with        *)
(* CLibrary when they include lib/c.pm.                                    *)
(***************************************************************************)
EXTENDS PmfileMeaning

\* Statements, values and texts.
Name(n)   == <<"name", n>>
Names(l)  == <<"names", l>>
T(k)      == <<"%", k, "%">>
M(k, m)   == <<"%", k, m, "%">>
F(n)      == Str(<<n>>)
Set(n, v) == <<[is |-> "property", name |-> n, value |-> v]>>
Def(n, base, fields, kids) ==
    <<[is |-> "clause", name |-> n, base |-> base, fields |-> fields, kids |-> kids]>>

CC(compiler) == T(compiler) \o T("CBUILDFLAGS") \o M("CDYNINCLUDES", "cincludes") \o M("CINCLUDES", "cincludes")
                \o M("CDEFINES", "cdefines") \o T("CEXTRAFLAGS") \o <<" -c -o ">> \o T("out") \o T("in")
CPROGRAM(compiler) == T(compiler) \o T("CBUILDFLAGS") \o T("CLINKFLAGS") \o T("CEXTRAFLAGS")
                      \o <<" -o ">> \o T("out") \o T("in") \o M("CLIBRARIES", "clibraries")

CVariables ==
    Set("CCOMPILER", F("gcc")) \o Set("CXXCOMPILER", F("g++"))
    \o Set("CC", Str(CC("CCOMPILER"))) \o Set("CXX", Str(CC("CXXCOMPILER")))
    \o Set("CPROGRAM", Str(CPROGRAM("CCOMPILER"))) \o Set("CXXPROGRAM", Str(CPROGRAM("CXXCOMPILER")))
    \o Set("CLIBRARY", Str(<<"rm -f ">> \o T("out") \o <<" && ar cr ">> \o T("out") \o T("in")
                           \o <<" && ranlib ">> \o T("out")))
    \o Set("CBUILDFLAGS", List(<<(<<"-g">>)>>)) \o Set("CINCLUDES", EMPTY) \o Set("CDEFINES", EMPTY)
    \o Set("CEXTRAFLAGS", EMPTY) \o Set("CLINKFLAGS", EMPTY) \o Set("CDYNINCLUDES", EMPTY) \o Set("CLIBRARIES", EMPTY)

Class(n, base, command, suffix) ==
    Def(n, base, [class |-> F(n), command |-> List(<<T(command)>>),
                  outputs |-> List(<<T("U") \o <<"-">> \o T("I") \o suffix>>)], << >>)
CClasses ==
    Class("cfile", "clike", "CC", <<".", "o">>) \o Class("cxxfile", "clike", "CXX", <<".", "o">>)
    \o Class("cprogram", "simple", "CPROGRAM", << >>) \o Class("cxxprogram", "simple", "CXXPROGRAM", << >>)
    \o Class("clibrary", "simple", "CLIBRARY", <<".", "a">>)

CLibrary == CVariables \o CClasses
CNames   == {s.name : s \in ToSet(CVariables)}
=============================================================================
