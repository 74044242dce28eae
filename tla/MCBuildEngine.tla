--------------------------- MODULE MCBuildEngine ---------------------------
(***************************************************************************)
(* A pmfile for BuildEngine in the style of the README's example: a C file *)
(* that includes a header is compiled into an object, which two programs   *)
(* are linked from; one of the programs is installed.                      *)
(*                                                                         *)
(*   oa   = cfile { "a.c" }              tool = cprogram { oa }            *)
(*   prog = cprogram { oa, install = pm.install(...) }                     *)
(*   all  = group { prog, tool }                                           *)
(***************************************************************************)
EXTENDS BuildEngine

CONSTANTS ac, ah, ao, prog, tool, fa, oa, mkprog, mktool, all

MCSource == {ac, ah}
MCProduct == {ao, prog, tool}
MCNode == {fa, oa, mkprog, mktool, all}
MCRule == {oa, mkprog, mktool}
MCFileClause == {fa}

MCChildren ==
  [n \in MCNode |-> CASE n = fa     -> <<>>
                      [] n = oa     -> <<fa>>
                      [] n = mkprog -> <<oa>>
                      [] n = mktool -> <<oa>>
                      [] n = all    -> <<mkprog, mktool>>]

MCOutputs ==
  [n \in MCNode |-> CASE n = fa     -> <<ac>>
                      [] n = oa     -> <<ao>>
                      [] n = mkprog -> <<prog>>
                      [] n = mktool -> <<tool>>
                      [] n = all    -> <<prog, tool>>]

MCDepends ==
  [n \in MCNode |-> CASE n = fa     -> <<ac>>
                      [] n = oa     -> <<ac, ah>>
                      [] n = mkprog -> <<ao>>
                      [] n = mktool -> <<ao>>
                      [] n = all    -> <<prog, tool>>]

MCCommands == [r \in MCRule |-> 1]

MCInstaller ==
  [n \in MCNode |-> IF n = mkprog THEN "function" ELSE "none"]

MCTargetLists == {<<all>>}
============================================================================
