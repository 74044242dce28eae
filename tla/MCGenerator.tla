---------------------------- MODULE MCGenerator ----------------------------
(***************************************************************************)
(* A pmfile for BuildEngine with a rule that has two outputs and two       *)
(* commands (a parser generator), whose outputs are compiled; the object   *)
(* is installed by a shell command.  With UseIth the compiler is given     *)
(* only the first output, through the library's ith clause.                *)
(*                                                                         *)
(*   gen = bison { "g.y" }               outputs g.c and g.h               *)
(*   obj = cfile { gen, install = "cp %out% ..." }                         *)
(*   or    cfile { ith { gen, i = 1 }, install = "cp %out% ..." }          *)
(***************************************************************************)
EXTENDS BuildEngineInvariant

CONSTANTS gy, gc, gh, go, fg, gen, sel, obj, UseIth

MCSource == {gy}
MCProduct == {gc, gh, go}
MCNode == {fg, gen, sel, obj}
MCRule == {gen, obj}
MCFileClause == {fg}

MCChildren ==
  [n \in MCNode |-> CASE n = fg  -> <<>>
                      [] n = gen -> <<fg>>
                      [] n = sel -> <<gen>>
                      [] n = obj -> IF UseIth THEN <<sel>> ELSE <<gen>>]

MCOutputs ==
  [n \in MCNode |-> CASE n = fg  -> <<gy>>
                      [] n = gen -> <<gc, gh>>
                      [] n = sel -> <<gc>>
                      [] n = obj -> <<go>>]

MCDepends ==
  [n \in MCNode |-> CASE n = fg  -> <<gy>>
                      [] n = gen -> <<gy>>
                      [] n = sel -> <<gc, gh>>
                      [] n = obj -> IF UseIth THEN <<gc>> ELSE <<gc, gh>>]

MCCommands == [r \in MCRule |-> IF r = gen THEN 2 ELSE 1]

MCInstaller == [n \in MCNode |-> IF n = obj THEN "shell" ELSE "none"]

MCTargetLists == {<<obj>>, <<gen, obj>>}
============================================================================
