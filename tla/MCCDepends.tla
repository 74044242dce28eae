----------------------------- MODULE MCCDepends -----------------------------
(***************************************************************************)
(* A source tree for CDepends:                                             *)
(*   src/m.c   the source             src/a.h, inc/a.h   a shadowed header *)
(*   gen/g.h   a dynamic header       inc/b.h            a plain header    *)
(* Every header may include every header, so cycles of all lengths occur;  *)
(* src/m.c may also include the dynamic header, and climb with "..".       *)
(***************************************************************************)
EXTENDS CDepends

CONSTANTS src, inc, gen, m, a, b, g,
          r1, r2,
          InRoot,      \* what is in src lies in the current directory
          OtherFlags   \* r2 has CINCLUDES of its own: none

Home == IF InRoot THEN <<>> ELSE <<src>>
Source == Append(Home, m)
Header == {Append(Home, a), <<inc, a>>, <<inc, b>>}
Generated == <<gen, g>>

MCName == {src, inc, gen, m, a, b, g, Up}
MCFile == {Source, Generated} \cup Header
MCDirectory == {<<>>, <<src>>, <<inc>>, <<gen>>}
MCRule == {r1, r2}

Quoted(names) == [name : names, quoted : {TRUE}]
Angled(names) == [name : names, quoted : {FALSE}]
UpTo2(D) == {<<>>} \cup {<<d>> : d \in D} \cup {p \in D \X D : p[1] # p[2]}

MCTexts ==
  {[f \in MCFile |-> CASE f = Source    -> source
                       [] f = Generated -> <<>>
                       [] OTHER         -> header[f]] :
     source \in UpTo2(Quoted({<<a>>, <<g>>, <<Up, inc, a>>}) \cup Angled({<<b>>})),
     header \in [Header -> UpTo2(Quoted({<<a>>, <<b>>}))]}

MCInput == [r \in MCRule |-> Source]
MCIncludes ==
  [r \in MCRule |-> IF OtherFlags /\ r = r2 THEN <<>> ELSE << <<inc>> >>]
MCDynamic == [r \in MCRule |-> <<Generated>>]
=============================================================================
