---------------------------- MODULE MCCacheIndex ----------------------------
(***************************************************************************)
(* Three rules for CacheIndex.  With MultiLine the command of one of them  *)
(* is written over three lines, the last of which is the whole command of  *)
(* another, as in                                                          *)
(*   command = { "mkdir -p gen\ncp %in% gen\nmake -C gen" }                *)
(***************************************************************************)
EXTENDS CacheIndex

CONSTANTS cc, ld, gen, l1, l2, l3, l4, l5, MultiLine

MCKey == {cc, ld, gen}
MCLine == {l1, l2, l3, l4, l5}
MCLinesOf ==
  [k \in MCKey |-> CASE k = cc  -> <<l1>>
                     [] k = ld  -> <<l2>>
                     [] k = gen -> IF MultiLine THEN <<l3, l4, l1>> ELSE <<l5>>]
=============================================================================
