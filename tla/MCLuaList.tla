----------------------------- MODULE MCLuaList ------------------------------
(* Lists of up to five numbers, some of them equal.                         *)
EXTENDS LuaList
=============================================================================
