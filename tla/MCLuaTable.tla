----------------------------- MODULE MCLuaTable -----------------------------
(* Keys that collide: the numbers 1..3, which can go to the array part, and two      *)
(* strings of one hash.                                                              *)
EXTENDS LuaTable

MCKeys == {<<"num", 1>>, <<"num", 2>>, <<"num", 3>>, <<"str", "a">>, <<"str", "b">>}
MCHash == [k \in MCKeys |-> CASE k = <<"str", "a">> -> 3
                              [] k = <<"str", "b">> -> 7
                              [] OTHER              -> k[2] + 1]
MCValues == {<<"num", 7>>, <<"obj">>}
MCWeakValues == {<<"obj">>}
=============================================================================
