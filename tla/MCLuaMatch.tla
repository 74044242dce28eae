----------------------------- MODULE MCLuaMatch -----------------------------
(* Pieces that meet every branch of match, over two characters.             *)
EXTENDS LuaPatterns

MCItems == {<<"a", "*">>, <<".", "-">>, <<"[", "a", "]", "+">>, <<"[", "^", "a", "]", "?">>, <<ESC, "d">>,
            <<"(">>, <<")">>, <<ESC, "1">>, <<ESC, "b", "a", "1">>, <<ESC, "f", "[", "a", "]">>,
            <<"$">>, <<"^">>}
=============================================================================
