---------------------------- MODULE AbstractMap ----------------------------
(***************************************************************************)
(* What a Lua table promises: it maps keys to values, and next goes        *)
(* through it, each key once, even while fields that exist are assigned or *)
(* cleared, and while the collector takes entries of a weak table away.    *)
(***************************************************************************)
EXTENDS Naturals

CONSTANTS Keys, Values, WeakValues     \* the values that a weak table may lose

VARIABLES
    map,       \* the fields whose value is not nil
    going,     \* a traversal is going on
    seen       \* the keys that it has delivered

vars == <<map, going, seen>>

Init == map = [k \in {} |-> CHOOSE v \in Values : TRUE] /\ going = FALSE /\ seen = {}

\* What the map may become: a traversal allows assignments to existing fields only.
Assigned == {[x \in DOMAIN map \cup {k} |-> IF x = k THEN v ELSE map[x]] :
                k \in IF going THEN DOMAIN map ELSE Keys, v \in Values}
Without(S) == [x \in DOMAIN map \ S |-> map[x]]
Cleared   == {Without({k}) : k \in Keys}
Collected == {Without(S) : S \in SUBSET {k \in DOMAIN map : map[k] \in WeakValues}}
Change == map' \in Assigned \cup Cleared \cup Collected /\ UNCHANGED <<going, seen>>

Begin == ~going /\ going' = TRUE /\ UNCHANGED <<map, seen>>
Visit == /\ going
         /\ \E k \in DOMAIN map \ seen : seen' = seen \cup {k}
         /\ UNCHANGED <<map, going>>
End   == going /\ DOMAIN map \subseteq seen /\ going' = FALSE /\ seen' = {} /\ UNCHANGED map

Next == Change \/ Begin \/ Visit \/ End
Spec == Init /\ [][Next]_vars
=============================================================================
