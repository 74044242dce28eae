---------------------------- MODULE AbstractList ----------------------------
(***************************************************************************)
(* What the table library promises of a table that is used as a list:      *)
(* insert and remove act on a sequence, and sort only changes its order.   *)
(***************************************************************************)
EXTENDS Naturals, Sequences

CONSTANT Values
VARIABLE list

\* s is t in another order.
Rearranged(s, t) ==
    /\ Len(s) = Len(t)
    /\ \E p \in [DOMAIN s -> DOMAIN s] : (\A i, j \in DOMAIN s : i # j => p[i] # p[j]) /\ \A i \in DOMAIN s : s[i] = t[p[i]]

Init == list = << >>
Insert(pos, v) == list' = SubSeq(list, 1, pos - 1) \o <<v>> \o SubSeq(list, pos, Len(list))
Remove(pos)    == list' = SubSeq(list, 1, pos - 1) \o SubSeq(list, pos + 1, Len(list))
Truncate(n)    == list' = SubSeq(list, 1, n)
Assign(i, v)   == list' = [list EXCEPT ![i] = v]

Next == \/ \E v \in Values : \/ \E pos \in 1..(Len(list) + 1) : Insert(pos, v)
                             \/ \E i \in DOMAIN list : Assign(i, v)
        \/ \E pos \in DOMAIN list : Remove(pos)
        \/ \E n \in 0..Len(list) : Truncate(n)
        \/ Rearranged(list', list)
Spec == Init /\ [][Next]_list
=============================================================================
