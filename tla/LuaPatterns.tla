---------------------------- MODULE LuaPatterns ----------------------------
(***************************************************************************)
(* What a pattern of the Lua string library means, without the search: a   *)
(* path gives each piece of the pattern the stretch of the subject that it *)
(* takes, and of all the valid paths one is preferred.  Properties of      *)
(* LuaMatch compare the code's backtracking with that.                     *)
(***************************************************************************)
EXTENDS LuaMatch, FiniteSets

\* "(" followed by ")" is one piece, a position capture.
RECURSIVE Merged(_)
Merged(items) ==
    IF items = << >> THEN << >>
    ELSE IF Len(items) > 1 /\ items[1] = <<"(">> /\ items[2] = <<")">>
         THEN <<<<"(", ")">>>> \o Merged(Tail(Tail(items)))
    ELSE <<Head(items)>> \o Merged(Tail(items))
Normal == Merged(pat)

Starts(pt) == pt # << >> /\ pt[1] = <<"^">>
Pieces(pt) == IF Starts(pt) THEN Tail(pt) ELSE pt

Opens(pc) == pc[1] = "("
IsBackRef(pc) == pc[1] = ESC /\ isdigit(pc[2])
IsEnd(pcs, i) == i = Len(pcs) /\ pcs[i] = <<"$">>
NotSingle(pcs, i) == \/ Opens(pcs[i])
                     \/ pcs[i] = <<")">>
                     \/ IsBackRef(pcs[i])
                     \/ pcs[i][1] = ESC /\ pcs[i][2] \in {"b", "f"}
                     \/ IsEnd(pcs, i)

\* Where the parenthesis opened by piece i is closed.
CloseOf(pcs, i) ==
    LET Depth(j) == Len(SelectSeq(SubSeq(pcs, i, j), LAMBDA pc : pc = <<"(">>))
                    - Len(SelectSeq(SubSeq(pcs, i, j), LAMBDA pc : pc = <<")">>))
        at == {j \in i..Len(pcs) : Depth(j) = 0}
    IN IF pcs[i] = <<"(", ")">> THEN i
       ELSE IF at = {} THEN Len(pcs) + 1 ELSE CHOOSE j \in at : \A k \in at : j <= k
\* The pieces that open captures, in order.
Opening(pcs) == SelectSeq([i \in DOMAIN pcs |-> i], LAMBDA i : Opens(pcs[i]))

WellFormed(pcs) ==
    LET opening == Opening(pcs)
    IN /\ Len(opening) <= MAX_CAPTURES
       /\ \A k \in DOMAIN opening : CloseOf(pcs, opening[k]) <= Len(pcs)
       /\ \A j \in DOMAIN pcs : pcs[j] = <<")">> => \E k \in DOMAIN opening : CloseOf(pcs, opening[k]) = j
       /\ \A j \in DOMAIN pcs : IsBackRef(pcs[j]) =>
            \E k \in DOMAIN opening : Digit(pcs[j][2]) + 1 = k /\ CloseOf(pcs, opening[k]) < j

-----------------------------------------------------------------------------
(* Paths.                                                                   *)

Suffixes == {"*", "+", "?", "-"}
IsLazy(pcs, i) == ~NotSingle(pcs, i) /\ Len(pcs[i]) > 1 /\ pcs[i][Len(pcs[i])] = "-"
\* How often a single piece may match.
Allowed(pc) == LET last == pc[Len(pc)]
               IN CASE Len(pc) > 1 /\ pc[1] # ESC /\ last \in {"*", "-"} -> 0..MaxSubject
                    [] Len(pc) > 1 /\ pc[1] # ESC /\ last = "+"          -> 1..MaxSubject
                    [] Len(pc) > 1 /\ pc[1] # ESC /\ last = "?"          -> 0..1
                    [] OTHER                                             -> {1}
IsIn(c, pc) == CASE pc[1] = "."               -> TRUE
                 [] pc = <<ESC, "d">>         -> c \in {"0", "1", "9"}
                 [] pc = <<ESC, "a">>         -> c \in {"A", "a", "b", "d", "f", "l"}
                 [] pc[1] = "[" /\ pc[2] = "^" -> c # pc[3]
                 [] pc[1] = "["               -> c = pc[2]
                 [] OTHER                     -> c = pc[1]

Text(str, a, b) == SubSeq(str, a, b - 1)
\* A stretch from an opening to its own closing character.
Balances(t, open, close) ==
    LET Count2(c, n) == Cardinality({i \in 1..n : t[i] = c})
    IN /\ Len(t) >= 2 /\ t[1] = open /\ t[Len(t)] = close
       /\ IF open = close THEN Count2(open, Len(t)) = 2
          ELSE /\ Count2(open, Len(t)) = Count2(close, Len(t))
               /\ \A n \in 1..(Len(t) - 1) : Count2(open, n) > Count2(close, n)

\* path[i]..path[i + 1] is what piece i takes.
Takes(pcs, str, path, i) ==
    LET pc == pcs[i]
        t == Text(str, path[i], path[i + 1])
        opener == Opening(pcs)[Digit(pc[2]) + 1]
        Inside(j) == j \in DOMAIN str /\ IsIn(str[j], <<"[", pc[4]>>)
    IN CASE Opens(pc) \/ pc = <<")">>        -> t = << >>
         [] IsEnd(pcs, i)                    -> t = << >> /\ path[i] = Len(str) + 1
         [] IsBackRef(pc)                    -> /\ pcs[opener] # <<"(", ")">>
                                                /\ t = Text(str, path[opener], path[CloseOf(pcs, opener)])
         [] pc[1] = ESC /\ pc[2] = "b"       -> Balances(t, pc[3], pc[4])
         [] pc[1] = ESC /\ pc[2] = "f"       -> t = << >> /\ ~Inside(path[i] - 1) /\ Inside(path[i])
         [] OTHER                            -> Len(t) \in Allowed(pc) /\ \A k \in DOMAIN t : IsIn(t[k], pc)

\* The ways to go on from a path that the first pieces have taken.
RECURSIVE Paths(_, _, _)
Paths(pcs, str, path) ==
    IF Len(path) = Len(pcs) + 1 THEN {path}
    ELSE UNION {Paths(pcs, str, Append(path, e)) :
                    e \in {f \in path[Len(path)]..(Len(str) + 1) : Takes(pcs, str, Append(path, f), Len(path))}}

\* The first piece on which two paths differ takes as much as it can, or as little if it is lazy.
Preferred(pcs, paths) ==
    CHOOSE p \in paths : \A q \in paths \ {p} :
        \E i \in 2..Len(p) : /\ \A j \in 1..(i - 1) : p[j] = q[j]
                             /\ IF IsLazy(pcs, i - 1) THEN p[i] < q[i] ELSE p[i] > q[i]

CapturesOf(pcs, p) ==
    [k \in DOMAIN Opening(pcs) |->
        LET o == Opening(pcs)[k]
        IN [init |-> p[o], len |-> IF pcs[o] = <<"(", ")">> THEN CAP_POSITION ELSE p[CloseOf(pcs, o)] - p[o]]]

\* What find has to return.
Meant(pcs, str, anchored, init) ==
    LET From(s) == Paths(pcs, str, <<s>>)
        starts == {s \in (IF anchored THEN {init} ELSE init..(Len(str) + 1)) : From(s) # {}}
        first == CHOOSE s \in starts : \A u \in starts : s <= u
        best == Preferred(pcs, From(first))
    IN IF starts = {} THEN <<"no">> ELSE <<"match", first, best[Len(best)], CapturesOf(pcs, best)>>

-----------------------------------------------------------------------------
(* Properties.                                                              *)

\* Where find starts: at the beginning, or at the last character.
Positions == {1, -1}

Found(pos) == str_find(subject, Joined(pat), pos)

\* str_find (lstrlib.c:488): a well-formed pattern gives the leftmost match, the
\* preferred one of those, with its captures, however much match had to undo on the
\* way; and raises no error.
FindsPreferred ==
    WellFormed(Pieces(Normal)) => \A pos \in Positions :
        Found(pos) = Meant(Pieces(Normal), subject, Starts(pat), IF pos = 1 \/ subject = << >> THEN 1 ELSE Len(subject))

\* check_capture, capture_to_close, push_onecapture: a malformed pattern may fail
\* to match or raise an error, it never gives a match.
MalformedNeverMatches == 
    /\ {Joined(pat)[i] : i \in DOMAIN Joined(pat)} \cap SPECIALS # {}
    /\ ~WellFormed(Pieces(Normal))
    => Found(1)[1] # "match"

FindsAsMeant == FindsPreferred /\ MalformedNeverMatches

RECURSIVE Covered(_)
Covered(buffer) ==
    IF buffer = << >> THEN << >>
    ELSE LET b == Head(buffer)
         IN (IF Len(b) = 1 THEN b ELSE [k \in 1..(b[2] - b[1]) |-> b[1] + k - 1]) \o Covered(Tail(buffer))

\* gfind_aux and str_gsub step through the subject on their own: they see the same
\* matches, and what gsub puts into its buffer is every character of the subject once
\* and in order, inside a match or copied, also when max_s ends it early.
VisitsAll(buffer, finds, max_s) ==
    LET pieces == SelectSeq(buffer, LAMBDA b : Len(b) = 2)
    IN IF buffer # << >> /\ buffer[Len(buffer)] = <<0>> THEN finds[Len(finds)] = <<0>>
       ELSE /\ Covered(buffer) = [i \in DOMAIN subject |-> i]
            /\ max_s = Len(subject) + 1 => pieces = finds
            /\ pieces = SubSeq(finds, 1, Len(pieces))
GsubVisitsAll ==
    Starts(pat) \/ \A n \in 0..(Len(subject) + 1) :
        VisitsAll(str_gsub(subject, Joined(pat), n), gfind([s |-> subject, p |-> Joined(pat)], 1, NewState), n)
=============================================================================
