------------------------------ MODULE LuaMatch -----------------------------
(***************************************************************************)
(* Pattern matching of the bundled Lua interpreter's string library        *)
(* (src/lua/lstrlib.c): match and what it calls, and find, gfind and gsub. *)
(*                                                                         *)
(* A string is a sequence of characters, and pointers into it are indices, *)
(* so a pattern p ends where p > Len(pat), with the character "end".        *)
(* The MatchState is passed along and returned, also by a match that       *)
(* fails, which has to undo what it did to the captures.                   *)
(***************************************************************************)
EXTENDS Integers, Sequences

CONSTANTS
    Chars,          \* bound: the characters of subjects
    MaxSubject,     \* bound: the length of subjects
    Items,          \* bound: the pieces that patterns are made of
    MaxItems,       \* bound: the pieces of a pattern
    MAX_CAPTURES

ASSUME MatchConstants == {MaxSubject, MaxItems, MAX_CAPTURES} \subseteq Nat

VARIABLES pat, subject

vars == <<pat, subject>>

CAP_UNFINISHED == -1
CAP_POSITION   == -2
NULL == 0
ESC  == "%"

\* The order of characters, the letter classes and the special characters.
Code == [c \in {"end", "$", "%", "(", ")", "*", "+", "-", ".", "0", "1", "9", "?", "A", "[", "]", "^", "a", "b", "d", "f", "l"} |->
            CASE c = "end" -> 0  [] c = "$" -> 36 [] c = "%" -> 37 [] c = "(" -> 40 [] c = ")" -> 41 [] c = "*" -> 42
              [] c = "+" -> 43  [] c = "-" -> 45 [] c = "." -> 46 [] c = "0" -> 48 [] c = "1" -> 49 [] c = "9" -> 57
              [] c = "?" -> 63  [] c = "A" -> 65 [] c = "[" -> 91 [] c = "]" -> 93 [] c = "^" -> 94 [] c = "a" -> 97
              [] c = "b" -> 98  [] c = "d" -> 100 [] c = "f" -> 102 [] OTHER -> 108]
isdigit(c) == Code[c] \in 48..57
isalpha(c) == Code[c] \in 65..90 \/ Code[c] \in 97..122
SPECIALS   == {"^", "$", "*", "+", "?", ".", "(", "[", "%", "-"}

At(str, i) == IF i \in DOMAIN str THEN str[i] ELSE "end"

(* An outcome has a position or NULL, the match state, and whether an error was raised. *)
Gives(e, ms) == [e |-> e, ms |-> ms, error |-> FALSE]
Error(ms)    == [e |-> NULL, ms |-> ms, error |-> TRUE]

-----------------------------------------------------------------------------
(* Classes.                                                                 *)

\* Where the single item that begins at p ends, or NULL when it is malformed.
RECURSIVE SetEnd(_, _)
SetEnd(pt, p) ==
    LET q == IF At(pt, p) = ESC /\ At(pt, p + 1) # "end" THEN p + 2 ELSE p + 1
    IN IF At(pt, p) = "end" THEN NULL
       ELSE IF At(pt, q) = "]" THEN q + 1 ELSE SetEnd(pt, q)
luaI_classend(pt, p) ==
    CASE At(pt, p) = ESC -> IF At(pt, p + 1) = "end" THEN NULL ELSE p + 2
      [] At(pt, p) = "[" -> SetEnd(pt, IF At(pt, p + 1) = "^" THEN p + 2 ELSE p + 1)
      [] OTHER           -> p + 1

match_class(c, cl) ==
    CASE cl = "a" -> isalpha(c)
      [] cl = "A" -> ~isalpha(c)
      [] cl = "d" -> isdigit(c)
      [] OTHER    -> cl = c

RECURSIVE InSet(_, _, _, _)
InSet(pt, c, p, ec) ==
    IF p >= ec THEN FALSE
    ELSE IF At(pt, p) = ESC THEN match_class(c, At(pt, p + 1)) \/ InSet(pt, c, p + 2, ec)
    ELSE IF At(pt, p + 1) = "-" /\ p + 2 < ec
         THEN Code[c] \in Code[At(pt, p)]..Code[At(pt, p + 2)] \/ InSet(pt, c, p + 3, ec)
    ELSE At(pt, p) = c \/ InSet(pt, c, p + 1, ec)
matchbracketclass(pt, c, p, ec) ==
    IF At(pt, p + 1) = "^" THEN ~InSet(pt, c, p + 2, ec) ELSE InSet(pt, c, p + 1, ec)

luaI_singlematch(pt, c, p, ep) ==
    CASE At(pt, p) = "." -> TRUE
      [] At(pt, p) = ESC -> match_class(c, At(pt, p + 1))
      [] At(pt, p) = "[" -> matchbracketclass(pt, c, p, ep - 1)
      [] OTHER           -> At(pt, p) = c

-----------------------------------------------------------------------------
(* Matching.  ms is [level, capture]; x holds the subject and the pattern.   *)

Single(x, s, p, ep) == s <= Len(x.s) /\ luaI_singlematch(x.p, At(x.s, s), p, ep)

Digit(c) == Code[c] - 49
check_capture(ms, c) == Digit(c) >= 0 /\ Digit(c) < ms.level /\ ms.capture[Digit(c) + 1].len # CAP_UNFINISHED
\* The innermost capture that is open, or 0.
capture_to_close(ms) ==
    LET open == {l \in 1..ms.level : ms.capture[l].len = CAP_UNFINISHED}
    IN IF open = {} THEN 0 ELSE CHOOSE l \in open : \A m \in open : m <= l

RECURSIVE Balanced(_, _, _, _, _)
Balanced(str, s, b, e, cont) ==
    IF s > Len(str) THEN NULL
    ELSE IF str[s] = e THEN (IF cont = 1 THEN s + 1 ELSE Balanced(str, s + 1, b, e, cont - 1))
    ELSE Balanced(str, s + 1, b, e, IF str[s] = b THEN cont + 1 ELSE cont)
matchbalance(x, s, p) == IF At(x.s, s) # At(x.p, p) THEN NULL
                         ELSE Balanced(x.s, s + 1, At(x.p, p), At(x.p, p + 1), 1)

match_capture(x, ms, s, c) ==
    LET cap == ms.capture[Digit(c) + 1]
    IN IF cap.len # CAP_POSITION /\ Len(x.s) - s + 1 >= cap.len
          /\ \A i \in 0..(cap.len - 1) : At(x.s, cap.init + i) = At(x.s, s + i)
       THEN s + cap.len ELSE NULL

RECURSIVE match(_, _, _, _), max_expand(_, _, _, _, _), min_expand(_, _, _, _, _)

\* How often the single item matches from s on.
RECURSIVE Count(_, _, _, _)
Count(x, s, p, ep) == IF Single(x, s, p, ep) THEN 1 + Count(x, s + 1, p, ep) ELSE 0

max_expand(x, ms, s, i, ep) ==
    LET r == match(x, ms, s + i, ep + 1)
    IN IF r.error \/ r.e # NULL \/ i = 0 THEN r ELSE max_expand(x, r.ms, s, i - 1, ep)

min_expand(x, ms, s, p, ep) ==
    LET r == match(x, ms, s, ep + 1)
    IN IF r.error \/ r.e # NULL \/ ~Single(x, s, p, ep) THEN r ELSE min_expand(x, r.ms, s + 1, p, ep)

start_capture(x, ms, s, p, what) ==
    LET level == ms.level + 1
        opened == [level |-> level, capture |-> [ms.capture EXCEPT ![level] = [init |-> s, len |-> what]]]
        r == match(x, opened, s, p)
    IN IF ms.level >= MAX_CAPTURES THEN Error(ms)
       ELSE IF r.e = NULL THEN [r EXCEPT !.ms.level = @ - 1] ELSE r

\* Mutant: a capture stays closed when the rest does not match.
end_capture_kept(x, ms, s, p) ==
    LET l == capture_to_close(ms)
    IN IF l = 0 THEN Error(ms)
       ELSE match(x, [ms EXCEPT !.capture[l].len = s - ms.capture[l].init], s, p)

end_capture(x, ms, s, p) ==
    LET l == capture_to_close(ms)
        r == match(x, [ms EXCEPT !.capture[l].len = s - ms.capture[l].init], s, p)
    IN IF l = 0 THEN Error(ms)
       ELSE IF r.e = NULL THEN [r EXCEPT !.ms.capture[l].len = CAP_UNFINISHED] ELSE r

\* %f[set]: a change from outside the set to inside.
Frontier(x, ms, s, p) ==
    LET ep == luaI_classend(x.p, p)
        previous == IF s = 1 THEN "end" ELSE At(x.s, s - 1)
    IN IF At(x.p, p) # "[" \/ ep = NULL THEN Error(ms)
       ELSE IF matchbracketclass(x.p, previous, p, ep - 1) \/ ~matchbracketclass(x.p, At(x.s, s), p, ep - 1)
            THEN Gives(NULL, ms) ELSE match(x, ms, s, ep)

\* A pattern item: a single one and what says how often.
Item(x, ms, s, p) ==
    LET ep == luaI_classend(x.p, p)
        m == Single(x, s, p, ep)
        once == match(x, ms, s + 1, ep + 1)
        Skip(w) == match(x, w, s, ep + 1)
    IN IF ep = NULL THEN Error(ms)
       ELSE CASE At(x.p, ep) = "?" -> IF m THEN (IF once.error \/ once.e # NULL THEN once ELSE Skip(once.ms)) ELSE Skip(ms)
              [] At(x.p, ep) = "*" -> max_expand(x, ms, s, Count(x, s, p, ep), ep)
              [] At(x.p, ep) = "+" -> IF m THEN max_expand(x, ms, s + 1, Count(x, s + 1, p, ep), ep) ELSE Gives(NULL, ms)
              [] At(x.p, ep) = "-" -> min_expand(x, ms, s, p, ep)
              [] OTHER             -> IF m THEN match(x, ms, s + 1, ep) ELSE Gives(NULL, ms)

match(x, ms, s, p) ==
    LET c == At(x.p, p)
        d == At(x.p, p + 1)
        balance == matchbalance(x, s, p + 2)
        back == match_capture(x, ms, s, d)
    IN CASE c = "(" /\ d = ")"    -> start_capture(x, ms, s, p + 2, CAP_POSITION)
         [] c = "(" /\ d # ")"    -> start_capture(x, ms, s, p + 1, CAP_UNFINISHED)
         [] c = ")"               -> end_capture(x, ms, s, p + 1)
         [] c = ESC /\ d = "b"    -> IF "end" \in {At(x.p, p + 2), At(x.p, p + 3)} THEN Error(ms)
                                     ELSE IF balance = NULL THEN Gives(NULL, ms) ELSE match(x, ms, balance, p + 4)
         [] c = ESC /\ d = "f"    -> Frontier(x, ms, s, p + 2)
         [] c = ESC /\ isdigit(d) -> IF ~check_capture(ms, d) THEN Error(ms)
                                     ELSE IF back = NULL THEN Gives(NULL, ms) ELSE match(x, ms, back, p + 2)
         [] c = "end"              -> Gives(s, ms)
         [] c = "$" /\ d = "end"   -> Gives(IF s = Len(x.s) + 1 THEN s ELSE NULL, ms)
         [] OTHER                 -> Item(x, ms, s, p)

-----------------------------------------------------------------------------
(* What the library functions do with it.                                   *)

NewState == [level |-> 0, capture |-> [i \in 1..MAX_CAPTURES |-> [init |-> 0, len |-> 0]]]
Captures(ms) == [i \in 1..ms.level |-> ms.capture[i]]

\* push_captures refuses captures that are still open.
Unfinished(ms) == \E i \in 1..ms.level : ms.capture[i].len = CAP_UNFINISHED
Matched(s, r) == IF r.error \/ (r.e # NULL /\ Unfinished(r.ms)) THEN <<"error">>
                 ELSE IF r.e = NULL THEN <<"no">> ELSE <<"match", s, r.e, Captures(r.ms)>>

Anchored(p) == At(p, 1) = "^"
Unanchored(p) == IF Anchored(p) THEN Tail(p) ELSE p

\* lmemfind: the first place of a plain string, or NULL.
lmemfind(str, from, p) ==
    LET at == {i \in from..(Len(str) - Len(p) + 1) : SubSeq(str, i, i + Len(p) - 1) = p}
    IN IF at = {} THEN NULL ELSE CHOOSE i \in at : \A j \in at : i <= j

\* r is the outcome of match at s.
RECURSIVE FindFrom(_, _, _, _)
Tried(x, s, r, anchor) ==
    IF r.error \/ r.e # NULL \/ anchor \/ s > Len(x.s) THEN Matched(s, r) ELSE FindFrom(x, s + 1, r.ms, anchor)
FindFrom(x, s, ms, anchor) == Tried(x, s, match(x, [ms EXCEPT !.level = 0], s, 1), anchor)

\* A position counted from the end when it is negative.
posrelat(pos, len) == IF pos >= 0 THEN pos ELSE len + pos + 1
\* From where find searches.
FindInit(str, pos) == LET init == posrelat(pos, Len(str)) IN IF init < 1 THEN 1 ELSE IF init > Len(str) + 1 THEN Len(str) + 1 ELSE init

Plain(p, at) == IF at = NULL THEN <<"no">> ELSE <<"match", at, at + Len(p), << >>>>
str_find(str, p, pos) ==
    IF {p[i] : i \in DOMAIN p} \cap SPECIALS = {} THEN Plain(p, lmemfind(str, FindInit(str, pos), p))
    ELSE FindFrom([s |-> str, p |-> Unanchored(p)], FindInit(str, pos), NewState, Anchored(p))

\* The mark of an error in a list of places.
Failed == <<<<0>>>>

\* The iterator of gfind, until it returns nothing: where the matches are.
RECURSIVE gfind(_, _, _)
gfind_aux(x, ms, f) ==
    CASE f[1] = "no"    -> << >>
      [] f[1] = "error" -> Failed
      [] OTHER          -> <<<<f[2], f[3]>>>> \o gfind(x, IF f[3] = f[2] THEN f[3] + 1 ELSE f[3], ms)
gfind(x, src, ms) == IF src > Len(x.s) + 1 THEN << >> ELSE gfind_aux(x, ms, FindFrom(x, src, ms, FALSE))

\* gsub, with a function that returns its argument: what the buffer gets, <<i>> for a
\* character and <<i, j>> for the piece from i to before j.  r is the outcome at src.
RECURSIVE GsubFrom(_, _, _, _, _)
Others(x, i) == [k \in 1..(Len(x.s) + 1 - i) |-> <<k + i - 1>>]
GsubOn(x, src, r, anchor, n) ==
    IF src > Len(x.s) /\ (r.e = NULL \/ r.e <= src) THEN << >>
    ELSE LET next == IF r.e # NULL /\ r.e > src THEN r.e ELSE src + 1
         IN IF anchor THEN Others(x, next) ELSE GsubFrom(x, next, r.ms, FALSE, n)

\* Mutant: the character after an empty match is skipped.
GsubStep_skip(x, src, r, anchor, n) ==
    CASE r.error \/ (r.e # NULL /\ Unfinished(r.ms)) -> Failed
      [] r.e # NULL -> <<<<src, r.e>>>> \o GsubOn(x, src, r, anchor, n - 1)
      [] OTHER      -> (IF src > Len(x.s) THEN << >> ELSE <<<<src>>>>) \o GsubOn(x, src, r, anchor, n)

GsubStep(x, src, r, anchor, n) ==
    CASE r.error \/ (r.e # NULL /\ Unfinished(r.ms)) -> Failed
      [] r.e # NULL -> <<<<src, r.e>>>> \o (IF r.e > src \/ src > Len(x.s) THEN << >> ELSE <<<<src>>>>)
                                       \o GsubOn(x, src, r, anchor, n - 1)
      [] OTHER      -> (IF src > Len(x.s) THEN << >> ELSE <<<<src>>>>) \o GsubOn(x, src, r, anchor, n)
GsubFrom(x, src, ms, anchor, n) ==
    IF n = 0 THEN Others(x, src) ELSE GsubStep(x, src, match(x, [ms EXCEPT !.level = 0], src, 1), anchor, n)
str_gsub(str, p, max_s) == GsubFrom([s |-> str, p |-> Unanchored(p)], 1, NewState, Anchored(p), max_s)

-----------------------------------------------------------------------------
(* Every pattern of the pieces, with every subject.                         *)

Subjects == UNION {[1..n -> Chars] : n \in 0..MaxSubject}
RECURSIVE Joined(_)
Joined(items) == IF items = << >> THEN << >> ELSE Head(items) \o Joined(Tail(items))

Init == pat = << >> /\ subject \in Subjects
Next == /\ Len(pat) < MaxItems
        /\ \E i \in Items : pat' = Append(pat, i)
        /\ UNCHANGED subject
Spec == Init /\ [][Next]_vars
=============================================================================
