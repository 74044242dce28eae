------------------------------- MODULE Pmfile -------------------------------
(***************************************************************************)
(* What a pmfile says (src/src/pm.lua): how clauses are made from clauses  *)
(* (metaclass, node:__init and the clauses' own __init), the property      *)
(* scope (node:__index), the expansion of %...% in strings (node:__expand) *)
(* and the outputs of every kind of clause, as the walk over the nodes     *)
(* asks for them.  Which nodes are built is in BuildEngine; here all are,  *)
(* or none.                                                                *)
(*                                                                         *)
(* The sixth and seventh kinds are simple, and simple with the hooks that  *)
(* src/lib/c.pm gives it for dynamic headers ("clike").                    *)
(*                                                                         *)
(* A clause is an object that is visited as often as it is referred to,    *)
(* each time in the scope of the clauses around it, and each visit leaves  *)
(* fields behind: in, out, I and U.                                        *)
(*                                                                         *)
(* A text is a sequence of atoms, "%" among them; the text between two     *)
(* "%" is the name of a property, with a selector and a modifier.          *)
(***************************************************************************)
EXTENDS Integers, Sequences, FiniteSets, SequencesExt, TLC

CONSTANTS
    Pmfiles,     \* the pmfiles: their statements, in order
    Upper,       \* the names of properties that begin with a capital letter
    Selectors,   \* what the selectors select: [from, hyphen, to], NoNumber where nothing is
    NoNumber,
    MaxDepth     \* bound: calls that wait on the Lua stack

VARIABLES
    pmfile,      \* the pmfile, a statement for each clause or global property
    rebuild,     \* whether the clauses have to be built
    at,          \* the statement that is next
    heap,        \* the clauses, in the order they were made
    names,       \* the pmfile's names for them
    globals,     \* its global properties
    scope,       \* scope: the clauses around the present one, innermost first
    frames,      \* the __build calls, innermost last
    x,           \* the __expand call, and the __index call it waits for
    cache,       \* intermediate_cache
    log,         \* history: what was built
    status

\* What is settled once the pmfile has been loaded.
loaded == <<pmfile, rebuild, at, names, globals>>
vars == <<pmfile, rebuild, at, heap, names, globals, scope, frames, x, cache, log, status>>

(* Values: a string, a number, a list of strings, EMPTY, a list that begins with PARENT,  *)
(* {REDIRECT, key}, and a clause.                                                         *)
Str(s)      == <<"s", s>>
Num(n)      == <<"n", n>>
List(l)     == <<"t", l>>
EMPTY       == <<"empty", << >>>>
PARENT(l)   == <<"parent", l>>
REDIRECT(k) == <<"redirect", k>>
Obj(o)      == <<"o", o>>
Nil         == <<"nil", << >>>>

IsTable(v)  == v[1] \in {"t", "empty"}
Strings(v)  == CASE IsTable(v) -> v[2] [] v[1] = "s" -> <<v[2]>> [] v[1] = "n" -> <<<<ToString(v[2])>>>>

Objs(l)     == <<"objs", l>>

Empty     == [f \in {} |-> Nil]
Kinds     == <<"file", "group", "deponly", "ith", "foreach", "simple", "clike">>
Library   == [k \in DOMAIN Kinds |-> [kind |-> Kinds[k], fields |-> Empty, kids |-> << >>]]
NoName    == [key |-> "", sel |-> NoNumber, mod |-> NoNumber]
Off       == [on |-> FALSE, done |-> << >>, rest |-> << >>, again |-> FALSE,
              name |-> NoName, pos |-> 0, waiting |-> << >>]

Init == /\ pmfile \in Pmfiles
        /\ rebuild \in BOOLEAN
        /\ at = 1
        /\ heap = Library
        /\ names = [n \in ToSet(Kinds) |-> CHOOSE k \in DOMAIN Kinds : Kinds[k] = n]
        /\ globals = Empty /\ cache = Empty
        /\ scope = << >> /\ frames = << >> /\ log = << >>
        /\ x = Off
        /\ status = "loading"

Error == status' = "error" /\ UNCHANGED <<loaded, heap, scope, frames, x, cache, log>>

-----------------------------------------------------------------------------
(* Making clauses.                                                          *)

Has(o, f) == f \in DOMAIN o.fields
IsRule(o) == o.kind \in {"simple", "clike"}

\* What the __init of a kind asks of a clause that is no class...
FileInit(o)    == \A k \in DOMAIN o.kids : o.kids[k][1] = "s"
IthInit(o)     == /\ ~(Has(o, "i") /\ (Has(o, "from") \/ Has(o, "to")))
                  /\ \A f \in {"i", "from", "to"} : Has(o, f) => o.fields[f][1] = "n"
ForeachInit(o) == Has(o, "rule") /\ o.fields.rule[1] = "o"
SimpleInit(o)  == /\ Has(o, "outputs") /\ IsTable(o.fields.outputs)
                  /\ Has(o, "command") /\ (IsTable(o.fields.command) \/ o.fields.command[1] = "s")
ClikeInit(o)   == Has(o, "dynamicheaders") => o.fields.dynamicheaders[1] \in {"o", "objs"}
Valid(o) == /\ o.kind \in {"file", "deponly", "ith"} => o.kids # << >>
            /\ CASE o.kind = "file"    -> FileInit(o)
                 [] o.kind = "ith"     -> IthInit(o)
                 [] o.kind = "foreach" -> ForeachInit(o)
                 [] o.kind = "simple"  -> SimpleInit(o)
                 [] o.kind = "clike"   -> SimpleInit(o) /\ ClikeInit(o)
                 [] OTHER              -> TRUE

\* ... and what it makes of it.
Normal(o) ==
    LET list(f) == IF Has(o, f) THEN f :> List(Strings(o.fields[f])) ELSE Empty
        range   == IF o.kind = "ith" /\ Has(o, "i") THEN "from" :> o.fields.i @@ "to" :> o.fields.i ELSE Empty
        command == IF IsRule(o) THEN list("command") ELSE Empty
        headers == IF o.kind = "clike" /\ Has(o, "dynamicheaders") /\ o.fields.dynamicheaders[1] = "o"
                   THEN "dynamicheaders" :> Objs(<<o.fields.dynamicheaders[2]>>) ELSE Empty
    IN [o EXCEPT !.fields = list("install") @@ command @@ range @@ headers @@ @]

\* construct_string_children_with: the strings among the children of a simple clause
\* become file clauses, which come before it on the heap.
StringKids(o) == IF IsRule(o) THEN SelectSeq(o.kids, LAMBDA k : k[1] = "s") ELSE << >>
Converted(o, size) ==
    [k \in DOMAIN o.kids |->
        IF IsRule(o) /\ o.kids[k][1] = "s"
        THEN Obj(size + Cardinality({m \in 1..k : o.kids[m][1] = "s"})) ELSE o.kids[k]]

\* base {fields, kids}: a copy of base with more fields and children; a class is not
\* looked at any further.  The new clause is the last on the heap.
New(h, base, fields, kids) ==
    LET o == [kind |-> h[base].kind, fields |-> fields @@ h[base].fields, kids |-> h[base].kids \o kids]
        strings == StringKids(o)
        files == [k \in DOMAIN strings |-> [kind |-> "file", fields |-> Empty, kids |-> <<strings[k]>>]]
        new == Normal([o EXCEPT !.kids = Converted(o, Len(h))])
    IN IF "class" \in DOMAIN fields THEN [ok |-> TRUE, heap |-> Append(h, o)]
       ELSE [ok |-> Valid(o), heap |-> IF Valid(o) THEN h \o files \o <<new>> ELSE h]

Statement == pmfile[at]
Named(v) == CASE v[1] = "name"  -> Obj(names[v[2]])
              [] v[1] = "names" -> Objs([k \in DOMAIN v[2] |-> names[v[2][k]]])
              [] OTHER          -> v
Mentioned(s) == LET values == ToSet(s.kids) \cup {s.fields[f] : f \in DOMAIN s.fields}
                IN {s.base} \cup {v[2] : v \in {v \in values : v[1] = "name"}}
                   \cup UNION {ToSet(v[2]) : v \in {v \in values : v[1] = "names"}}

SetGlobal == /\ status = "loading" /\ at <= Len(pmfile)
             /\ Statement.is = "property"
             /\ globals' = Statement.name :> Statement.value @@ globals
             /\ at' = at + 1
             /\ UNCHANGED <<pmfile, rebuild, heap, names, scope, frames, x, cache, log, status>>

MakeClause ==
    /\ status = "loading" /\ at <= Len(pmfile)
    /\ Statement.is = "clause"
    /\ LET fields == [f \in DOMAIN Statement.fields |-> Named(Statement.fields[f])]
           kids   == [k \in DOMAIN Statement.kids |-> Named(Statement.kids[k])]
           made   == New(heap, names[Statement.base], fields, kids)
       IN IF Mentioned(Statement) \subseteq DOMAIN names /\ made.ok
          THEN /\ heap' = made.heap
               /\ names' = Statement.name :> Len(made.heap) @@ names
               /\ at' = at + 1
               /\ UNCHANGED <<pmfile, rebuild, globals, scope, frames, x, cache, log, status>>
          ELSE Error

-----------------------------------------------------------------------------
(* The walk: node:__build.  A frame is at its children ("kids"), at the     *)
(* instances of its rule ("rule"), or expands the strings of a stage.       *)

Top  == frames[Len(frames)]
Self == heap[Top.node]
WithTop(f) == [frames EXCEPT ![Len(frames)] = f]
Frame(n) == [node |-> n, at |-> "kids", k |-> 1, inputs |-> << >>, between |-> << >>, outs |-> << >>,
             cmds |-> << >>, inst |-> << >>]

\* The beginning of a __buildchildren: a file clause only hands its strings on.
Enter(fs, n) ==
    LET kids == heap'[n].kids
    IN IF heap'[n].kind = "file"
       THEN /\ frames' = Append(fs, [Frame(n) EXCEPT !.at = "outputs", !.inputs = [k \in DOMAIN kids |-> kids[k][2]]])
            /\ UNCHANGED scope
       ELSE frames' = Append(fs, Frame(n)) /\ scope' = <<n>> \o scope

\* The driver: the target is the pmfile's default.
Start == /\ status = "loading" /\ at > Len(pmfile)
         /\ status' = "running"
         /\ UNCHANGED heap /\ Enter(<< >>, names.default)
         /\ UNCHANGED <<loaded, x, cache, log>>

Walking(stage) == status = "running" /\ frames # << >> /\ ~x.on /\ Top.at = stage

BuildChild ==
    /\ Walking("kids") /\ Top.k <= Len(Self.kids)
    /\ IF Self.kids[Top.k][1] = "o"
       THEN /\ UNCHANGED heap /\ Enter(WithTop([Top EXCEPT !.k = @ + 1]), Self.kids[Top.k][2])
            /\ UNCHANGED <<loaded, x, cache, log, status>>
       ELSE Error

\* foreach: its rule is made into a clause for each output of the children.
BuildRule ==
    /\ Walking("rule") /\ Top.k <= Len(Top.between)
    /\ LET made == New(heap, Self.fields.rule[2], Empty, <<Str(Top.between[Top.k])>>)
       IN IF made.ok
          THEN /\ heap' = made.heap
               /\ Enter(WithTop([Top EXCEPT !.k = @ + 1]), Len(made.heap))
               /\ UNCHANGED <<loaded, x, cache, log, status>>
          ELSE Error

RuleNext == /\ Walking("kids") /\ Top.k > Len(Self.kids) /\ Self.kind = "foreach"
            /\ frames' = WithTop([Top EXCEPT !.at = "rule", !.k = 1, !.between = Top.inputs, !.inputs = << >>])
            /\ UNCHANGED <<loaded, heap, scope, x, cache, log, status>>

\* clike: the dynamic headers are built with the children, for their directories, and
\* again, outside of the clause's scope, for its dependencies.
Headers == IF Has(Self, "dynamicheaders") THEN Self.fields.dynamicheaders[2] ELSE << >>
HeadersNext == /\ Walking("kids") /\ Top.k > Len(Self.kids) /\ Self.kind = "clike"
               /\ frames' = WithTop([Top EXCEPT !.at = "headers", !.k = 1])
               /\ heap' = [heap EXCEPT ![Top.node].fields = "CDYNINCLUDES" :> List(<< >>) @@ @]
               /\ UNCHANGED <<loaded, scope, x, cache, log, status>>
BuildHeader == /\ Walking("headers") \/ Walking("depends")
               /\ Top.k <= Len(Headers)
               /\ UNCHANGED heap /\ Enter(WithTop([Top EXCEPT !.k = @ + 1]), Headers[Top.k])
               /\ UNCHANGED <<loaded, x, cache, log, status>>
HeadersDone == /\ Walking("headers") /\ Top.k > Len(Headers)
               /\ heap' = IF Self.fields.CDYNINCLUDES = List(<< >>)
                          THEN [heap EXCEPT ![Top.node].fields = "CDYNINCLUDES" :> EMPTY @@ @] ELSE heap
               /\ scope' = Tail(scope)
               /\ frames' = WithTop([Top EXCEPT !.at = "outputs"])
               /\ UNCHANGED <<loaded, x, cache, log, status>>
DependsDone == /\ Walking("depends") /\ Top.k > Len(Headers)
               /\ frames' = WithTop([Top EXCEPT !.at = "command", !.k = 1])
               /\ UNCHANGED <<loaded, heap, scope, x, cache, log, status>>

\* The scope ends with the children.
ChildrenDone == /\ \/ Walking("kids") /\ Top.k > Len(Self.kids) /\ Self.kind \notin {"foreach", "clike"}
                   \/ Walking("rule") /\ Top.k > Len(Top.between)
                /\ scope' = Tail(scope)
                /\ frames' = WithTop([Top EXCEPT !.at = "outputs"])
                /\ UNCHANGED <<loaded, heap, x, cache, log, status>>

-----------------------------------------------------------------------------
(* Outputs.                                                                 *)

\* The name of a file without directory and extensions, and its directory.
Places(c, t) == {i \in DOMAIN t : t[i] = c}
BaseName(t) ==
    LET name == IF Places("/", t) = {} THEN t ELSE SubSeq(t, Max(Places("/", t)) + 1, Len(t))
    IN IF Places(".", name) = {} THEN name ELSE SubSeq(name, 1, Min(Places(".", name)) - 1)
DirName(t) == IF Places("/", t) = {} THEN <<".">> ELSE SubSeq(t, 1, Max(Places("/", t)) - 1)

Number(o, f, default) == IF Has(o, f) THEN o.fields[f][2] ELSE default

OutputCount(o, inputs) == Number(o, "only_n_children_are_outputs", Len(inputs))

\* ith: with no upper end, a range that begins behind the inputs selects nothing.
Selected(o, inputs) ==
    LET n == Len(inputs)
        from == Number(o, "from", 1)
        to == Number(o, "to", n)
    IN [ok |-> from >= 1 /\ to <= n, outs |-> IF from >= 1 /\ to <= n THEN SubSeq(inputs, from, to) ELSE << >>]

FirstName(inputs) == Str(IF inputs = << >> THEN << >> ELSE BaseName(inputs[1]))

\* Mutant: the outputs of the last visit are still there when the key is computed.
Visit_stale(o, inputs) ==
    [o EXCEPT !.fields = "in" :> List(inputs)
                         @@ (IF IsRule(o)
                             THEN "I" :> FirstName(inputs) @@ "U" :> Num(0) ELSE Empty)
                         @@ (IF Has(o, "out") THEN Empty ELSE "out" :> List(<< >>)) @@ @]

\* The fields that __build and simple's __outputs set before anything is expanded.
Visit(o, inputs) ==
    [o EXCEPT !.fields = "in" :> List(inputs)
                         @@ (IF IsRule(o)
                             THEN "I" :> FirstName(inputs) @@ "U" :> Num(0) @@ "out" :> List(<< >>)
                             ELSE Empty) @@ @]

NextStage == CASE Self.kind = "file" -> "file" [] IsRule(Self) -> "draft" [] OTHER -> "install"
AskOutputs ==
    /\ Walking("outputs")
    /\ LET range == Selected(Self, Top.inputs)
           outs  == CASE Self.kind \in {"group", "foreach"} -> Top.inputs
                      [] Self.kind = "ith" -> range.outs
                      [] OTHER -> << >>
           o     == IF Self.kind = "file" \/ IsRule(Self) THEN Visit(Self, Top.inputs)
                    ELSE [Visit(Self, Top.inputs) EXCEPT !.fields = "out" :> List(outs) @@ @]
       IN IF \/ Self.kind = "ith" /\ ~range.ok
             \/ Self.kind = "file" /\ OutputCount(Self, Top.inputs) > Len(Top.inputs)
          THEN Error
          ELSE /\ heap' = [heap EXCEPT ![Top.node] = o]
               /\ frames' = WithTop([Top EXCEPT !.at = NextStage, !.k = 1, !.outs = outs])
               /\ UNCHANGED <<loaded, scope, x, cache, log, status>>

\* Mutant: only the first command goes into the key.
Joined_first(cmds) == cmds[1]
Joined(cmds) == FlattenSeq([k \in DOMAIN cmds |-> IF k = 1 THEN cmds[k] ELSE <<" && ">> \o cmds[k]])

\* The strings that a stage expands.  A file clause expands its outputs, and again for
\* their timestamps; a simple clause its outputs for the key, the key, its outputs, and
\* when it is built its commands; any clause what installs it.
Texts == CASE Top.at = "file"    -> SubSeq(Top.inputs, 1, OutputCount(Self, Top.inputs))
           [] Top.at = "stat"    -> Top.outs
           [] Top.at \in {"draft", "final"} -> Self.fields.outputs[2]
           [] Top.at = "key"     -> <<Joined(Self.fields.command[2])>>
           [] Top.at = "command" -> IF rebuild THEN Self.fields.command[2] ELSE << >>
           [] Top.at = "install" -> IF Has(Self, "install") THEN Self.fields.install[2] ELSE << >>
Stages == {"file", "stat", "draft", "key", "final", "command", "install"}
Expanding == status = "running" /\ frames # << >> /\ Top.at \in Stages

BeginExpand == /\ Expanding /\ ~x.on /\ Top.k <= Len(Texts)
               /\ x' = [Off EXCEPT !.on = TRUE, !.rest = Texts[Top.k]]
               /\ UNCHANGED <<loaded, heap, scope, frames, cache, log, status>>

\* A string has been expanded.
KeyOf(text) == IF text \in DOMAIN cache THEN cache[text] ELSE Cardinality(DOMAIN cache) + 1
Unique(id) == Str(<<".pm-cache", "/", ToString(id)>>)
AddOut(o, text) == [o EXCEPT !.fields = "out" :> List(Append(o.fields.out[2], text)) @@ @]
Expanded(text) ==
    /\ x' = Off
    /\ frames' = WithTop(CASE Top.at = "file"    -> [Top EXCEPT !.k = @ + 1, !.outs = Append(@, text)]
                           [] Top.at \in {"stat", "command"} -> [Top EXCEPT !.k = @ + 1, !.cmds = Append(@, text)]
                           [] Top.at = "install" -> [Top EXCEPT !.k = @ + 1, !.inst = Append(@, text)]
                           [] OTHER              -> [Top EXCEPT !.k = @ + 1])
    /\ heap' = CASE Top.at \in {"draft", "final"} -> [heap EXCEPT ![Top.node] = AddOut(Self, text)]
                 [] Top.at = "key" -> [heap EXCEPT ![Top.node].fields = "U" :> Unique(KeyOf(text)) @@ "out" :> List(<< >>) @@ @]
                 [] OTHER -> heap
    /\ cache' = IF Top.at = "key" THEN text :> KeyOf(text) @@ cache ELSE cache
    /\ UNCHANGED <<loaded, scope, log, status>>

\* clike looks for the dependencies of its first input.
Sourceless == Top.at = "final" /\ Self.kind = "clike" /\ Top.inputs = << >>
NoSource == Expanding /\ ~x.on /\ Top.k > Len(Texts) /\ Sourceless /\ Error
StageDone ==
    /\ Expanding /\ ~x.on /\ Top.k > Len(Texts) /\ Top.at # "install" /\ ~Sourceless
    /\ LET done == IF Top.at = "final" THEN [Top EXCEPT !.outs = Self.fields.out[2]] ELSE Top
           next == CASE Top.at = "file" -> "stat" [] Top.at = "draft" -> "key" [] Top.at = "key" -> "final"
                     [] Top.at = "final" -> IF Self.kind = "clike" THEN "depends" ELSE "command" [] OTHER -> "install"
       IN frames' = WithTop([done EXCEPT !.at = next, !.k = 1])
    /\ heap' = IF Top.at = "file" THEN [heap EXCEPT ![Top.node].fields = "out" :> List(Top.outs) @@ @] ELSE heap
    /\ UNCHANGED <<loaded, scope, x, cache, log, status>>

AddDirectory(o, t) ==
    LET dir == IF Places("/", t) = {} THEN t ELSE DirName(t)
    IN [o EXCEPT !.fields = "CDYNINCLUDES" :> List(Append(o.fields.CDYNINCLUDES[2], dir)) @@ @]

\* The end of __build.
Return ==
    /\ Walking("install") /\ Top.k > Len(Texts)
    /\ log' = Append(log, [rule |-> IsRule(Self), ins |-> Top.inputs, outs |-> Top.outs,
                           uses |-> Top.cmds, inst |-> Top.inst])
    /\ status' = IF Len(frames) = 1 THEN "done" ELSE status
    /\ LET rest   == Front(frames)
           caller == rest[Len(rest)]
       IN /\ frames' = IF rest = << >> \/ caller.at \in {"headers", "depends"} THEN rest
                       ELSE [rest EXCEPT ![Len(rest)].inputs = @ \o Top.outs]
          /\ heap' = IF rest # << >> /\ caller.at = "headers" /\ Top.outs # << >>
                     THEN [heap EXCEPT ![caller.node] = AddDirectory(@, Top.outs[1])] ELSE heap
    /\ UNCHANGED <<loaded, scope, x, cache>>

-----------------------------------------------------------------------------
(* Expansion: node:__expand goes over the string until it finds nothing     *)
(* more to replace.  What it has put in is looked at the next time.         *)

\* Mutant: searching is not set back to false.
Again_kept(text) == [Off EXCEPT !.on = TRUE, !.again = TRUE, !.rest = text]
Again(text) == [Off EXCEPT !.on = TRUE, !.rest = text]
Replace(text, after) == x' = [Off EXCEPT !.on = TRUE, !.done = x.done \o text, !.rest = after, !.again = TRUE]

\* The name of a property, with [..] and :.. behind it.
Parsed(t) ==
    LET sel == Len(t) > 1 /\ t[2] \in DOMAIN Selectors
        mod == IF sel THEN 3 ELSE 2
    IN [key |-> t[1], sel |-> IF sel THEN t[2] ELSE NoNumber,
        mod |-> IF Len(t) >= mod THEN t[mod] ELSE NoNumber]

GoOver ==
    /\ Expanding /\ x.on /\ x.pos = 0
    /\ LET P == Places("%", x.rest)
           i == Min(P)
           j == Min(P \ {i})
           before == SubSeq(x.rest, 1, i - 1)
           after  == SubSeq(x.rest, j + 1, Len(x.rest))
           whole  == x.done \o x.rest
       IN IF Cardinality(P) < 2
          THEN IF x.again
               THEN /\ x' = Again(whole)
                    /\ UNCHANGED <<loaded, heap, scope, frames, cache, log, status>>
               ELSE Expanded([c \in DOMAIN whole |-> IF whole[c] = "PERCENT" THEN "%" ELSE whole[c]])
          ELSE /\ IF j = i + 1 THEN Replace(before \o <<"PERCENT">>, after)
                  ELSE x' = [x EXCEPT !.done = @ \o before, !.rest = after, !.pos = 1, !.waiting = << >>,
                                      !.name = Parsed(SubSeq(x.rest, i + 1, j - 1))]
               /\ UNCHANGED <<loaded, heap, scope, frames, cache, log, status>>

\* A list in a string.
Quoted(l) == <<"\"">> \o FlattenSeq([k \in DOMAIN l |-> IF k = 1 THEN l[k] ELSE <<"\" \"">> \o l[k]]) \o <<"\"">>
Render(v) == IF v[1] = "t" THEN Quoted(v[2]) ELSE IF v[1] = "empty" THEN << >> ELSE Strings(v)[1]

\* A selector on a list; a modifier on what it leaves.
Select(v, s) ==
    LET n == Len(v[2])
        from == IF s.from # NoNumber THEN s.from ELSE IF s.hyphen THEN 1 ELSE NoNumber
        to == IF s.to # NoNumber THEN s.to ELSE IF s.hyphen THEN n ELSE from
    IN IF IsTable(v) /\ from # NoNumber /\ 1 <= from /\ from <= to /\ to <= n
       THEN List(SubSeq(v[2], from, to)) ELSE Nil
Prepended(m, t) == CASE m = "cincludes" -> <<"-I">> \o t
                     [] m = "cdefines"  -> <<"-D">> \o t
                     [] m = "clibraries" -> IF Len(t) > 1 /\ SubSeq(t, Len(t) - 1, Len(t)) = <<".", "a">> THEN t
                                            ELSE <<"-l">> \o t
Modify(v, m) ==
    CASE m = "dirname" /\ ~(IsTable(v) /\ Len(v[2]) # 1) -> Str(DirName(Strings(v)[1]))
      [] m \in {"cincludes", "cdefines", "clibraries"} /\ IsTable(v) ->
            IF v = EMPTY THEN EMPTY ELSE List([k \in DOMAIN v[2] |-> Prepended(m, v[2][k])])
      [] OTHER -> Nil
Chosen(v, name) ==
    LET s == IF name.sel = NoNumber \/ v = Nil THEN v ELSE Select(v, Selectors[name.sel])
    IN IF name.mod = NoNumber \/ s = Nil THEN s ELSE Modify(s, name.mod)

\* The value is put into the string; some values do not go into strings.
Put(v) == LET chosen == Chosen(v, x.name)
          IN IF chosen[1] \in {"s", "n", "t", "empty"}
             THEN /\ Replace(Render(chosen), x.rest)
                  /\ UNCHANGED <<loaded, heap, scope, frames, cache, log, status>>
             ELSE Error

-----------------------------------------------------------------------------
(* Properties: node:__index looks at the clause itself, at those around it  *)
(* and at the globals; names that begin with a small letter are the         *)
(* clause's own.                                                            *)

Key     == x.name.key
Levels  == Len(scope) + 2
Level(p) == IF p = 1 THEN Self.fields ELSE IF p < Levels THEN heap[scope[p - 1]].fields ELSE globals
Here    == IF x.pos <= Levels /\ Key \in DOMAIN Level(x.pos) THEN Level(x.pos)[Key] ELSE Nil
Looking == Expanding /\ x.pos > 0

\* The lists that wait for their parents are appended to what was found.
Completed(v) ==
    IF x.waiting = << >> THEN v
    ELSE List((IF v = Nil THEN << >> ELSE Strings(v)) \o FlattenSeq(Reverse(x.waiting)))

LookOut == /\ Looking /\ Here = Nil /\ Key \in Upper /\ x.pos <= Levels
           /\ x' = [x EXCEPT !.pos = @ + 1]
           /\ UNCHANGED <<loaded, heap, scope, frames, cache, log, status>>
AskParent == /\ Looking /\ Here[1] = "parent" /\ Key \in Upper
             /\ IF Len(x.waiting) = MaxDepth THEN Error
                ELSE /\ x' = [x EXCEPT !.pos = @ + 1, !.waiting = Append(@, Here[2])]
                     /\ UNCHANGED <<loaded, heap, scope, frames, cache, log, status>>
Redirect == /\ Looking /\ Here[1] = "redirect" /\ Key \in Upper
            /\ x' = [x EXCEPT !.pos = 1, !.name.key = Here[2]]
            /\ UNCHANGED <<loaded, heap, scope, frames, cache, log, status>>
Found == /\ Looking
         /\ IF Key \in Upper THEN (Here = Nil /\ x.pos > Levels) \/ Here[1] \notin {"nil", "parent", "redirect"}
            ELSE TRUE
         /\ Put(Completed(Here))

Next == \/ SetGlobal \/ MakeClause \/ Start
        \/ BuildChild \/ RuleNext \/ BuildRule \/ ChildrenDone
        \/ HeadersNext \/ BuildHeader \/ HeadersDone \/ DependsDone
        \/ AskOutputs \/ BeginExpand \/ StageDone \/ NoSource \/ Return
        \/ GoOver \/ LookOut \/ AskParent \/ Redirect \/ Found

Spec == Init /\ [][Next]_vars /\ WF_vars(Next)
=============================================================================
