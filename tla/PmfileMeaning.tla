---------------------------- MODULE PmfileMeaning ----------------------------
(***************************************************************************)
(* What the clauses of a pmfile mean, without objects that are cloned,     *)
(* visited again and written to: a clause has the fields and children that *)
(* it and its classes declare, a property the value it has in the clauses  *)
(* around the reference, a string the text its properties stand for.  The  *)
(* machine of Pmfile has to come to the same builds in the same order.     *)
(*                                                                         *)
(* Names of files are not templates: a "%" in one is "PERCENT" here.       *)
(***************************************************************************)
EXTENDS Pmfile

\* A clause as it is declared, with names in place of objects.
Meant(v) == CASE v[1] = "name" -> Obj(v[2]) [] v[1] = "names" -> Objs(v[2]) [] OTHER -> v
RECURSIVE Declared(_)
Declared(n) ==
    IF n \in ToSet(Kinds) THEN [kind |-> n, fields |-> Empty, kids |-> << >>]
    ELSE LET s == pmfile[CHOOSE k \in DOMAIN pmfile : pmfile[k].is = "clause" /\ pmfile[k].name = n]
             c == Declared(s.base)
         IN [kind |-> c.kind,
             fields |-> [f \in DOMAIN s.fields |-> Meant(s.fields[f])] @@ c.fields,
             kids |-> c.kids \o [k \in DOMAIN s.kids |-> Meant(s.kids[k])]]

Globals == LET P == {k \in DOMAIN pmfile : pmfile[k].is = "property"}
           IN [n \in {pmfile[k].name : k \in P} |-> pmfile[Max({k \in P : pmfile[k].name = n})].value]

\* Every clause is there before it is used, and is one its kind can do something with.
Loads == \A k \in DOMAIN pmfile :
            pmfile[k].is = "clause" =>
                /\ \A n \in Mentioned(pmfile[k]) \ ToSet(Kinds) :
                      \E m \in 1..k - 1 : pmfile[m].is = "clause" /\ pmfile[m].name = n
                /\ "class" \in DOMAIN pmfile[k].fields \/ Valid(Declared(pmfile[k].name))

-----------------------------------------------------------------------------
\* The value of key, as seen from levels[p], levels[1] being the clause that asks.
Bad  == <<"bad", << >>>>
Fuel == 2 * MaxDepth + 4
Nearest(levels, p, key) ==
    LET where == {q \in p..Len(levels) : key \in DOMAIN levels[q] /\ (key \in Upper \/ q = 1)}
    IN IF where = {} THEN 0 ELSE Min(where)
Extended(up, l) == IF up = Bad THEN Bad ELSE List((IF up = Nil THEN << >> ELSE Strings(up)) \o l)

RECURSIVE Value(_, _, _, _)
ValueAt(levels, q, v, key, fuel) ==
    CASE key \in Upper /\ v[1] = "redirect" -> Value(levels, 1, v[2], fuel - 1)
      [] key \in Upper /\ v[1] = "parent" -> Extended(Value(levels, q + 1, key, fuel), v[2])
      [] OTHER -> v
Value(levels, p, key, fuel) ==
    LET q == Nearest(levels, p, key)
    IN IF fuel = 0 THEN Bad
       ELSE IF q = 0 THEN Nil ELSE ValueAt(levels, q, levels[q][key], key, fuel)

\* The text that a template stands for.
None == [ok |-> FALSE, text |-> << >>]
Around(before, middle, after) ==
    IF middle.ok THEN [ok |-> after.ok, text |-> before \o middle.text \o after.text] ELSE None

RECURSIVE Text(_, _, _)
Shown(levels, v, fuel) == IF v[1] \in {"s", "n", "t", "empty"} THEN Text(levels, Render(v), fuel) ELSE None
Property(levels, name, fuel) == Shown(levels, Chosen(Value(levels, 1, name.key, Fuel), name), fuel)
Text(levels, t, fuel) ==
    LET P == Places("%", t)
        i == Min(P)
        j == Min(P \ {i})
    IN IF Cardinality(P) < 2
       THEN [ok |-> fuel > 0, text |-> [c \in DOMAIN t |-> IF t[c] = "%" THEN "PERCENT" ELSE t[c]]]
       ELSE IF fuel = 0 THEN None
       ELSE Around(SubSeq(t, 1, i - 1),
                   IF j = i + 1 THEN [ok |-> TRUE, text |-> <<"PERCENT">>]
                   ELSE Property(levels, Parsed(SubSeq(t, i + 1, j - 1)), fuel - 1),
                   Text(levels, SubSeq(t, j + 1, Len(t)), fuel))

TextsOf(levels, templates) ==
    LET each == [k \in DOMAIN templates |-> Text(levels, templates[k], Fuel)]
    IN [ok |-> \A k \in DOMAIN each : each[k].ok, texts |-> [k \in DOMAIN each |-> each[k].text]]

Also(done, new) == [ok |-> done.ok /\ new.ok, texts |-> Append(done.texts, new.text)]

\* The outputs of a simple clause: each may refer to those before it.
Outputs(levels, own, templates) ==
    FoldLeft(LAMBDA done, t : Also(done, Text(<<"out" :> List(done.texts) @@ own>> \o levels, t, Fuel)),
             [ok |-> TRUE, texts |-> << >>], templates)

Plain(t) == [c \in DOMAIN t |-> IF t[c] = "PERCENT" THEN "%" ELSE t[c]]

-----------------------------------------------------------------------------
\* What a clause has built when it has been visited inside the clauses of levels: its
\* outputs and the builds, in order; up to the first error, if there is one.
Nothing == [ok |-> TRUE, outs |-> << >>, log |-> << >>]
And(a, b) == [ok |-> b.ok, outs |-> a.outs \o b.outs, log |-> a.log \o b.log]
Failed(a) == [a EXCEPT !.ok = FALSE]
With(o, fields) == [o EXCEPT !.fields = fields @@ @]
RECURSIVE Visited(_, _)

\* The children, one after the other; and the rule of a foreach for each of their outputs.
Kid(o, k, inside) ==
    IF k[1] = "o" THEN Visited(Declared(k[2]), inside)
    ELSE IF IsRule(o) THEN Visited([kind |-> "file", fields |-> Empty, kids |-> <<k>>], inside)
    ELSE Failed(Nothing)
Kids(o, inside) == FoldLeft(LAMBDA done, k : IF done.ok THEN And(done, Kid(o, k, inside)) ELSE done, Nothing, o.kids)

Instance(r, inside) == IF Valid(r) THEN Visited(r, inside) ELSE Failed(Nothing)
Instances(rule, inside, kids) ==
    FoldLeft(LAMBDA done, t : IF done.ok
                              THEN And(done, Instance([rule EXCEPT !.kids = Append(@, Str(t))], inside)) ELSE done,
             [kids EXCEPT !.outs = << >>], IF kids.ok THEN kids.outs ELSE << >>)
Below(o, inside) ==
    CASE o.kind = "file"    -> [Nothing EXCEPT !.outs = [k \in DOMAIN o.kids |-> o.kids[k][2]]]
      [] o.kind = "foreach" -> Instances(Declared(o.fields.rule[2]), inside, Kids(o, inside))
      [] OTHER              -> Kids(o, inside)

\* The dynamic headers of a clike, as children, for their directories; and as dependencies.
Listed(o) == IF Has(o, "dynamicheaders") THEN o.fields.dynamicheaders[2] ELSE << >>
Directory(h) == IF h.outs = << >> THEN h
                ELSE [h EXCEPT !.outs = <<IF Places("/", h.outs[1]) = {} THEN h.outs[1] ELSE DirName(h.outs[1])>>]
Inside(o, levels, dirs) == <<"CDYNINCLUDES" :> dirs @@ o.fields>> \o levels
Directories(o, levels, below) ==
    FoldLeft(LAMBDA done, n :
                 IF done.ok THEN And(done, Directory(Visited(Declared(n), Inside(o, levels, List(done.outs))))) ELSE done,
             [below EXCEPT !.outs = << >>], IF below.ok THEN Listed(o) ELSE << >>)
Depends(o, levels, before) ==
    FoldLeft(LAMBDA done, n : IF done.ok THEN And(done, Visited(Declared(n), <<o.fields>> \o levels)) ELSE done,
             before, Listed(o))

\* The outputs, and what the clause alone sees: in, out, and in a rule I and U.
Given(ins, o) == With(o, "in" :> List(ins) @@ IF IsRule(o) THEN "I" :> FirstName(ins) ELSE Empty)
Out(result, o) == [ok |-> result.ok, texts |-> result.texts, clause |-> With(o, "out" :> List(result.texts))]
Wrong == [ok |-> FALSE, texts |-> << >>]
Draft(o, levels) == Out(Outputs(levels, o.fields, o.fields.outputs[2]), o)
KeyText(draft, levels) ==
    IF draft.ok THEN Text(<<draft.clause.fields>> \o levels, Joined(draft.clause.fields.command[2]), Fuel) ELSE None
Rule(o, levels, key) ==
    IF key.ok /\ Plain(key.text) \in DOMAIN cache
    THEN Draft(With(o, "U" :> Unique(cache[Plain(key.text)])), levels)
    ELSE Out(Wrong, o)
Result(o, levels, ins) ==
    CASE o.kind \in {"group", "foreach"} -> Out([ok |-> TRUE, texts |-> ins], o)
      [] o.kind = "deponly" -> Out([ok |-> TRUE, texts |-> << >>], o)
      [] o.kind = "ith"     -> Out([ok |-> Selected(o, ins).ok, texts |-> Selected(o, ins).outs], o)
      [] o.kind = "file"    -> Out(IF OutputCount(o, ins) > Len(ins) THEN Wrong
                                   ELSE TextsOf(<<o.fields>> \o levels, SubSeq(ins, 1, OutputCount(o, ins))), o)
      [] IsRule(o)          -> Rule(o, levels, KeyText(Draft(With(o, "U" :> Num(0)), levels), levels))

\* The commands of a rule that is built, the files of a file clause; what is installed.
Uses(o, inside, files) ==
    TextsOf(inside, CASE o.kind = "file" -> files
                      [] IsRule(o) /\ rebuild -> o.fields.command[2]
                      [] OTHER -> << >>)
Installs(o, inside) == TextsOf(inside, IF Has(o, "install") THEN o.fields.install[2] ELSE << >>)
Build(o, ins, result, before, uses, inst) ==
    IF before.ok /\ uses.ok /\ inst.ok
    THEN [ok |-> TRUE, outs |-> result.texts,
          log |-> Append(before.log, [rule |-> IsRule(o), ins |-> ins, outs |-> result.texts,
                                      uses |-> uses.texts, inst |-> inst.texts])]
    ELSE Failed(before)
Finished(o, levels, ins, before, result) ==
    Build(o, ins, result,
          CASE ~before.ok \/ ~result.ok -> Failed(before)
            [] before.ok /\ result.ok /\ o.kind = "clike" ->
                  IF ins = << >> THEN Failed(before) ELSE Depends(o, levels, before)
            [] OTHER -> before,
          Uses(o, <<result.clause.fields>> \o levels, result.texts),
          Installs(o, <<result.clause.fields>> \o levels))

Fed(o, levels, ins, before) == Finished(o, levels, ins, before, Result(Given(ins, o), levels, ins))
Headed(o, levels, ins, headers) ==
    Fed(With(o, "CDYNINCLUDES" :> IF headers.outs = << >> THEN EMPTY ELSE List(headers.outs)), levels, ins, headers)
Placed(o, levels, below) ==
    IF o.kind = "clike" THEN Headed(o, levels, below.outs, Directories(o, levels, below))
    ELSE Fed(o, levels, below.outs, below)
Seen(o, levels) == Placed(o, levels, Below(o, <<o.fields>> \o levels))
Visited(c, levels) == Seen(Normal(c), levels)

PlainLog(l) == LET P(ts) == [k \in DOMAIN ts |-> Plain(ts[k])]
               IN [k \in DOMAIN l |-> [rule |-> l[k].rule, ins |-> P(l[k].ins), outs |-> P(l[k].outs),
                                       uses |-> P(l[k].uses), inst |-> P(l[k].inst)]]

-----------------------------------------------------------------------------
\* However often a clause is visited, in whatever scopes, and whatever it was made of, each
\* visit builds what the pmfile says; pm stops where the pmfile makes no sense.
BuiltAsMeant ==
    status \in {"done", "error"} =>
        LET m == IF Loads THEN Visited(Declared("default"), <<Globals>>) ELSE Failed(Nothing)
        IN log = PlainLog(m.log) /\ (status = "done") = m.ok

\* A unique id is one rule's: two builds that share an output are by the same commands
\* from the same inputs, whether they are one clause in two scopes or two clauses.
RulesApart ==
    status \in {"done", "error"} => \A i, j \in DOMAIN log :
        log[i].rule /\ log[j].rule /\ ToSet(log[i].outs) \cap ToSet(log[j].outs) # {} =>
            /\ log[i].outs = log[j].outs
            /\ log[i].ins = log[j].ins
            /\ log[i].uses = log[j].uses

-----------------------------------------------------------------------------
\* The keys that the values of a key refer to, anywhere in the pmfile.
ReferredIn(t) == LET P == Places("%", t)
                 opening == {i \in P : Cardinality({j \in P : j < i}) % 2 = 0 /\ i + 1 \in DOMAIN t \ P}
             IN {t[i + 1] : i \in opening}
Refers(v) == CASE v[1] = "redirect" -> {v[2]}
               [] v[1] = "s" -> ReferredIn(v[2])
               [] v[1] \in {"t", "parent"} -> UNION {ReferredIn(v[2][k]) : k \in DOMAIN v[2]}
               [] OTHER -> {}
SetBy(s) == IF s.is = "property" THEN s.name :> s.value ELSE s.fields
ValuesOf(key) == {SetBy(pmfile[k])[key] : k \in {k \in DOMAIN pmfile : key \in DOMAIN SetBy(pmfile[k])}}
RECURSIVE Within(_, _)
Within(keys, n) == IF n = 0 THEN keys
                   ELSE Within(keys \cup UNION {UNION {Refers(v) : v \in ValuesOf(k)} : k \in keys}, n - 1)
Keys == UNION {DOMAIN SetBy(pmfile[k]) : k \in DOMAIN pmfile}
Acyclic == \A k \in Keys : k \notin Within(UNION {Refers(v) : v \in ValuesOf(k)}, Cardinality(Keys))

\* A pmfile none of whose properties refers to itself is built, or refused: string expansion
\* and the property scope come to an end.
EvaluationEnds == Acyclic ~> status \in {"done", "error"}
=============================================================================
