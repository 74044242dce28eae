------------------------------ MODULE CDepends ------------------------------
(***************************************************************************)
(* The dependency scanner for C and C++ files (src/lib/c.pm, 76-212): one  *)
(* run of pm asks for the dependencies of its C rules one after the other. *)
(* calculate_dependencies reads the source and whatever it includes,       *)
(* depth first, holding every file on the way down open, and remembers the *)
(* list for the file name.                                                 *)
(*                                                                         *)
(* A path is a sequence of names, as pm builds it: "src/../inc/a.h" is not *)
(* simplified.  Real gives the file it denotes.                            *)
(***************************************************************************)
EXTENDS Naturals, Sequences, FiniteSets, SequencesExt

CONSTANTS
  Name,      \* the names of files and directories, and Up
  File,      \* the files on disk: canonical paths below the current directory
  Directory, \* the directories; <<>> is the current one
  Up,        \* the name ".."
  Texts,     \* the ways to give every file a list of include directives
  Rule,      \* the C rules of the pmfile
  Input,     \* Input[r]: the path of the source the rule compiles
  Includes,  \* Includes[r]: the expanded CINCLUDES, a list of paths
  Dynamic,   \* Dynamic[r]: the first outputs of the rule's dynamicheaders
  MaxOpen,   \* how many files a process can have open
  NoRule,    \* no rule is being worked on
  Nowhere    \* what a path denotes that denotes nothing

VARIABLES
  text,      \* text[f]: the include directives of f; constant during the run
  todo,      \* the rules not built yet
  rule,      \* the rule whose dependencies are computed, or NoRule
  stack,     \* the files being read, innermost last, and where in them
  deps,      \* deps in calculate_dependencies
  cache,     \* dependency_cache, a partial map from paths to lists (as sets)
  leaked,    \* handles that are open and lost, until they are collected
  result     \* what __dependencies returned, for the rules that have run

vars == <<text, todo, rule, stack, deps, cache, leaked, result>>

Path == Seq(Name)
Directive == [name : Path, quoted : BOOLEAN]

ASSUME Instances ==
  /\ Up \in Name /\ NoRule \notin Rule /\ MaxOpen \in Nat
  /\ Input \in [Rule -> Path]
  /\ Includes \in [Rule -> Seq(Path)] /\ Dynamic \in [Rule -> Seq(Path)]
  /\ \A t \in Texts : t \in [File -> Seq(Directive)]

(* A tree of directories; a canonical path has no "..".                    *)
ASSUME Tree ==
  /\ File \subseteq Path /\ Directory \subseteq Path /\ File \cap Directory = {}
  /\ <<>> \in Directory /\ Nowhere \notin File \cup Directory
  /\ \A p \in (File \cup Directory) \ {<<>>} : Front(p) \in Directory /\ Last(p) # Up

Empty == [x \in {} |-> {}]

(* f[x] = v, in Lua.                                                       *)
Assign(f, x, v) == [y \in DOMAIN f \cup {x} |-> IF y = x THEN v ELSE f[y]]

-----------------------------------------------------------------------------
(* The file a path denotes.                                                *)
Place == File \cup Directory \cup {Nowhere}
Entry ==
  [d \in Place |-> [name \in Name |->
     LET place == IF name = Up THEN Front(d) ELSE Append(d, name)
     IN  IF d \in Directory /\ (name = Up => d # <<>>) /\ place \in Place THEN place ELSE Nowhere]]
Real(path) ==
  LET at[n \in 0..Len(path)] == IF n = 0 THEN <<>> ELSE Entry[at[n - 1]][path[n]]
  IN  at[Len(path)]
Exists(path) == Real(path) \in File

(* string_gsub(filename, "/[^/]*$", "") leaves a name without a slash as   *)
(* it is.                                                                  *)
DirOf(path) == IF Len(path) = 1 THEN path ELSE Front(path)

(* Mutant: what dirname() is for.                                          *)
LocalIncludesLast(path) == Append(Includes[rule], DirOf(path))

LocalIncludes(path) == <<DirOf(path)>> \o Includes[rule]

Opened == Len(stack) + leaked
CanOpen(path) == Exists(path) /\ Opened < MaxOpen

Top == stack[Len(stack)]
Lines == text[Real(Top.file)]

-----------------------------------------------------------------------------
Init ==
  /\ text \in Texts
  /\ todo = Rule
  /\ rule = NoRule
  /\ stack = <<>>
  /\ deps = {}
  /\ cache = Empty
  /\ leaked = 0
  /\ result = Empty

(* __dependencies asks for the input's list; the list is then extended, in *)
(* place, by the dynamic headers.                                          *)
Extended(r, list) == list \cup Range(Dynamic[r])

Answer(r, list) ==
  /\ cache' = Assign(cache, Input[r], Extended(r, list))
  /\ result' = Assign(result, r, Extended(r, list))

CachedDependencies(r) ==
  /\ rule = NoRule /\ r \in todo
  /\ Input[r] \in DOMAIN cache
  /\ todo' = todo \ {r}
  /\ Answer(r, cache[Input[r]])
  /\ UNCHANGED <<text, rule, stack, deps, leaked>>

Scan(r) ==
  /\ rule = NoRule /\ r \in todo
  /\ Input[r] \notin DOMAIN cache
  /\ todo' = todo \ {r}
  /\ rule' = r
  /\ deps' = {Input[r]}
  /\ stack' = IF CanOpen(Input[r]) THEN <<[file |-> Input[r], line |-> 1]>> ELSE <<>>
  /\ UNCHANGED <<text, cache, leaked, result>>

(* The next directive: the first directory in which the file can be opened *)
(* is taken.                                                               *)
Candidates ==
  LET dirs == LocalIncludes(Top.file)
  IN  [i \in 1..Len(dirs) |-> dirs[i] \o Lines[Top.line].name]
Openable == {i \in DOMAIN Candidates : CanOpen(Candidates[i])}
Included == Candidates[Min(Openable)]

NextLine == [stack EXCEPT ![Len(stack)].line = @ + 1]
Reading == stack # <<>> /\ Top.line <= Len(Lines)

NotFound ==
  /\ Reading
  /\ Openable = {}
  /\ stack' = NextLine
  /\ UNCHANGED <<text, todo, rule, deps, cache, leaked, result>>

(* A file met before is opened all the same, and never closed.             *)
AlreadyRead ==
  /\ Reading
  /\ Openable # {} /\ Included \in deps
  /\ stack' = NextLine
  /\ leaked' = leaked + 1
  /\ UNCHANGED <<text, todo, rule, deps, cache, result>>

ReadFile ==
  /\ Reading
  /\ Openable # {} /\ Included \notin deps
  /\ deps' = deps \cup {Included}
  /\ stack' = Append(NextLine, [file |-> Included, line |-> 1])
  /\ UNCHANGED <<text, todo, rule, cache, leaked, result>>

CloseFile ==
  /\ stack # <<>> /\ Top.line > Len(Lines)
  /\ stack' = Front(stack)
  /\ UNCHANGED <<text, todo, rule, deps, cache, leaked, result>>

(* Mutant: the rule is not finished with.                                  *)
ScannedAgain ==
  /\ rule # NoRule /\ stack = <<>>
  /\ Answer(rule, deps)
  /\ UNCHANGED <<text, todo, rule, stack, deps, leaked>>

Scanned ==
  /\ rule # NoRule /\ stack = <<>>
  /\ Answer(rule, deps)
  /\ rule' = NoRule
  /\ deps' = {}
  /\ UNCHANGED <<text, todo, stack, leaked>>

(* The garbage collector closes lost handles, whenever it runs.            *)
Collect ==
  /\ leaked > 0
  /\ leaked' = 0
  /\ UNCHANGED <<text, todo, rule, stack, deps, cache, result>>

Scanner ==
  \/ \E r \in todo : CachedDependencies(r) \/ Scan(r)
  \/ NotFound \/ AlreadyRead \/ ReadFile \/ CloseFile \/ Scanned

Next == Scanner \/ Collect

Spec == Init /\ [][Next]_vars
FairSpec == Spec /\ WF_vars(Scanner)

-----------------------------------------------------------------------------
(* What the compiler reads for a rule: the preprocessor searches the       *)
(* directory of the including file for quoted names only, then the         *)
(* directories of the dynamic headers and CINCLUDES.                       *)
SearchPath(r) == [i \in DOMAIN Dynamic[r] |-> DirOf(Dynamic[r][i])] \o Includes[r]

Found(dirs, name) ==
  LET hits == {i \in DOMAIN dirs : Exists(dirs[i] \o name)}
  IN  IF hits = {} THEN {} ELSE {Real(dirs[Min(hits)] \o name)}

Preprocessed(r, f, d) ==
  Found((IF d.quoted THEN <<Front(f)>> ELSE <<>>) \o SearchPath(r), d.name)

(* The source, and with a file all that it includes.                       *)
Reads(r) ==
  LET included == [f \in File |-> UNION {Preprocessed(r, f, d) : d \in Range(text[f])}]
      closed == {S \in SUBSET File : Real(Input[r]) \in S /\ \A f \in S : included[f] \subseteq S}
  IN  {f \in File : \A S \in closed : f \in S}

TypeOK ==
  /\ text \in Texts
  /\ todo \subseteq Rule /\ rule \in Rule \cup {NoRule}
  /\ \A i \in 1..Len(stack) : Exists(stack[i].file) /\ stack[i].line \in 1..Len(text[Real(stack[i].file)]) + 1
  /\ leaked \in Nat /\ Opened <= MaxOpen
  /\ DOMAIN result = Rule \ (todo \cup {rule})

(* "Automatic dependency checking for C and C++ files" (README, 21): a     *)
(* change to any file the compiler reads is noticed.                       *)
Complete ==
  \A r \in DOMAIN result : Reads(r) \subseteq {Real(p) : p \in result[r]}

(* Nothing else makes the rule run again.                                  *)
Sound ==
  \A r \in DOMAIN result :
    LET read == Reads(r)
    IN  \A p \in result[r] \ Range(Dynamic[r]) : Real(p) \in read

(* Headers that include each other are read once (111): a file is never    *)
(* entered again, under whatever name, while it is being read.             *)
NoReentry ==
  \A i, j \in 1..Len(stack) : Real(stack[i].file) = Real(stack[j].file) => i = j

(* "Explicit close to avoid having to wait for the garbage collector to    *)
(* free up the underlying fd" (119-120).                                   *)
HandlesClosed == rule = NoRule => leaked = 0

(* Every rule gets its dependencies, whatever cycles the includes form.    *)
ScanEnds == <>(todo = {} /\ rule = NoRule)
=============================================================================
