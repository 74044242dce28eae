---------------------------- MODULE BuildEngine ----------------------------
(***************************************************************************)
(* The build engine of pm (src/src/pm.lua): the depth-first walk over the  *)
(* nodes of a pmfile (node:__build, 729-786), the timestamp comparison     *)
(* that decides what to rebuild, the stat cache the comparison reads       *)
(* (293-336), the commands and installation commands it runs (922-949,     *)
(* 221-246) and what happens to all of it when a command fails, pm is      *)
(* killed, the user edits a source, deletes a product or asks for -n / -p. *)
(*                                                                         *)
(* A node of this module is a clause of the pmfile seen in one property    *)
(* scope; what it consists of is constant during a run and is given by     *)
(* CONSTANTS.  Files are sources, written by the user, and products,       *)
(* written by commands.  Time is counted in the whole seconds st_mtime has.*)
(***************************************************************************)
EXTENDS Naturals, Sequences, Functions

CONSTANTS
  Source,          \* files the user writes
  Product,         \* files in the intermediate cache, written by commands
  Node,            \* the nodes (clause instances, in a scope) of the pmfile
  Rule,            \* the nodes that have commands (simple and its subclasses)
  FileClause,      \* the nodes of class "file"
  Children,        \* Children[n]: the child nodes, in build order
  Outputs,         \* Outputs[n]: what n:__outputs() returns
  Depends,         \* Depends[n]: what n:__dependencies() returns, in order
  Commands,        \* Commands[r]: how many command strings the rule r has
  Installer,       \* Installer[n]: "none", "function" (pm.install) or "shell"
  TargetLists,     \* the lists of targets a command line may name
  MaxClock,        \* bound: seconds that pass
  MaxVersion,      \* bound: versions a source goes through
  MaxCrashes       \* bound: times pm is killed

File == Source \cup Product
Outs(n) == Range(Outputs[n])
Deps(n) == Range(Depends[n])
Below(n) == UNION {Outs(c) : c \in Range(Children[n])}

ASSUME FileAssumption == Source \cap Product = {}

ASSUME NodeAssumption ==
  /\ Rule \subseteq Node
  /\ FileClause \subseteq Node \ Rule
  /\ Children \in [Node -> Seq(Node)]
  /\ Outputs \in [Node -> Seq(File)]
  /\ Depends \in [Node -> Seq(File)]
  /\ Commands \in [Rule -> Nat \ {0}]
  /\ Installer \in [Node -> {"none", "function", "shell"}]
  /\ TargetLists \subseteq Seq(Node)

(* What a node returns or depends on is a source, or was returned by a     *)
(* child: passive clauses only pass files through, a file clause names     *)
(* sources, and a rule must have its inputs built as children.             *)
ASSUME PassiveAssumption ==
  /\ \A n \in FileClause : Children[n] = <<>> /\ Outs(n) \subseteq Source
  /\ \A n \in Node : Deps(n) \subseteq Source \cup Below(n)
  /\ \A n \in Node \ Rule : Outs(n) \subseteq Source \cup Below(n)

(* Two rules share an output file only when they have the same expanded    *)
(* command line, hence the same cache key and unique id (1401-1405).       *)
ASSUME RuleAssumption ==
  /\ \A r \in Rule : Outs(r) # {} /\ Outs(r) \subseteq Product
  /\ \A r \in Rule : Outs(r) \cap Deps(r) = {}
  /\ \A q, r \in Rule :
        Outs(q) \cap Outs(r) # {} => Outs(q) = Outs(r) /\ Deps(q) = Deps(r)

ASSUME BoundAssumption ==
  /\ MaxClock \in Nat \ {0}
  /\ MaxVersion \in Nat \ {0}
  /\ MaxCrashes \in Nat

(* Ancestry[f]: f and every file its contents are made from.  A set closed *)
(* under "what the rule that makes it reads" and the least one holding f.  *)
ReadsClosed(S) == \A r \in Rule : Outs(r) \cap S # {} => Deps(r) \subseteq S
Ancestry ==
  [f \in File |-> {g \in File :
                    \A S \in SUBSET File : f \in S /\ ReadsClosed(S) => g \in S}]
SourcesOf(f) == Ancestry[f] \cap Source
MakersOf(f) == {r \in Rule : Outs(r) \cap Ancestry[f] # {}}

-----------------------------------------------------------------------------
VARIABLES
  clock,       \* the current second
  mtime,       \* mtime[f]: st_mtime of f on disk, 0 when f does not exist
  version,     \* version[s]: how often the source s has been written
  content,     \* content[p]: the source versions p was made from, {} if torn
  installed,   \* the nodes whose installation destination exists
  phase,       \* where pm is; "idle" between two runs
  stack,       \* the nodes being built, innermost last; also the scope chain
  targets,     \* the target list of the run
  position,    \* the index of the next target to build
  noExecute,   \* no_execute, the -n option
  statted,     \* statted_files, the stat cache: a partial map from files
  command,     \* the index of the command being run
  written,     \* the outputs the commands of this node have written so far
  verdict,     \* how the last run ended: "none" (killed), "ok" or "failed"
  settled,     \* history: nodes a real run has built since anything changed
  interrupted, \* history: rules killed, since the last purge, while writing
  crashes      \* history: how often pm was killed

disk == <<mtime, version, content>>
run == <<stack, targets, position, noExecute, statted, command, written>>
history == <<settled, interrupted, crashes>>
vars == <<clock, disk, installed, phase, run, verdict, history>>

Phase == {"idle", "targets", "walk", "exec", "cleanup", "touch", "install",
          "relink"}
Frame == [node : Node, next : Nat \ {0}]
EmptyCache == [f \in {} |-> 0]
Stamp == Source \X (1..MaxVersion)

TypeOK ==
  /\ clock \in 1..MaxClock
  /\ mtime \in [File -> 0..MaxClock]
  /\ version \in [Source -> 1..MaxVersion]
  /\ content \in [Product -> SUBSET Stamp]
  /\ installed \subseteq Node
  /\ phase \in Phase
  /\ stack \in Seq(Frame)
  /\ targets \in Seq(Node)
  /\ position \in Nat \ {0}
  /\ noExecute \in BOOLEAN
  /\ DOMAIN statted \subseteq File
  /\ \A f \in DOMAIN statted : statted[f] \in 0..MaxClock
  /\ command \in Nat
  /\ written \subseteq Product
  /\ verdict \in {"none", "ok", "failed"}
  /\ settled \subseteq Node
  /\ interrupted \subseteq Rule
  /\ crashes \in 0..MaxCrashes

-----------------------------------------------------------------------------
Top == stack[Len(stack)]
Current == Top.node

(* filetime(): the cached timestamp if there is one, else the disk's.      *)
Time(f) == IF f \in DOMAIN statted THEN statted[f] ELSE mtime[f]

(* The stat cache after filetime() was called on the files F.              *)
Statted(F) == [f \in DOMAIN statted \cup F |-> Time(f)]

(* filetouch(): the files F get the current time in the stat cache only.   *)
Touched(F) ==
  [f \in DOMAIN statted \cup F |-> IF f \in F THEN clock ELSE statted[f]]

(* Mutant: tt >= t.                                                        *)
NewerOrSame(f, n) == \A o \in Outs(n) : Time(f) >= Time(o)

(* node:__timestamp() returned 0, and tt > t for the newest output's t.    *)
NoTimestamp(n) == \A o \in Outs(n) : Time(o) = 0
NewerThan(f, n) == \A o \in Outs(n) : Time(f) > Time(o)

(* Mutant: the loop looks at the first dependency only.                    *)
RebuildFirst(n) ==
  NoTimestamp(n) \/ (Depends[n] # <<>> /\ NewerThan(Depends[n][1], n))

Rebuild(n) ==
  NoTimestamp(n) \/ \E d \in Deps(n) : NewerThan(d, n)
(* The dependencies the comparison loop looks at: it stops at a newer one. *)
Compared(n) ==
  IF NoTimestamp(n) THEN {}
  ELSE {Depends[n][i] : i \in {k \in 1..Len(Depends[n]) :
          \A j \in 1..(k - 1) : ~NewerThan(Depends[n][j], n)}}

(* file's own __timestamp bails when it meets a file that does not exist.  *)
MissingFile(n) == n \in FileClause /\ \E o \in Outs(n) : Time(o) = 0

(* What the bytes of f say: which source versions they were made from.     *)
ContentOf(f) == IF f \in Source THEN {<<f, version[f]>>} ELSE content[f]

-----------------------------------------------------------------------------
Init ==
  /\ clock = 1
  /\ mtime = [f \in File |-> IF f \in Source THEN 1 ELSE 0]
  /\ version = [s \in Source |-> 1]
  /\ content = [p \in Product |-> {}]
  /\ installed = {}
  /\ phase = "idle"
  /\ stack = <<>>
  /\ targets = <<>>
  /\ position = 1
  /\ noExecute = FALSE
  /\ statted = EmptyCache
  /\ command = 0
  /\ written = {}
  /\ verdict = "none"
  /\ settled = {}
  /\ interrupted = {}
  /\ crashes = 0

(* pm [-n] [-p] targets: the options are parsed and the cache is loaded, or*)
(* with -p wiped (also under -n: create_intermediate_cache does not ask).  *)
StartRun(ts, dry, purge) ==
  /\ phase = "idle"
  /\ phase' = "targets"
  /\ targets' = ts
  /\ position' = 1
  /\ noExecute' = dry
  /\ verdict' = "none"
  /\ mtime' = [f \in File |-> IF purge /\ f \in Product THEN 0 ELSE mtime[f]]
  /\ content' = [p \in Product |-> IF purge THEN {} ELSE content[p]]
  /\ settled' = IF purge THEN {} ELSE settled
  /\ interrupted' = IF purge THEN {} ELSE interrupted
  /\ UNCHANGED <<clock, version, installed, stack, statted, command, written,
                 crashes>>

(* The process ends, with status 0 or through usererror() with status 1:   *)
(* everything it kept in memory is gone.                                   *)
Exit(v) ==
  /\ phase' = "idle"
  /\ verdict' = v
  /\ stack' = <<>>
  /\ statted' = EmptyCache
  /\ command' = 0
  /\ written' = {}
  /\ UNCHANGED <<targets, position, noExecute>>

(* Mutant: the same target again.                                          *)
NextTargetAgain ==
  /\ phase = "targets"
  /\ position <= Len(targets)
  /\ phase' = "walk"
  /\ stack' = <<[node |-> targets[position], next |-> 1]>>
  /\ UNCHANGED <<clock, disk, installed, targets, position, noExecute, statted,
                 command, written, verdict, history>>

(* The driver calls o:__build() on the next target...                      *)
NextTarget ==
  /\ phase = "targets"
  /\ position <= Len(targets)
  /\ phase' = "walk"
  /\ stack' = <<[node |-> targets[position], next |-> 1]>>
  /\ position' = position + 1
  /\ UNCHANGED <<clock, disk, installed, targets, noExecute, statted, command,
                 written, verdict, history>>

(* ... and the process ends after the last one.                            *)
FinishRun ==
  /\ phase = "targets"
  /\ position > Len(targets)
  /\ Exit("ok")
  /\ UNCHANGED <<clock, disk, installed, history>>

(* __buildchildren: the scope of this node is pushed, the next child built.*)
BuildChild ==
  /\ phase = "walk"
  /\ Top.next <= Len(Children[Current])
  /\ stack' = Append([stack EXCEPT ![Len(stack)].next = @ + 1],
                     [node |-> Children[Current][Top.next], next |-> 1])
  /\ UNCHANGED <<clock, disk, installed, phase, targets, position, noExecute,
                 statted, command, written, verdict, history>>

(* Mutant: the last child is not waited for.                               *)
DecidingEarly ==
  /\ phase = "walk"
  /\ Top.next >= Len(Children[Current])

(* All children are built: __build computes outputs, timestamp and         *)
(* dependencies and decides.  The four outcomes follow.                    *)
Deciding ==
  /\ phase = "walk"
  /\ Top.next > Len(Children[Current])

FileNotFound ==
  /\ Deciding
  /\ MissingFile(Current)
  /\ Exit("failed")
  /\ UNCHANGED <<clock, disk, installed, history>>

Compare(next) ==
  /\ Deciding
  /\ ~MissingFile(Current)
  /\ statted' = Statted(Outs(Current) \cup Compared(Current))
  /\ phase' = next
  /\ UNCHANGED <<clock, disk, installed, stack, targets, position, noExecute,
                 written, verdict, history>>

NothingToDo ==
  /\ Compare("install")
  /\ ~Rebuild(Current)
  /\ UNCHANGED command

StartCommands ==
  /\ Compare("exec")
  /\ Rebuild(Current)
  /\ Current \in Rule /\ ~noExecute
  /\ command' = 1

(* "Building does nothing" for the other clauses, and prints only under -n.*)
PretendToBuild ==
  /\ Compare("touch")
  /\ Rebuild(Current)
  /\ Current \notin Rule \/ noExecute
  /\ UNCHANGED command

-----------------------------------------------------------------------------
(* A command, an external program, writes files among its node's outputs;  *)
(* until the last one has succeeded what they hold is incomplete.          *)
WritePartly(W) ==
  /\ mtime' = [f \in File |-> IF f \in W THEN clock ELSE mtime[f]]
  /\ content' = [p \in Product |-> IF p \in W THEN {} ELSE content[p]]

(* os.execute() of a command that is not the last one returns 0.           *)
RunCommand(W) ==
  /\ phase = "exec"
  /\ command < Commands[Current]
  /\ W \subseteq Outs(Current)
  /\ WritePartly(W)
  /\ written' = written \cup W
  /\ command' = command + 1
  /\ UNCHANGED <<clock, version, installed, phase, stack, targets, position,
                 noExecute, statted, verdict, history>>

(* The last command succeeds.  Commands that succeed had their inputs and  *)
(* leave every output written and complete.                                *)
LastCommand(W) ==
  /\ phase = "exec"
  /\ command = Commands[Current]
  /\ W \subseteq Outs(Current) /\ Outs(Current) \subseteq written \cup W
  /\ \A d \in Deps(Current) : mtime[d] # 0
  /\ mtime' = [f \in File |-> IF f \in W THEN clock ELSE mtime[f]]
  /\ content' = [p \in Product |->
                  IF p \in Outs(Current)
                  THEN UNION {ContentOf(d) : d \in Deps(Current)}
                  ELSE content[p]]
  /\ written' = {}
  /\ command' = 0
  /\ phase' = "touch"
  /\ UNCHANGED <<clock, version, installed, stack, targets, position,
                 noExecute, statted, verdict, history>>

(* os.execute() returns non-zero: __invoke stops and __dobuild removes the *)
(* outputs with %RM% %out%, then raises the error that ends the process.   *)
CommandFails(W) ==
  /\ phase = "exec"
  /\ W \subseteq Outs(Current)
  /\ WritePartly(W)
  /\ written' = written \cup W
  /\ phase' = "cleanup"
  /\ UNCHANGED <<clock, version, installed, stack, targets, position,
                 noExecute, statted, command, verdict, history>>

(* Mutant: delete_output_files_on_error is false.                          *)
RemoveNothing(R) == UNCHANGED <<mtime, content>>

RemoveOutputs(R) ==
  /\ mtime' = [f \in File |-> IF f \in R THEN 0 ELSE mtime[f]]
  /\ content' = [p \in Product |-> IF p \in R THEN {} ELSE content[p]]

(* What is still settled when the current node's outputs or link are lost. *)
Unsettled ==
  IF \E n \in settled :
        n = Current \/ (n \in Rule /\ Outs(n) \cap Outs(Current) # {})
  THEN {} ELSE settled

Cleanup ==
  /\ phase = "cleanup"
  /\ RemoveOutputs(Outs(Current))
  /\ Exit("failed")
  /\ settled' = Unsettled
  /\ UNCHANGED <<clock, version, installed, interrupted, crashes>>

(* __build calls filetouch(outputs) after __dobuild returned.              *)
FileTouch ==
  /\ phase = "touch"
  /\ statted' = Touched(Outs(Current))
  /\ phase' = "install"
  /\ UNCHANGED <<clock, disk, installed, stack, targets, position, noExecute,
                 command, written, verdict, history>>

-----------------------------------------------------------------------------
(* __build returns to __buildchildren of the parent, or to the driver.     *)
Return ==
  /\ stack' = SubSeq(stack, 1, Len(stack) - 1)
  /\ phase' = IF Len(stack) = 1 THEN "targets" ELSE "walk"
  /\ settled' = IF noExecute THEN settled ELSE settled \cup {Current}
  /\ UNCHANGED <<clock, disk, targets, position, noExecute, statted, command,
                 written, verdict, interrupted, crashes>>

NothingToInstall ==
  /\ phase = "install"
  /\ Installer[Current] = "none"
  /\ Return
  /\ UNCHANGED installed

(* A shell command under "install": __build ignores what __invoke returns. *)
ShellInstall ==
  /\ phase = "install"
  /\ Installer[Current] = "shell"
  /\ Return
  /\ \/ UNCHANGED installed
     \/ ~noExecute /\ installed' = installed \cup {Current}

(* do_install(): symlink(); when that fails, unlink() and symlink() again. *)
(* __invoke calls a function whether or not no_execute is set.             *)
Symlink ==
  /\ \/ phase = "install" /\ Installer[Current] = "function"
                          /\ Current \notin installed
     \/ phase = "relink"
  /\ Return
  /\ installed' = installed \cup {Current}

(* Mutant: do_install() returns once unlink() has succeeded.               *)
UnlinkOnly ==
  /\ phase = "install"
  /\ Installer[Current] = "function"
  /\ Current \in installed
  /\ Return
  /\ installed' = installed \ {Current}

Unlink ==
  /\ phase = "install"
  /\ Installer[Current] = "function"
  /\ Current \in installed
  /\ installed' = installed \ {Current}
  /\ phase' = "relink"
  /\ UNCHANGED <<clock, disk, run, verdict, history>>

(* symlink() or unlink() is refused: self:__error() ends the process, in   *)
(* "relink" with the old link already gone.                                *)
InstallFails ==
  /\ \/ phase = "install" /\ Installer[Current] = "function"
     \/ phase = "relink"
  /\ Exit("failed")
  /\ settled' = IF phase = "relink" THEN Unsettled ELSE settled
  /\ UNCHANGED <<clock, disk, installed, interrupted, crashes>>

-----------------------------------------------------------------------------
(* pm is killed, and with it the command that is running.  A rule that had *)
(* begun to write, or whose outputs were being removed, stays half done.   *)
Crash(W) ==
  /\ phase # "idle"
  /\ crashes < MaxCrashes
  /\ crashes' = crashes + 1
  /\ \/ /\ phase = "exec"
        /\ W \subseteq Outs(Current)
        /\ WritePartly(W)
     \/ /\ phase = "cleanup"
        /\ W \subseteq Outs(Current)
        /\ RemoveOutputs(W)
     \/ /\ phase \notin {"exec", "cleanup"}
        /\ W = {}
        /\ UNCHANGED <<mtime, content>>
  /\ interrupted' = IF phase = "cleanup" \/ written \cup W # {}
                    THEN interrupted \cup {Current} ELSE interrupted
  /\ settled' = IF phase \in {"exec", "cleanup", "relink"}
                THEN Unsettled ELSE settled
  /\ Exit("none")
  /\ UNCHANGED <<clock, version, installed>>

(* The world between two runs.  An edit stamps a source with the current   *)
(* second.  Assumed: that is a later second than any product of the source *)
(* was written in, for the comparison "tt > t" cannot tell them apart.     *)
Edit(s) ==
  /\ phase = "idle"
  /\ version[s] < MaxVersion
  /\ \A p \in Product : s \in Ancestry[p] => mtime[p] < clock
  /\ version' = [version EXCEPT ![s] = @ + 1]
  /\ mtime' = [mtime EXCEPT ![s] = clock]
  /\ verdict' = "none"
  /\ settled' = {}
  /\ UNCHANGED <<clock, content, installed, phase, run, interrupted, crashes>>

RemoveSource(s) ==
  /\ phase = "idle"
  /\ mtime[s] # 0
  /\ mtime' = [mtime EXCEPT ![s] = 0]
  /\ verdict' = "none"
  /\ settled' = {}
  /\ UNCHANGED <<clock, version, content, installed, phase, run, interrupted,
                 crashes>>

(* The user deletes what a rule made.                                      *)
DeleteProducts(r) ==
  /\ phase = "idle"
  /\ \E o \in Outs(r) : mtime[o] # 0
  /\ RemoveOutputs(Outs(r))
  /\ verdict' = "none"
  /\ settled' = {}
  /\ UNCHANGED <<clock, version, installed, phase, run, interrupted, crashes>>

Tick ==
  /\ clock < MaxClock
  /\ clock' = clock + 1
  /\ UNCHANGED <<disk, installed, phase, run, verdict, history>>

-----------------------------------------------------------------------------
Walk == NextTarget \/ FinishRun \/ BuildChild
Decide == FileNotFound \/ NothingToDo \/ StartCommands \/ PretendToBuild
Execute ==
  \/ \E W \in SUBSET Product :
        RunCommand(W) \/ LastCommand(W) \/ CommandFails(W)
  \/ Cleanup
  \/ FileTouch
Install == NothingToInstall \/ ShellInstall \/ Symlink \/ Unlink \/ InstallFails
Pm == Walk \/ Decide \/ Execute \/ Install

Next ==
  \/ Pm
  \/ \E ts \in TargetLists, dry, purge \in BOOLEAN : StartRun(ts, dry, purge)
  \/ \E W \in SUBSET Product : Crash(W)
  \/ \E s \in Source : Edit(s) \/ RemoveSource(s)
  \/ \E r \in Rule : DeleteProducts(r)
  \/ Tick

Spec == Init /\ [][Next]_vars

(* The commands terminate and the system keeps scheduling pm.  Nobody has  *)
(* to start a run, edit a file or kill anything.                           *)
FairSpec == Spec /\ WF_vars(Pm)

-----------------------------------------------------------------------------
(* Vocabulary of the properties.                                           *)

(* The nodes a build of n visits.                                          *)
Visits ==
  [n \in Node |-> {m \in Node :
     \A S \in SUBSET Node :
        n \in S /\ (\A k \in S : Range(Children[k]) \subseteq S) => m \in S}]

(* No rule that made r's outputs, or what they are made from, was killed   *)
(* while it was writing: timestamps say nothing about files left half done.*)
Clean(r) == \A o \in Outs(r) : MakersOf(o) \cap interrupted = {}

(* Commands that are running, or a cleanup, have begun to change r's files.*)
HalfDone(r) ==
  /\ (phase = "exec" /\ written # {}) \/ phase = "cleanup"
  /\ Outs(r) \cap Outs(Current) # {}

HasCurrent(o, s) ==
  \A v \in 1..MaxVersion : <<s, v>> \in content[o] <=> v = version[s]

(* o exists, and was made from the present version of each of its sources  *)
(* that exists.                                                            *)
UpToDate(o) ==
  /\ mtime[o] # 0
  /\ \A s \in SourcesOf(o) : mtime[s] # 0 => HasCurrent(o, s)

(* The promise of a build tool.  When pm exits with status 0 (and was not  *)
(* asked to pretend) every product of every rule below the targets is up to*)
(* date, although pm compared whole-second timestamps, through a cache,    *)
(* and stopped comparing at the first newer file (729-786).                *)
SuccessMeansUpToDate ==
  phase = "idle" /\ verdict = "ok" /\ ~noExecute =>
    \A t \in Range(targets) : \A r \in Visits[t] \cap Rule :
      Clean(r) => \A o \in Outs(r) : UpToDate(o)

(* The same of a pm.install: after exit status 0 the destination of every  *)
(* node visited exists, although do_install removes it to renew it         *)
(* (221-246).                                                              *)
SuccessMeansInstalled ==
  phase = "idle" /\ verdict = "ok" /\ ~noExecute =>
    \A t \in Range(targets) : \A n \in Visits[t] :
      Installer[n] = "function" => n \in installed

(* Whatever happened before (failed and killed runs, edits, deletions),    *)
(* a rule's outputs are all there or all absent, and when they miss the    *)
(* present version of a source, that source is newer than all of them, or  *)
(* gone: the comparison in __build (746-769) will see it.                  *)
StaleIsDetectable ==
  \A r \in Rule : Clean(r) /\ ~HalfDone(r) =>
    \/ \A o \in Outs(r) : mtime[o] = 0
    \/ \A o \in Outs(r) :
         /\ mtime[o] # 0
         /\ \A s \in SourcesOf(o) :
              \/ HasCurrent(o, s)
              \/ mtime[s] = 0
              \/ \A q \in Outs(r) : mtime[q] < mtime[s]

(* When the commands of a rule run, the products it depends on have been   *)
(* built, from what their sources are now (__buildchildren, 706-721).      *)
InputsReady ==
  phase = "exec" /\ Clean(Current) =>
    \A d \in Deps(Current) \cap Product : UpToDate(d)

(* A node that a real run has built is not built again, in that run by     *)
(* another parent or in a later one, until something changes: "if any      *)
(* output is newer than the node itself, causes the node to be built"      *)
(* (729-730), and only then.                                               *)
BuiltOnce == phase = "exec" => Current \notin settled

(* -n is "Don't actually execute anything" (1465).                         *)
DryRunChangesNothing ==
  [][phase # "idle" /\ noExecute => UNCHANGED <<disk, installed>>]_vars

(* Every run comes to an end, if its commands do.                          *)
RunEnds == phase # "idle" ~> phase = "idle"
=============================================================================
