------------------------- MODULE BuildEngineProofs -------------------------
(***************************************************************************)
(* Proofs of the safety properties of BuildEngine, for every pmfile and    *)
(* every bound that satisfy its assumptions.                               *)
(***************************************************************************)
EXTENDS BuildEngineInvariant, SequenceTheorems, TLAPS

-----------------------------------------------------------------------------
(* Facts about the constants.                                              *)

(* What Outputs, Depends and Children range over.                          *)
LEMMA NodeFacts ==
  ASSUME NEW n \in Node
  PROVE  /\ Outs(n) \subseteq File
         /\ Deps(n) \subseteq File
         /\ \A i \in 1..Len(Children[n]) :
               Children[n][i] \in Node /\ Children[n][i] \in Range(Children[n])
         /\ Len(Children[n]) \in Nat
         /\ Range(Children[n]) =
               {Children[n][i] : i \in 1..Len(Children[n])}
BY NodeAssumption DEF Outs, Deps, Range

(* f is in its own ancestry.                                               *)
LEMMA AncestrySelf == \A f \in File : f \in Ancestry[f] /\ Ancestry[f] \subseteq File
BY DEF Ancestry

(* What the rule that makes o reads, and what that was made from, is in    *)
(* the ancestry of o.                                                      *)
LEMMA AncestryUp ==
  ASSUME NEW r \in Rule, NEW o \in Outs(r), NEW d \in Deps(r)
  PROVE  Ancestry[d] \subseteq Ancestry[o]
<1>1. r \in Node /\ o \in File /\ d \in File
  BY NodeAssumption, NodeFacts
<1>2. SUFFICES ASSUME NEW g \in Ancestry[d], NEW S \in SUBSET File,
                      o \in S, ReadsClosed(S)
               PROVE  g \in S
  BY <1>1 DEF Ancestry
<1>3. d \in S
  BY <1>2 DEF ReadsClosed
<1>4. QED
  BY <1>1, <1>2, <1>3 DEF Ancestry

(* Nothing else is.                                                        *)
LEMMA AncestryDown ==
  ASSUME NEW r \in Rule, NEW o \in Outs(r), NEW g \in Ancestry[o]
  PROVE  g = o \/ \E d \in Deps(r) : g \in Ancestry[d]
<1> DEFINE S == {o} \cup UNION {Ancestry[d] : d \in Deps(r)}
<1>1. r \in Node /\ o \in File /\ Deps(r) \subseteq File
  BY NodeAssumption, NodeFacts
<1>2. S \in SUBSET File
  BY <1>1, AncestrySelf
<1>3. ReadsClosed(S)
  <2>1. SUFFICES ASSUME NEW q \in Rule, NEW p \in Outs(q), p \in S,
                        NEW e \in Deps(q)
                 PROVE  e \in S
    BY DEF ReadsClosed
  <2>2. q \in Node /\ p \in File /\ e \in File
    BY NodeAssumption, NodeFacts
  <2>3. CASE p = o
    <3>1. Deps(q) = Deps(r)
      BY <2>3, RuleAssumption
    <3>2. QED
      BY <3>1, <2>1, <2>2, AncestrySelf
  <2>4. CASE \E d \in Deps(r) : p \in Ancestry[d]
    <3>1. PICK d \in Deps(r) : p \in Ancestry[d]
      BY <2>4
    <3>2. e \in Ancestry[e] /\ d \in File
      BY <2>2, <1>1, AncestrySelf
    <3>3. e \in Ancestry[d]
      <4>1. SUFFICES ASSUME NEW T \in SUBSET File, d \in T, ReadsClosed(T)
                     PROVE  e \in T
        BY <3>2, <2>2 DEF Ancestry
      <4>2. p \in T
        BY <3>1, <3>2, <4>1 DEF Ancestry
      <4>3. QED
        BY <4>1, <4>2, <2>1 DEF ReadsClosed
    <3>4. QED
      BY <3>3
  <2>5. QED
    BY <2>1, <2>3, <2>4
<1>4. g \in S
  BY <1>1, <1>2, <1>3 DEF Ancestry
<1>5. QED
  BY <1>4

(* A source is made from itself alone.                                     *)
LEMMA SourceAncestry == \A s \in Source : SourcesOf(s) = {s}
<1>1. SUFFICES ASSUME NEW s \in Source PROVE SourcesOf(s) = {s}
  OBVIOUS
<1>2. {s} \in SUBSET File /\ s \in File
  BY DEF File
<1>3. ReadsClosed({s})
  BY RuleAssumption, FileAssumption DEF ReadsClosed
<1>4. Ancestry[s] = {s}
  BY <1>2, <1>3, AncestrySelf DEF Ancestry
<1>5. QED
  BY <1>4 DEF SourcesOf

(* Every output of a rule is made from what the rule's dependencies are.   *)
LEMMA OutputSources ==
  ASSUME NEW r \in Rule, NEW o \in Outs(r)
  PROVE  SourcesOf(o) = RuleSources(r)
<1>1. r \in Node /\ o \in Product /\ o \notin Source
  BY NodeAssumption, RuleAssumption, FileAssumption
<1>2. SourcesOf(o) \subseteq RuleSources(r)
  BY <1>1, AncestryDown DEF SourcesOf, RuleSources
<1>3. RuleSources(r) \subseteq SourcesOf(o)
  BY AncestryUp DEF SourcesOf, RuleSources
<1>4. QED
  BY <1>2, <1>3

(* Rules that share an output agree in all that the properties speak of.   *)
LEMMA SharedOutputs ==
  ASSUME NEW q \in Rule, NEW r \in Rule, Outs(q) \cap Outs(r) # {}
  PROVE  /\ Outs(q) = Outs(r)
         /\ Deps(q) = Deps(r)
         /\ RuleSources(q) = RuleSources(r)
BY RuleAssumption DEF RuleSources

(* The makers of what a rule reads are among the makers of its outputs.    *)
LEMMA DependencyMakers ==
  ASSUME NEW r \in Rule, NEW o \in Outs(r), NEW d \in Deps(r),
         NEW q \in Rule, d \in Outs(q), NEW p \in Outs(q)
  PROVE  MakersOf(p) \subseteq MakersOf(o)
<1>1. q \in Node /\ d \in File /\ d \in Ancestry[d]
  BY NodeAssumption, NodeFacts, AncestrySelf
<1>2. Ancestry[d] \subseteq Ancestry[o]
  BY AncestryUp
<1>3. SUFFICES ASSUME NEW m \in MakersOf(p)
               PROVE  m \in MakersOf(o)
  OBVIOUS
<1>4. m \in Rule /\ Outs(m) \cap Ancestry[p] # {}
  BY <1>3 DEF MakersOf
<1>5. PICK g \in Outs(m) : g \in Ancestry[p]
  BY <1>4
<1>6. CASE g = p
  BY <1>1, <1>2, <1>4, <1>5, <1>6, SharedOutputs DEF MakersOf
<1>7. CASE \E e \in Deps(q) : g \in Ancestry[e]
  BY <1>2, <1>4, <1>5, <1>7, AncestryUp DEF MakersOf
<1>8. QED
  BY <1>4, <1>5, <1>6, <1>7, AncestryDown

(* A rule is clean only if the rules that make what it reads are.          *)
LEMMA CleanDependency ==
  ASSUME NEW r \in Rule, Clean(r), NEW d \in Deps(r), NEW q \in Rule, d \in Outs(q)
  PROVE  Clean(q)
<1>1. PICK o \in Outs(r) : TRUE
  BY RuleAssumption
<1>2. QED
  BY <1>1, DependencyMakers DEF Clean

(* A set of nodes closed under children holds all that a build visits.     *)
LEMMA VisitsClosed ==
  ASSUME NEW S \in SUBSET Node, \A k \in S : Range(Children[k]) \subseteq S,
         NEW n \in S
  PROVE  Visits[n] \subseteq S
BY DEF Visits

-----------------------------------------------------------------------------
(* Facts about a typed state.                                              *)

(* The innermost node while pm walks, and the way down to it.              *)
LEMMA TopFacts ==
  ASSUME TypeOK, StackInv, Running
  PROVE  /\ Len(stack) \in Nat \ {0}
         /\ Top \in Frame
         /\ Current \in Node
<1>1. Len(stack) \in Nat \ {0}
  BY DEF TypeOK, StackInv
<1>2. Top \in Frame
  BY <1>1 DEF TypeOK, Top
<1>3. QED
  BY <1>1, <1>2 DEF Current, Frame

(* Timestamps are numbers of seconds, cached or not.                       *)
LEMMA TimeType ==
  ASSUME TypeOK, NEW f \in File
  PROVE  Time(f) \in 0..MaxClock
BY DEF TypeOK, Time

-----------------------------------------------------------------------------
(* The type invariant.                                                     *)

(* The types hold before the first run.                                    *)
LEMMA TypeInit == Init => TypeOK
<1>1. SUFFICES ASSUME Init PROVE TypeOK
  OBVIOUS
<1>2. clock \in 1..MaxClock /\ crashes \in 0..MaxCrashes
  BY <1>1, BoundAssumption DEF Init
<1>3. mtime \in [File -> 0..MaxClock] /\ version \in [Source -> 1..MaxVersion]
  BY <1>1, BoundAssumption DEF Init
<1>4. content \in [Product -> SUBSET Stamp]
  BY <1>1 DEF Init
<1>5. DOMAIN statted = {}
  BY <1>1 DEF Init, EmptyCache
<1>6. stack \in Seq(Frame) /\ targets \in Seq(Node)
  BY <1>1 DEF Init
<1>7. noExecute \in BOOLEAN
  BY <1>1, Zenon DEF Init
<1>8. QED
  BY <1>1, <1>2, <1>3, <1>4, <1>5, <1>6, <1>7 DEF Init, TypeOK, Phase

(* The end of a run leaves nothing behind in memory.                       *)
LEMMA ExitType ==
  ASSUME TypeOK, NEW v \in {"none", "ok", "failed"}, Exit(v)
  PROVE  /\ phase' \in Phase /\ stack' \in Seq(Frame) /\ targets' \in Seq(Node)
         /\ position' \in Nat \ {0} /\ noExecute' \in BOOLEAN
         /\ DOMAIN statted' = {} /\ command' \in Nat
         /\ written' \subseteq Product /\ verdict' \in {"none", "ok", "failed"}
BY DEF Exit, TypeOK, EmptyCache, Phase

(* Every step keeps the types.                                             *)
LEMMA TypeNext ==
  ASSUME TypeOK, StackInv, WritingInv, [Next]_vars
  PROVE  TypeOK'
<1> USE DEF Phase, disk, run, history
<1>1. ASSUME NEW ts \in TargetLists, NEW dry \in BOOLEAN, NEW purge \in BOOLEAN,
             StartRun(ts, dry, purge)
      PROVE  TypeOK'
  <2>1. mtime' \in [File -> 0..MaxClock] /\ content' \in [Product -> SUBSET Stamp]
    BY <1>1, BoundAssumption DEF StartRun, TypeOK
  <2>2. targets' \in Seq(Node) /\ position' \in Nat \ {0}
    BY <1>1, NodeAssumption DEF StartRun
  <2>3. settled' \subseteq Node /\ interrupted' \subseteq Rule
    BY <1>1 DEF StartRun, TypeOK
  <2>4. QED
    BY <1>1, <2>1, <2>2, <2>3 DEF StartRun, TypeOK
<1>2. CASE NextTarget
  <2>1. targets[position] \in Node
    BY <1>2 DEF NextTarget, TypeOK
  <2>2. stack' \in Seq(Frame)
    BY <1>2, <2>1 DEF NextTarget, Frame
  <2>3. QED
    BY <1>2, <2>2 DEF NextTarget, TypeOK
<1>3. CASE FinishRun
  BY <1>3, ExitType DEF FinishRun, TypeOK
<1>4. CASE BuildChild
  <2>1. Len(stack) \in Nat \ {0} /\ Top \in Frame /\ Current \in Node
    BY <1>4, TopFacts DEF BuildChild, Running
  <2>2. Children[Current][Top.next] \in Node
    BY <1>4, <2>1, NodeFacts DEF BuildChild, Frame
  <2>3. [stack EXCEPT ![Len(stack)].next = @ + 1] \in Seq(Frame)
    <3>1. [Top EXCEPT !.next = @ + 1] \in Frame
      BY <2>1 DEF Frame
    <3>2. [stack EXCEPT ![Len(stack)] = [Top EXCEPT !.next = @ + 1]] \in Seq(Frame)
      BY <2>1, <3>1 DEF TypeOK
    <3>3. QED
      BY <2>1, <3>2 DEF Top
  <2>4. stack' \in Seq(Frame)
    BY <1>4, <2>2, <2>3 DEF BuildChild, Frame
  <2>5. QED
    BY <1>4, <2>4 DEF BuildChild, TypeOK
<1>5. CASE FileNotFound
  BY <1>5, ExitType DEF FileNotFound, TypeOK
<1>6. CASE NothingToDo \/ StartCommands \/ PretendToBuild
  <2>1. Deciding /\ Current \in Node
    BY <1>6, TopFacts DEF NothingToDo, StartCommands, PretendToBuild, Compare,
       Deciding, Running
  <2>2. Outs(Current) \cup Compared(Current) \subseteq File
    BY <2>1, NodeFacts DEF Compared, Deps, Range
  <2>3. statted' = Statted(Outs(Current) \cup Compared(Current))
    BY <1>6 DEF NothingToDo, StartCommands, PretendToBuild, Compare
  <2>4. /\ DOMAIN statted' \subseteq File
        /\ \A f \in DOMAIN statted' : statted'[f] \in 0..MaxClock
    BY <2>2, <2>3, TimeType DEF TypeOK, Statted
  <2>5. QED
    BY <1>6, <2>4 DEF NothingToDo, StartCommands, PretendToBuild, Compare, TypeOK
<1>7. ASSUME NEW W \in SUBSET Product, RunCommand(W)
      PROVE  TypeOK'
  BY <1>7, BoundAssumption DEF RunCommand, WritePartly, TypeOK
<1>8. ASSUME NEW W \in SUBSET Product, LastCommand(W)
      PROVE  TypeOK'
  <2>1. Current \in Rule /\ Current \in Node
    BY <1>8, NodeAssumption DEF LastCommand, WritingInv, Writing
  <2>2. \A d \in Deps(Current) : ContentOf(d) \subseteq Stamp
    BY <2>1, NodeFacts DEF ContentOf, TypeOK, Stamp, File
  <2>3. content' \in [Product -> SUBSET Stamp]
    BY <1>8, <2>2 DEF LastCommand, TypeOK
  <2>4. mtime' \in [File -> 0..MaxClock]
    BY <1>8, BoundAssumption DEF LastCommand, TypeOK
  <2>5. QED
    BY <1>8, <2>3, <2>4 DEF LastCommand, TypeOK
<1>9. ASSUME NEW W \in SUBSET Product, CommandFails(W)
      PROVE  TypeOK'
  BY <1>9, BoundAssumption DEF CommandFails, WritePartly, TypeOK
<1>10. Unsettled \subseteq Node
  BY DEF Unsettled, TypeOK
<1>11. CASE Cleanup
  <2>1. mtime' \in [File -> 0..MaxClock] /\ content' \in [Product -> SUBSET Stamp]
    BY <1>11, BoundAssumption DEF Cleanup, RemoveOutputs, TypeOK
  <2>2. QED
    BY <1>10, <1>11, <2>1, ExitType DEF Cleanup, TypeOK
<1>12. CASE FileTouch
  <2>1. Outs(Current) \in SUBSET File
    BY <1>12, TopFacts, NodeFacts DEF FileTouch, Running
  <2>2. statted' = Touched(Outs(Current))
    BY <1>12 DEF FileTouch
  <2>3. /\ DOMAIN statted' \subseteq File
        /\ \A f \in DOMAIN statted' : statted'[f] \in 0..MaxClock
    BY <2>1, <2>2, BoundAssumption DEF TypeOK, Touched
  <2>4. QED
    BY <1>12, <2>3 DEF FileTouch, TypeOK
<1>13. CASE Install
  <2>1. Current \in Node /\ Len(stack) \in Nat \ {0}
    BY <1>13, TopFacts DEF Install, NothingToInstall, ShellInstall, Symlink,
       Unlink, InstallFails, Running
  <2>2. ASSUME Return, installed' \subseteq Node PROVE TypeOK'
    BY <2>1, <2>2 DEF Return, TypeOK
  <2>3. CASE NothingToInstall \/ ShellInstall \/ Symlink
    <3>1. Return /\ installed' \subseteq Node
      BY <2>1, <2>3 DEF NothingToInstall, ShellInstall, Symlink, TypeOK
    <3>2. QED
      BY <2>2, <3>1
  <2>4. CASE Unlink
    BY <2>4 DEF Unlink, TypeOK
  <2>5. CASE InstallFails
    BY <1>10, <2>5, ExitType DEF InstallFails, TypeOK
  <2>6. QED
    BY <1>13, <2>3, <2>4, <2>5 DEF Install
<1>14. ASSUME NEW W \in SUBSET Product, Crash(W)
       PROVE  TypeOK'
  <2>1. mtime' \in [File -> 0..MaxClock] /\ content' \in [Product -> SUBSET Stamp]
    <3>1. CASE WritePartly(W)
      BY <3>1, BoundAssumption DEF WritePartly, TypeOK
    <3>2. CASE RemoveOutputs(W)
      BY <3>2, BoundAssumption DEF RemoveOutputs, TypeOK
    <3>3. CASE UNCHANGED <<mtime, content>>
      BY <3>3 DEF TypeOK
    <3>4. QED
      BY <1>14, <3>1, <3>2, <3>3 DEF Crash
  <2>2. interrupted' \subseteq Rule
    <3>1. CASE phase \in {"exec", "cleanup"}
      BY <1>14, <3>1 DEF Crash, WritingInv, Writing, TypeOK
    <3>2. CASE phase \notin {"exec", "cleanup"}
      BY <1>14, <3>2 DEF Crash, WritingInv, Writing, TypeOK
    <3>3. QED
      BY <3>1, <3>2
  <2>3. crashes' \in 0..MaxCrashes
    BY <1>14, BoundAssumption DEF Crash, TypeOK
  <2>4. settled' \subseteq Node
    BY <1>10, <1>14 DEF Crash, TypeOK
  <2>5. QED
    BY <1>14, <2>1, <2>2, <2>3, <2>4, ExitType DEF Crash, TypeOK
<1>15. ASSUME NEW s \in Source, Edit(s) \/ RemoveSource(s)
       PROVE  TypeOK'
  <2>1. mtime' \in [File -> 0..MaxClock] /\ version' \in [Source -> 1..MaxVersion]
    <3>1. CASE Edit(s)
      <4>1. version[s] + 1 \in 1..MaxVersion /\ clock \in 0..MaxClock
        BY <3>1, BoundAssumption DEF Edit, TypeOK
      <4>2. QED
        BY <3>1, <4>1 DEF Edit, TypeOK, File
    <3>2. CASE RemoveSource(s)
      BY <3>2, BoundAssumption DEF RemoveSource, TypeOK, File
    <3>3. QED
      BY <1>15, <3>1, <3>2
  <2>2. QED
    BY <1>15, <2>1 DEF Edit, RemoveSource, TypeOK
<1>16. ASSUME NEW r \in Rule, DeleteProducts(r)
       PROVE  TypeOK'
  <2>1. mtime' \in [File -> 0..MaxClock] /\ content' \in [Product -> SUBSET Stamp]
    BY <1>16, BoundAssumption DEF DeleteProducts, RemoveOutputs, TypeOK
  <2>2. QED
    BY <1>16, <2>1 DEF DeleteProducts, TypeOK
<1>17. CASE Tick
  BY <1>17, BoundAssumption DEF Tick, TypeOK
<1>18. CASE UNCHANGED vars
  BY <1>18 DEF vars, TypeOK
<1>19. QED
  BY <1>1, <1>2, <1>3, <1>4, <1>5, <1>6, <1>7, <1>8, <1>9, <1>11, <1>12, <1>13,
     <1>14, <1>15, <1>16, <1>17, <1>18 DEF Next, Pm, Walk, Decide, Execute

-----------------------------------------------------------------------------
(* The stack.                                                              *)

(* Actions that neither push nor pop: they keep the stack and may leave    *)
(* the walk phase only when all children are built.                        *)
LEMMA StackKept ==
  ASSUME StackInv, Running, Running',
         UNCHANGED <<stack, targets, position>>,
         phase' # "walk" => Top.next > Len(Children[Current])
  PROVE  StackInv'
BY DEF StackInv, Running, Top, Current

(* The end of a run empties it.                                            *)
LEMMA StackExit ==
  ASSUME TypeOK, StackInv, NEW v \in {"none", "ok", "failed"}, Exit(v)
  PROVE  StackInv'
<1>1. Len(stack') = 0 /\ phase' = "idle" /\ UNCHANGED <<targets, position>>
  BY DEF Exit
<1>2. QED
  BY <1>1 DEF StackInv, Running

(* __build returns: the innermost node is popped.                          *)
LEMMA PopFacts ==
  ASSUME TypeOK, StackInv, Running, Return
  PROVE  /\ Len(stack') = Len(stack) - 1
         /\ \A k \in 1..(Len(stack) - 1) : stack'[k] = stack[k]
<1>1. Len(stack) \in Nat \ {0}
  BY TopFacts
<1>2. \A k \in 1..(Len(stack) - 1) : stack[k] \in Frame
  BY <1>1 DEF TypeOK
<1>3. stack' = SubSeq(stack, 1, Len(stack) - 1)
  BY DEF Return
<1> DEFINE m == Len(stack) - 1
<1>4. m \in Int
  BY <1>1
<1>5. \A i \in 1..m : stack[i] \in Frame
  BY <1>2
<1>6. m >= 0
  BY <1>1
<1>7. stack' = SubSeq(stack, 1, m)
  BY <1>3
<1> HIDE DEF m
<1>8. /\ Len(SubSeq(stack, 1, m)) = IF 1 <= m THEN m - 1 + 1 ELSE 0
      /\ \A i \in 1..(m - 1 + 1) : SubSeq(stack, 1, m)[i] = stack[1 + i - 1]
  BY <1>4, <1>5, SubSeqProperties
<1>9. Len(stack') = m
  BY <1>4, <1>6, <1>7, <1>8
<1>10. ASSUME NEW k \in 1..m PROVE stack'[k] = stack[k]
  <2>1. k \in 1..(m - 1 + 1) /\ 1 + k - 1 = k
    BY <1>4
  <2>2. SubSeq(stack, 1, m)[k] = stack[1 + k - 1]
    BY <1>8, <2>1
  <2>3. QED
    BY <1>7, <2>1, <2>2
<1>11. QED
  BY <1>9, <1>10 DEF m

(* __buildchildren calls __build of the next child: it is pushed.          *)
LEMMA PushFacts ==
  ASSUME TypeOK, StackInv, BuildChild
  PROVE  /\ Len(stack) \in Nat \ {0}
         /\ Len(stack') = Len(stack) + 1
         /\ \A k \in 1..(Len(stack) - 1) : stack'[k] = stack[k]
         /\ stack'[Len(stack)] = [Top EXCEPT !.next = @ + 1]
         /\ stack'[Len(stack) + 1] =
               [node |-> Children[Current][Top.next], next |-> 1]
<1> DEFINE fr == [Top EXCEPT !.next = @ + 1]
           ch == [node |-> Children[Current][Top.next], next |-> 1]
           st == [stack EXCEPT ![Len(stack)] = fr]
<1>1. Len(stack) \in Nat \ {0} /\ Top \in Frame /\ Current \in Node
  BY TopFacts DEF BuildChild, Running
<1>2. fr \in Frame /\ ch \in Frame
  BY <1>1, NodeFacts DEF BuildChild, Frame
<1>3. stack' = Append(st, ch)
  BY DEF BuildChild, Top
<1>4. /\ st \in Seq(Frame) /\ Len(st) = Len(stack)
      /\ \A k \in 1..(Len(stack) - 1) : st[k] = stack[k]
      /\ st[Len(stack)] = fr
  <2> HIDE DEF fr
  <2>1. QED
    BY <1>1, <1>2 DEF TypeOK
<1> HIDE DEF fr, ch, st
<1>5. /\ Len(Append(st, ch)) = Len(st) + 1
      /\ \A i \in 1..Len(st) : Append(st, ch)[i] = st[i]
      /\ Append(st, ch)[Len(st) + 1] = ch
  BY <1>2, <1>4, AppendProperties
<1>6. QED
  BY <1>1, <1>3, <1>4, <1>5 DEF fr, ch

(* A return of __build keeps the stack a path from the target.             *)
LEMMA StackReturn ==
  ASSUME TypeOK, StackInv, Running, Return
  PROVE  StackInv'
<1>1. Len(stack) \in Nat \ {0}
  BY TopFacts
<1>2. /\ stack' = SubSeq(stack, 1, Len(stack) - 1)
      /\ phase' = IF Len(stack) = 1 THEN "targets" ELSE "walk"
      /\ UNCHANGED <<targets, position>>
  BY DEF Return
<1>3. /\ Len(stack') = Len(stack) - 1
      /\ \A k \in 1..(Len(stack) - 1) : stack'[k] = stack[k]
  BY PopFacts
<1>4. Running' <=> Len(stack') > 0
  BY <1>1, <1>2, <1>3 DEF Running
<1>5. QED
  BY <1>1, <1>2, <1>3, <1>4 DEF StackInv, Running

(* So does the call of __build on the next child.                          *)
LEMMA StackPush ==
  ASSUME TypeOK, StackInv, BuildChild
  PROVE  StackInv'
<1> DEFINE n == Len(stack)
<1>1. n \in Nat \ {0} /\ Top \in Frame /\ Running /\ phase = "walk"
  BY TopFacts DEF BuildChild, Running
<1>2. /\ Len(stack') = n + 1
      /\ \A k \in 1..(n - 1) : stack'[k] = stack[k]
      /\ stack'[n] = [Top EXCEPT !.next = @ + 1]
      /\ stack'[n + 1] = [node |-> Children[Current][Top.next], next |-> 1]
      /\ UNCHANGED <<phase, targets, position>>
  BY PushFacts DEF BuildChild
<1>3. /\ stack'[n].node = Current /\ stack'[n].next = Top.next + 1
      /\ Top.next \in Nat \ {0} /\ Top.next <= Len(Children[Current])
      /\ stack[n].node = Current
  BY <1>1, <1>2 DEF BuildChild, Frame, Top, Current
<1>4. Children[Current][Top.next] \in Node
  BY <1>1, <1>3, TopFacts, NodeFacts
<1>a. stack'[n + 1].node = Children[Current][Top.next] /\ stack'[n + 1].next = 1
  BY <1>2
<1> HIDE DEF n
<1>5. ASSUME NEW k \in 1..n PROVE stack'[k].node = stack[k].node
  <2>1. CASE k = n
    BY <1>3, <2>1
  <2>2. CASE k \in 1..(n - 1)
    BY <1>2, <2>2
  <2>3. QED
    BY <1>1, <2>1, <2>2
<1>6. ASSUME NEW k \in 1..(n + 1)
      PROVE  stack'[k].next - 1 <= Len(Children[stack'[k].node])
  <2>1. CASE k = n + 1
    BY <1>4, <1>a, <2>1, NodeFacts
  <2>2. CASE k = n
    BY <1>3, <2>2
  <2>3. CASE k \in 1..(n - 1)
    <3>1. stack'[k] = stack[k] /\ k \in 1..n
      BY <1>1, <1>2, <2>3
    <3>2. QED
      BY <3>1 DEF StackInv, n
  <2>4. QED
    BY <1>1, <2>1, <2>2, <2>3
<1>7. ASSUME NEW k \in 1..n
      PROVE  /\ stack'[k].next > 1
             /\ stack'[k + 1].node = Children[stack'[k].node][stack'[k].next - 1]
  <2>1. CASE k = n
    BY <1>3, <1>a, <2>1
  <2>2. CASE k \in 1..(n - 1)
    <3>1. /\ stack'[k] = stack[k] /\ k + 1 \in 1..n
          /\ stack'[k + 1].node = stack[k + 1].node
      BY <1>1, <1>2, <1>5, <2>2
    <3>2. /\ stack[k].next > 1
          /\ stack[k + 1].node = Children[stack[k].node][stack[k].next - 1]
      BY <2>2 DEF StackInv, n
    <3>3. QED
      BY <3>1, <3>2
  <2>3. QED
    BY <1>1, <2>1, <2>2
<1>8. QED
  BY <1>1, <1>2, <1>5, <1>6, <1>7 DEF StackInv, Running, n

(* Every step keeps the stack a path from the target being built.          *)
LEMMA StackNext ==
  ASSUME TypeOK, StackInv, WritingInv, [Next]_vars
  PROVE  StackInv'
<1> USE DEF disk, run, history
<1>1. ASSUME NEW ts \in TargetLists, NEW dry \in BOOLEAN, NEW purge \in BOOLEAN,
             StartRun(ts, dry, purge)
      PROVE  StackInv'
  <2>1. /\ Len(stack') = 0 /\ Len(stack') = Len(stack) /\ position' = 1
        /\ phase' = "targets" /\ targets' \in Seq(Node)
    BY <1>1, NodeAssumption DEF StartRun, StackInv, Running, TypeOK
  <2>2. QED
    BY <2>1 DEF StackInv, Running
<1>2. CASE NextTarget
  <2>1. /\ stack' = <<[node |-> targets[position], next |-> 1]>>
        /\ position' = position + 1 /\ position <= Len(targets)
        /\ phase' = "walk" /\ targets' = targets
    BY <1>2 DEF NextTarget
  <2>2. Len(stack') = 1 /\ stack'[1].node = targets[position] /\ stack'[1].next = 1
    BY <2>1
  <2>3. targets[position] \in Node
    BY <2>1 DEF TypeOK
  <2>4. Len(Children[targets[position]]) >= 0
    BY <2>3, NodeFacts
  <2>5. QED
    BY <2>1, <2>2, <2>4 DEF StackInv, Running, TypeOK
<1>3. CASE FinishRun \/ FileNotFound \/ Cleanup \/ InstallFails
  BY <1>3, StackExit DEF FinishRun, FileNotFound, Cleanup, InstallFails
<1>4. CASE BuildChild
  BY <1>4, StackPush
<1>5. CASE NothingToDo \/ StartCommands \/ PretendToBuild
  <2>1. /\ Running /\ Running' /\ UNCHANGED <<stack, targets, position>>
        /\ Top.next > Len(Children[Current])
    BY <1>5 DEF NothingToDo, StartCommands, PretendToBuild, Compare, Deciding,
       Running
  <2>2. QED
    BY <2>1, StackKept
<1>6. ASSUME NEW W \in SUBSET Product,
             RunCommand(W) \/ LastCommand(W) \/ CommandFails(W)
      PROVE  StackInv'
  <2>1. /\ Running /\ phase # "walk" /\ Running' /\ phase' # "walk"
        /\ UNCHANGED <<stack, targets, position>>
    BY <1>6 DEF RunCommand, LastCommand, CommandFails, Running
  <2>2. QED
    BY <2>1, StackKept DEF StackInv
<1>7. CASE FileTouch \/ Unlink
  <2>1. /\ Running /\ phase # "walk" /\ Running' /\ phase' # "walk"
        /\ UNCHANGED <<stack, targets, position>>
    BY <1>7 DEF FileTouch, Unlink, Running
  <2>2. QED
    BY <2>1, StackKept DEF StackInv
<1>8. CASE NothingToInstall \/ ShellInstall \/ Symlink
  BY <1>8, StackReturn DEF NothingToInstall, ShellInstall, Symlink, Running
<1>9. ASSUME NEW W \in SUBSET Product, Crash(W)
      PROVE  StackInv'
  BY <1>9, StackExit DEF Crash
<1>10. CASE \/ \E s \in Source : Edit(s) \/ RemoveSource(s)
            \/ \E r \in Rule : DeleteProducts(r)
            \/ Tick \/ UNCHANGED vars
  <2>1. UNCHANGED <<phase, stack, targets, position>>
    BY <1>10 DEF Edit, RemoveSource, DeleteProducts, Tick, vars
  <2>2. QED
    BY <2>1 DEF StackInv, Running, Top, Current
<1>11. QED
  BY <1>1, <1>2, <1>3, <1>4, <1>5, <1>6, <1>7, <1>8, <1>9, <1>10
     DEF Next, Pm, Walk, Decide, Execute, Install

-----------------------------------------------------------------------------
(* What the commands write.                                                *)

(* Actions that write nothing and leave the phases in which commands run.  *)
LEMMA NotWriting ==
  ASSUME WritingInv, written' = {}, phase' \notin {"exec", "cleanup"},
         \A f \in File : mtime'[f] <= clock'
  PROVE  WritingInv'
BY DEF WritingInv, Writing

(* Commands go on writing only the outputs of the rule that runs them.     *)
LEMMA WritingNext ==
  ASSUME TypeOK, StackInv, WritingInv, [Next]_vars
  PROVE  WritingInv'
<1> USE DEF disk, run, history
<1>c. clock \in Nat /\ \A f \in File : mtime[f] \in Nat /\ mtime[f] <= clock
  BY DEF TypeOK, WritingInv
<1>1. ASSUME NEW ts \in TargetLists, NEW dry \in BOOLEAN, NEW purge \in BOOLEAN,
             StartRun(ts, dry, purge)
      PROVE  WritingInv'
  <2>1. \A f \in File : mtime'[f] <= clock'
    BY <1>1, <1>c DEF StartRun
  <2>2. written' = {} /\ phase' = "targets"
    BY <1>1 DEF StartRun, WritingInv, Writing
  <2>3. QED
    BY <2>1, <2>2, NotWriting
<1>2. CASE \/ NextTarget \/ FinishRun \/ BuildChild \/ FileNotFound
           \/ NothingToDo \/ PretendToBuild \/ FileTouch \/ Install
  <2>1. UNCHANGED <<clock, mtime>>
    BY <1>2 DEF NextTarget, FinishRun, BuildChild, FileNotFound, NothingToDo,
       PretendToBuild, Compare, FileTouch, Install, NothingToInstall,
       ShellInstall, Symlink, Unlink, InstallFails, Return
  <2>2. phase \notin {"exec", "cleanup"} /\ phase' \notin {"exec", "cleanup"}
    BY <1>2 DEF NextTarget, FinishRun, BuildChild, FileNotFound, NothingToDo,
       PretendToBuild, Compare, Deciding, FileTouch, Install, NothingToInstall,
       ShellInstall, Symlink, Unlink, InstallFails, Return, Exit
  <2>3. written' \in {written, {}}
    BY <1>2 DEF NextTarget, FinishRun, BuildChild, FileNotFound, NothingToDo,
       PretendToBuild, Compare, FileTouch, Install, NothingToInstall,
       ShellInstall, Symlink, Unlink, InstallFails, Return, Exit
  <2>4. QED
    BY <1>c, <2>1, <2>2, <2>3, NotWriting DEF WritingInv, Writing
<1>3. CASE StartCommands
  <2>1. /\ Current \in Rule /\ ~noExecute /\ written = {}
        /\ UNCHANGED <<clock, mtime, stack, noExecute, written>>
    BY <1>3 DEF StartCommands, Compare, Deciding, WritingInv, Writing
  <2>2. QED
    BY <2>1, <1>c DEF WritingInv, Writing, Current, Top
<1>4. ASSUME NEW W \in SUBSET Product, RunCommand(W) \/ CommandFails(W)
      PROVE  WritingInv'
  <2>1. /\ Writing /\ Current' = Current /\ W \subseteq Outs(Current)
        /\ written' = written \cup W /\ UNCHANGED <<clock, noExecute>>
        /\ mtime' = [f \in File |-> IF f \in W THEN clock ELSE mtime[f]]
    BY <1>4 DEF RunCommand, CommandFails, Writing, WritePartly, Current, Top
  <2>2. ASSUME NEW p \in written'
        PROVE  mtime'[p] # 0 /\ \A s \in Source : mtime'[s] <= mtime'[p]
    <3>1. \A s \in Source : s \in File /\ s \notin W
      BY FileAssumption DEF File
    <3>2. p \in Product /\ p \in File
      BY <2>1, <2>2 DEF TypeOK, File
    <3>3. clock # 0
      BY DEF TypeOK
    <3>4. QED
      BY <2>1, <2>2, <3>1, <3>2, <3>3, <1>c DEF WritingInv
  <2>3. \A f \in File : mtime'[f] <= clock'
    BY <2>1, <1>c
  <2>4. Current \in Rule /\ ~noExecute /\ written \subseteq Outs(Current)
    BY <2>1 DEF WritingInv
  <2>5. phase' \in {"exec", "cleanup"}
    BY <1>4 DEF RunCommand, CommandFails
  <2>6. QED
    BY <2>1, <2>2, <2>3, <2>4, <2>5 DEF WritingInv, Writing
<1>5. ASSUME NEW W \in SUBSET Product, LastCommand(W)
      PROVE  WritingInv'
  <2>1. \A f \in File : mtime'[f] <= clock'
    BY <1>5, <1>c DEF LastCommand
  <2>2. QED
    BY <1>5, <2>1, NotWriting DEF LastCommand
<1>6. CASE Cleanup
  <2>1. \A f \in File : mtime'[f] <= clock'
    BY <1>6, <1>c DEF Cleanup, RemoveOutputs
  <2>2. QED
    BY <1>6, <2>1, NotWriting DEF Cleanup, Exit
<1>7. ASSUME NEW W \in SUBSET Product, Crash(W)
      PROVE  WritingInv'
  <2>1. \A f \in File : mtime'[f] <= clock'
    <3>1. clock' = clock
      BY <1>7 DEF Crash
    <3>2. CASE WritePartly(W)
      BY <1>c, <3>1, <3>2 DEF WritePartly
    <3>3. CASE RemoveOutputs(W)
      BY <1>c, <3>1, <3>3 DEF RemoveOutputs
    <3>4. CASE UNCHANGED <<mtime, content>>
      BY <1>c, <3>1, <3>4
    <3>5. QED
      BY <1>7, <3>2, <3>3, <3>4 DEF Crash
  <2>2. QED
    BY <1>7, <2>1, NotWriting DEF Crash, Exit
<1>8. ASSUME NEW s \in Source, Edit(s) \/ RemoveSource(s)
      PROVE  WritingInv'
  <2>1. \A f \in File : mtime'[f] <= clock'
    BY <1>8, <1>c DEF Edit, RemoveSource, TypeOK
  <2>2. phase' = "idle" /\ written' = {}
    BY <1>8 DEF Edit, RemoveSource, WritingInv, Writing
  <2>3. QED
    BY <2>1, <2>2, NotWriting
<1>9. ASSUME NEW r \in Rule, DeleteProducts(r)
      PROVE  WritingInv'
  <2>1. \A f \in File : mtime'[f] <= clock'
    BY <1>9, <1>c DEF DeleteProducts, RemoveOutputs
  <2>2. phase' = "idle" /\ written' = {}
    BY <1>9 DEF DeleteProducts, WritingInv, Writing
  <2>3. QED
    BY <2>1, <2>2, NotWriting
<1>10. CASE Tick \/ UNCHANGED vars
  <2>1. /\ UNCHANGED <<mtime, phase, stack, noExecute, written>>
        /\ clock' \in Nat /\ clock <= clock'
    BY <1>10, <1>c DEF Tick, vars
  <2>2. QED
    BY <2>1, <1>c DEF WritingInv, Writing, Current, Top
<1>11. QED
  BY <1>1, <1>2, <1>3, <1>4, <1>5, <1>6, <1>7, <1>8, <1>9, <1>10
     DEF Next, Pm, Walk, Decide, Execute

-----------------------------------------------------------------------------
(* What a real run knows of the nodes below the one it decides about.      *)

(* When a real run decides about a node, all its children are settled.     *)
LEMMA ChildrenSettled ==
  ASSUME TypeOK, StackInv, RunInv, ~noExecute, Running,
         Top.next > Len(Children[Current])
  PROVE  Range(Children[Current]) \subseteq settled
<1> DEFINE n == Len(stack)
<1>1. n \in Nat \ {0} /\ Top \in Frame /\ Current \in Node
  BY TopFacts
<1>2. /\ Top = stack[n] /\ Top.next \in Nat
      /\ Current = stack[n].node
  BY <1>1 DEF Top, Current, Frame
<1>3. ASSUME NEW j \in 1..(stack[n].next - 1)
      PROVE  Children[stack[n].node][j] \in settled
  <2>1. n \in 1..Len(stack) /\ ~(n < Len(stack))
    BY <1>1
  <2>2. QED
    BY <1>3, <2>1 DEF RunInv, PathSettled
<1>4. ASSUME NEW j \in 1..Len(Children[Current])
      PROVE  Children[Current][j] \in settled
  <2>1. Len(Children[Current]) \in Nat
    BY <1>1, NodeFacts
  <2>2. j \in 1..(stack[n].next - 1)
    BY <1>2, <2>1
  <2>3. QED
    BY <1>2, <1>3, <2>2
<1>5. ASSUME NEW c \in Range(Children[Current]) PROVE c \in settled
  <2>1. PICK j \in 1..Len(Children[Current]) : c = Children[Current][j]
    BY <1>1, NodeFacts
  <2>2. QED
    BY <1>4, <2>1
<1>6. QED
  BY <1>5

(* Every product a child returned is made by a settled rule.               *)
LEMMA BelowSettled ==
  ASSUME TypeOK, StackInv, SettledInv, RunInv, ~noExecute, Running,
         Top.next > Len(Children[Current]),
         NEW p \in Below(Current) \cap Product
  PROVE  \E r \in settled \cap Rule : p \in Outs(r)
<1>1. PICK c \in Range(Children[Current]) : p \in Outs(c)
  BY DEF Below
<1>2. c \in settled
  BY <1>1, ChildrenSettled
<1>3. QED
  BY <1>1, <1>2 DEF SettledInv, SettledTree, SettledRules

(* What the node depends on is a source or made by a settled rule.         *)
LEMMA DependencySettled ==
  ASSUME TypeOK, StackInv, SettledInv, RunInv, ~noExecute, Running,
         Top.next > Len(Children[Current]),
         NEW d \in Deps(Current), d \notin Source
  PROVE  d \in Product /\ \E r \in settled \cap Rule : d \in Outs(r)
<1>1. Current \in Node
  BY TopFacts
<1>2. d \in Product /\ d \in Below(Current)
  BY <1>1, NodeFacts, PassiveAssumption DEF File
<1>3. QED
  BY <1>2, BelowSettled

(* What the node returns will be made by a settled rule once it is built.  *)
LEMMA OutputSettled ==
  ASSUME TypeOK, StackInv, SettledInv, RunInv, ~noExecute, Running,
         Top.next > Len(Children[Current]),
         NEW p \in Outs(Current), p \in Product
  PROVE  \E r \in (settled \cup {Current}) \cap Rule : p \in Outs(r)
<1>1. Current \in Node
  BY TopFacts
<1>2. CASE Current \in Rule
  BY <1>2
<1>3. CASE Current \notin Rule
  <2>1. p \in Below(Current)
    BY <1>1, <1>3, PassiveAssumption, FileAssumption
  <2>2. QED
    BY <2>1, BelowSettled
<1>4. QED
  BY <1>2, <1>3

-----------------------------------------------------------------------------
(* The stat cache.                                                         *)

(* The end of a run forgets the stat cache.                                *)
LEMMA StatExit ==
  ASSUME statted' = EmptyCache
  PROVE  StatInv'
BY DEF StatInv, EmptyCache

(* The stat cache stays tied to the timestamps on disk.                    *)
LEMMA StatNext ==
  ASSUME TypeOK, StackInv, WritingInv, StatInv, SettledInv, RunInv, [Next]_vars
  PROVE  StatInv'
<1> USE DEF disk, run, history
<1>c. /\ clock \in Nat
      /\ \A f \in File : mtime[f] \in Nat /\ mtime[f] <= clock
      /\ DOMAIN statted \subseteq File
      /\ \A f \in DOMAIN statted : statted[f] \in Nat
  BY DEF TypeOK, WritingInv
<1>1. CASE \/ \E ts \in TargetLists, dry, purge \in BOOLEAN :
                 StartRun(ts, dry, purge)
           \/ \E s \in Source : Edit(s) \/ RemoveSource(s)
           \/ \E r \in Rule : DeleteProducts(r)
  <2>1. phase = "idle" /\ statted' = statted
    BY <1>1 DEF StartRun, Edit, RemoveSource, DeleteProducts
  <2>2. QED
    BY <2>1, StatExit DEF StatInv
<1>2. CASE \/ FinishRun \/ FileNotFound \/ Cleanup \/ InstallFails
           \/ \E W \in SUBSET Product : Crash(W)
  BY <1>2, StatExit DEF FinishRun, FileNotFound, Cleanup, InstallFails, Crash, Exit
<1>3. CASE NextTarget \/ BuildChild
  <2>1. /\ UNCHANGED <<statted, mtime, settled, noExecute>> /\ phase' = "walk"
        /\ phase \in {"targets", "walk"}
    BY <1>3 DEF NextTarget, BuildChild
  <2>2. QED
    BY <2>1 DEF StatInv, Running
<1>4. CASE NothingToDo \/ StartCommands \/ PretendToBuild
  <2>1. /\ phase = "walk" /\ phase' \in {"install", "exec", "touch"}
        /\ statted' = Statted(Outs(Current) \cup Compared(Current))
        /\ UNCHANGED <<mtime, settled, noExecute>>
    BY <1>4 DEF NothingToDo, StartCommands, PretendToBuild, Compare, Deciding
  <2>2. Current \in Node
    BY <2>1, TopFacts DEF Running
  <2>3. Outs(Current) \cup Compared(Current) \subseteq File
    BY <2>2, NodeFacts DEF Compared, Deps, Range
  <2>4. ASSUME NEW f \in DOMAIN statted'
        PROVE  \/ f \in DOMAIN statted /\ statted'[f] = statted[f]
               \/ f \in File /\ statted'[f] = mtime[f]
    BY <2>1, <2>3 DEF Statted, Time
  <2>5. \A f \in DOMAIN statted' : statted'[f] >= mtime'[f]
    BY <1>c, <2>1, <2>4 DEF StatInv
  <2>6. ~noExecute' => \A p \in DOMAIN statted' \cap Product :
             statted'[p] = mtime'[p] \/ \E r \in settled' \cap Rule : p \in Outs(r)
    BY <2>1, <2>4 DEF StatInv, Running
  <2>7. QED
    BY <2>1, <2>5, <2>6 DEF StatInv
<1>5. ASSUME NEW W \in SUBSET Product,
             RunCommand(W) \/ LastCommand(W) \/ CommandFails(W)
      PROVE  StatInv'
  <2>1. /\ phase = "exec" /\ phase' \in {"exec", "cleanup", "touch"}
        /\ W \subseteq Outs(Current) /\ Current' = Current
        /\ mtime' = [f \in File |-> IF f \in W THEN clock ELSE mtime[f]]
        /\ UNCHANGED <<statted, settled, noExecute>>
    BY <1>5 DEF RunCommand, LastCommand, CommandFails, WritePartly, Current, Top
  <2>2. \A f \in DOMAIN statted' : statted'[f] >= mtime'[f] \/ f \in Outs(Current')
    BY <1>c, <2>1 DEF StatInv
  <2>3. ~noExecute' => \A p \in DOMAIN statted' \cap Product :
             \/ statted'[p] = mtime'[p]
             \/ \E r \in settled' \cap Rule : p \in Outs(r)
             \/ p \in Outs(Current')
    BY <1>c, <2>1 DEF StatInv
  <2>4. QED
    BY <2>1, <2>2, <2>3 DEF StatInv, Running
<1>6. CASE FileTouch
  <2>1. /\ phase = "touch" /\ phase' = "install" /\ Current' = Current
        /\ statted' = Touched(Outs(Current))
        /\ UNCHANGED <<mtime, settled, noExecute>>
    BY <1>6 DEF FileTouch, Current, Top
  <2>2. Current \in Node
    BY <2>1, TopFacts DEF Running
  <2>3. ASSUME NEW f \in DOMAIN statted'
        PROVE  /\ f \in File
               /\ \/ f \in Outs(Current) /\ statted'[f] = clock
                  \/ /\ f \notin Outs(Current) /\ f \in DOMAIN statted
                     /\ statted'[f] = statted[f]
    BY <1>c, <2>1, <2>2, NodeFacts DEF Touched
  <2>4. \A f \in DOMAIN statted' : statted'[f] >= mtime'[f]
    BY <1>c, <2>1, <2>3 DEF StatInv
  <2>5. ~noExecute' => \A p \in DOMAIN statted' \cap Product :
             \/ statted'[p] = mtime'[p]
             \/ \E r \in settled' \cap Rule : p \in Outs(r)
             \/ p \in Outs(Current')
    BY <2>1, <2>3 DEF StatInv
  <2>6. QED
    BY <2>1, <2>4, <2>5 DEF StatInv, Running
<1>7. CASE NothingToInstall \/ ShellInstall \/ Symlink
  <2>1. /\ phase \in {"install", "relink"} /\ Running /\ phase # "walk"
        /\ phase' \in {"targets", "walk"}
        /\ settled' = IF noExecute THEN settled ELSE settled \cup {Current}
        /\ UNCHANGED <<mtime, statted, noExecute>>
    BY <1>7 DEF NothingToInstall, ShellInstall, Symlink, Return, Running
  <2>2. Top.next > Len(Children[Current])
    BY <2>1 DEF StackInv
  <2>3. ASSUME ~noExecute, NEW p \in DOMAIN statted \cap Product
        PROVE  statted[p] = mtime[p] \/ \E r \in settled' \cap Rule : p \in Outs(r)
    <3>1. CASE p \in Outs(Current)
      BY <2>1, <2>2, <2>3, <3>1, OutputSettled
    <3>2. CASE p \notin Outs(Current)
      BY <2>1, <2>3, <3>2 DEF StatInv
    <3>3. QED
      BY <3>1, <3>2
  <2>4. QED
    BY <2>1, <2>3 DEF StatInv
<1>8. CASE Unlink
  <2>1. /\ phase = "install" /\ phase' = "relink" /\ Current' = Current
        /\ UNCHANGED <<mtime, statted, settled, noExecute>>
    BY <1>8 DEF Unlink, Current, Top
  <2>2. QED
    BY <2>1 DEF StatInv, Running
<1>9. CASE Tick \/ UNCHANGED vars
  <2>1. UNCHANGED <<mtime, statted, settled, noExecute, phase, stack>>
    BY <1>9 DEF Tick, vars
  <2>2. QED
    BY <2>1 DEF StatInv, Running, Current, Top
<1>10. QED
  BY <1>1, <1>2, <1>3, <1>4, <1>5, <1>6, <1>7, <1>8, <1>9
     DEF Next, Pm, Walk, Decide, Execute, Install

-----------------------------------------------------------------------------
(* What the products hold.                                                 *)

(* A rule whose outputs and sources a step leaves alone keeps its standing.*)
LEMMA RuleFrame ==
  ASSUME NEW r \in Rule,
         \A o \in Outs(r) : mtime'[o] = mtime[o] /\ content'[o] = content[o],
         \A s \in RuleSources(r) : mtime'[s] = mtime[s] /\ version'[s] = version[s]
  PROVE  /\ Unbuilt(r)' <=> Unbuilt(r)
         /\ Built(r)' <=> Built(r)
         /\ Settles(r)' <=> Settles(r)
         /\ Detectable(r)' <=> Detectable(r)
         /\ \A s \in RuleSources(r) : (Behind(r, s)' <=> Behind(r, s))
                                    /\ (Holds(r, s)' <=> Holds(r, s))
<1>1. ASSUME NEW s \in RuleSources(r)
      PROVE  (Behind(r, s)' <=> Behind(r, s)) /\ (Holds(r, s)' <=> Holds(r, s))
  BY DEF Behind, Holds, HasCurrent
<1>2. (Unbuilt(r)' <=> Unbuilt(r)) /\ (Built(r)' <=> Built(r))
  BY DEF Unbuilt, Built
<1>3. (Settles(r)' <=> Settles(r)) /\ (Detectable(r)' <=> Detectable(r))
  BY <1>1, <1>2 DEF Settles, Detectable
<1>4. QED
  BY <1>1, <1>2, <1>3

(* What a command reads is current, if nothing below it was torn.          *)
LEMMA DependencyCurrent ==
  ASSUME TypeOK, StackInv, WritingInv, ContentInv, SettledInv, RunInv,
         ~noExecute, Running, Top.next > Len(Children[Current]),
         Current \in Rule, Clean(Current),
         NEW d \in Deps(Current), d \notin Source
  PROVE  /\ d \in Product
         /\ \E r \in settled \cap Rule :
               d \in Outs(r) /\ Clean(r) /\ ~HalfDone(r) /\ Settles(r)
<1>2. d \in Product
  BY DependencySettled
<1>3. PICK r \in settled \cap Rule : d \in Outs(r)
  BY DependencySettled
<1>4. Clean(r)
  BY <1>3, CleanDependency
<1>5. ~HalfDone(r)
  <2>1. ASSUME Outs(r) \cap Outs(Current) # {} PROVE FALSE
    BY <1>3, <2>1, SharedOutputs, RuleAssumption
  <2>2. QED
    BY <2>1 DEF HalfDone
<1>6. QED
  BY <1>2, <1>3, <1>4, <1>5 DEF SettledInv, SettledTree, SettledRules

(* A file a command reads holds the present version of its sources.        *)
LEMMA ReadsCurrent ==
  ASSUME TypeOK, StackInv, WritingInv, ContentInv, SettledInv, RunInv,
         Writing, Clean(Current),
         NEW d \in Deps(Current), NEW s \in Source, mtime[s] # 0
  PROVE  /\ \A v \in 1..MaxVersion : <<s, v>> \in ContentOf(d) => v = version[s]
         /\ s \in SourcesOf(d) => <<s, version[s]>> \in ContentOf(d)
<1>1. /\ version[s] \in 1..MaxVersion /\ Current \in Rule
      /\ ~noExecute /\ Running /\ Top.next > Len(Children[Current])
  BY DEF TypeOK, WritingInv, StackInv, Writing, Running
<1>2. CASE d \in Source
  BY <1>2, SourceAncestry DEF ContentOf
<1>3. CASE d \notin Source
  <2>1. d \in Product
    BY <1>1, <1>3, DependencyCurrent
  <2>2. PICK r \in settled \cap Rule : d \in Outs(r) /\ Settles(r)
    BY <1>1, <1>3, DependencyCurrent
  <2>3. ContentOf(d) = content[d] /\ SourcesOf(d) = RuleSources(r)
    BY <1>3, <2>2, OutputSources DEF ContentOf
  <2>4. CASE s \in RuleSources(r)
    <3>1. HasCurrent(d, s)
      BY <2>2, <2>4 DEF Settles, Holds
    <3>2. QED
      BY <1>1, <2>3, <3>1 DEF HasCurrent
  <2>5. CASE s \notin RuleSources(r)
    <3>1. \A v \in 1..MaxVersion : <<s, v>> \notin content[d]
      <4>1. \A v \in 1..MaxVersion : <<s, v>>[1] = s
        OBVIOUS
      <4>2. QED
        BY <2>1, <2>3, <2>5, <4>1 DEF ContentInv
    <3>2. QED
      BY <2>3, <2>5, <3>1
  <2>6. QED
    BY <2>4, <2>5
<1>4. QED
  BY <1>2, <1>3

(* The last command leaves the outputs of a rule complete and current.     *)
LEMMA LastCommandSettles ==
  ASSUME TypeOK, StackInv, WritingInv, ContentInv, SettledInv, RunInv,
         NEW W \in SUBSET Product, LastCommand(W), Clean(Current),
         NEW r \in Rule, Outs(r) \cap Outs(Current) # {}
  PROVE  Settles(r)'
<1>1. /\ Writing /\ Current \in Rule
      /\ Outs(r) = Outs(Current) /\ Deps(r) = Deps(Current)
  BY SharedOutputs DEF LastCommand, Writing, WritingInv
<1>2. /\ mtime' = [f \in File |-> IF f \in W THEN clock ELSE mtime[f]]
      /\ content' = [p \in Product |->
                      IF p \in Outs(Current)
                      THEN UNION {ContentOf(d) : d \in Deps(Current)}
                      ELSE content[p]]
      /\ version' = version /\ Outs(Current) \subseteq written \cup W
  BY DEF LastCommand, disk
<1>3. /\ clock \in Nat \ {0}
      /\ \A f \in File : mtime[f] \in Nat /\ mtime[f] <= clock
  BY DEF TypeOK, WritingInv
<1>4. Outs(r) \subseteq Product /\ Source \cap W = {}
  BY RuleAssumption, FileAssumption
<1>5. Built(r)'
  <2>1. ASSUME NEW o \in Outs(r) PROVE mtime'[o] # 0
    BY <1>1, <1>2, <1>3, <1>4 DEF WritingInv, File
  <2>2. QED
    BY <2>1 DEF Built
<1>6. ASSUME NEW s \in RuleSources(r), mtime'[s] # 0
      PROVE  Holds(r, s)'
  <2>1. s \in Source
    BY <1>6 DEF RuleSources, SourcesOf
  <2>2. mtime'[s] = mtime[s]
    BY <1>2, <1>4, <2>1 DEF File
  <2>3. ASSUME NEW o \in Outs(r)
        PROVE  mtime'[s] <= mtime'[o] /\ HasCurrent(o, s)'
    <3>1. mtime'[s] <= mtime'[o]
      BY <1>1, <1>2, <1>3, <1>4, <2>1, <2>2 DEF WritingInv, File
    <3>2. content'[o] = UNION {ContentOf(d) : d \in Deps(Current)}
      BY <1>1, <1>2, <1>4
    <3>3. PICK d \in Deps(Current) : s \in SourcesOf(d)
      BY <1>1 DEF RuleSources
    <3>4. \A v \in 1..MaxVersion : <<s, v>> \in content'[o] <=> v = version[s]
      <4>1. version[s] \in 1..MaxVersion
        BY <2>1 DEF TypeOK
      <4>2. \A e \in Deps(Current) : \A v \in 1..MaxVersion :
               <<s, v>> \in ContentOf(e) => v = version[s]
        BY <1>1, <1>6, <2>1, <2>2, ReadsCurrent
      <4>3. <<s, version[s]>> \in ContentOf(d)
        BY <1>1, <1>6, <2>1, <2>2, <3>3, ReadsCurrent
      <4>4. QED
        BY <3>2, <4>1, <4>2, <4>3
    <3>5. QED
      BY <1>2, <3>1, <3>4 DEF HasCurrent
  <2>4. QED
    BY <2>3 DEF Holds
<1>7. RuleSources(r)' = RuleSources(r)
  OBVIOUS
<1>8. QED
  BY <1>5, <1>6 DEF Settles

(* A rule that needs no building in a real run is up to date: its outputs  *)
(* are there, and no source can be newer, for then a file it depends on    *)
(* would be.                                                               *)
LEMMA UpToDateSettles ==
  ASSUME TypeOK, StackInv, WritingInv, StatInv, ContentInv, SettledInv, RunInv,
         NothingToDo, ~noExecute, Current \in Rule, Clean(Current)
  PROVE  Settles(Current)
<1>1. /\ phase = "walk" /\ Running /\ Top.next > Len(Children[Current])
      /\ ~Rebuild(Current) /\ Current \in Node
  BY TopFacts DEF NothingToDo, Compare, Deciding, Running
<1>2. \A r \in Rule : ~HalfDone(r)
  BY <1>1 DEF HalfDone
<1>3. CASE \E r \in settled \cap Rule : Outs(r) \cap Outs(Current) # {}
  <2>1. PICK r \in settled \cap Rule : Outs(r) \cap Outs(Current) # {}
    BY <1>3
  <2>2. Outs(r) = Outs(Current) /\ RuleSources(r) = RuleSources(Current)
    BY <2>1, SharedOutputs
  <2>3. Settles(r)
    BY <1>2, <2>2 DEF SettledInv, SettledTree, SettledRules, Clean
  <2>4. QED
    BY <2>2, <2>3 DEF Settles, Built, Holds
<1>4. CASE \A r \in settled \cap Rule : Outs(r) \cap Outs(Current) = {}
  <2>1. Outs(Current) \subseteq Product /\ Outs(Current) \subseteq File
    BY RuleAssumption DEF File
  <2>2. \A o \in Outs(Current) : Time(o) = mtime[o]
    BY <1>1, <1>4, <2>1 DEF StatInv, Time
  <2>3. Built(Current)
        /\ \A s \in RuleSources(Current) :
              mtime[s] = 0 \/ Behind(Current, s) \/ Holds(Current, s)
    <3>1. ~Unbuilt(Current)
      BY <1>1, <2>2 DEF Rebuild, NoTimestamp, Unbuilt
    <3>2. QED
      BY <1>2, <3>1 DEF ContentInv, Detectable
  <2>4. ASSUME NEW s \in RuleSources(Current), mtime[s] # 0, Behind(Current, s)
        PROVE  FALSE
    <3>1. PICK d \in Deps(Current) : s \in SourcesOf(d)
      BY DEF RuleSources
    <3>2. s \in Source /\ s \in File /\ d \in File
      BY <1>1, <3>1, NodeFacts DEF SourcesOf, File
    <3>3. mtime[s] <= mtime[d]
      <4>1. CASE d \in Source
        BY <3>1, <3>2, <4>1, SourceAncestry DEF TypeOK
      <4>2. CASE d \notin Source
        <5>1. PICK r \in settled \cap Rule : d \in Outs(r) /\ Settles(r)
          BY <1>1, <4>2, DependencyCurrent
        <5>2. s \in RuleSources(r)
          BY <3>1, <5>1, OutputSources
        <5>3. QED
          BY <2>4, <5>1, <5>2 DEF Settles, Holds
      <4>3. QED
        BY <4>1, <4>2
    <3>4. Time(d) >= mtime[d]
      BY <1>1, <3>2 DEF StatInv, Time, TypeOK
    <3>5. ASSUME NEW o \in Outs(Current) PROVE Time(d) > Time(o)
      <4>1. mtime[o] < mtime[s] /\ Time(o) = mtime[o] /\ o \in File
        BY <2>1, <2>2, <2>4 DEF Behind
      <4>2. mtime[o] \in Nat /\ mtime[s] \in Nat /\ mtime[d] \in Nat /\ Time(d) \in Nat
        BY <3>2, <4>1, TimeType DEF TypeOK
      <4>3. QED
        BY <3>3, <3>4, <4>1, <4>2
    <3>6. QED
      BY <1>1, <3>5 DEF Rebuild, NewerThan
  <2>5. QED
    BY <2>3, <2>4 DEF Settles
<1>5. QED
  BY <1>3, <1>4

(* Removing or half writing the outputs of one rule leaves other rules be. *)
LEMMA OtherRules ==
  ASSUME NEW q \in Rule, NEW r \in Rule, Outs(r) \cap Outs(q) = {},
         NEW W \in SUBSET Product, W \subseteq Outs(q),
         \A f \in File \ W : mtime'[f] = mtime[f],
         \A p \in Product \ W : content'[p] = content[p],
         version' = version
  PROVE  /\ Settles(r)' <=> Settles(r)
         /\ Detectable(r)' <=> Detectable(r)
<1>1. \A o \in Outs(r) : mtime'[o] = mtime[o] /\ content'[o] = content[o]
  BY RuleAssumption DEF File
<1>2. \A s \in RuleSources(r) : mtime'[s] = mtime[s] /\ version'[s] = version[s]
  BY FileAssumption DEF RuleSources, SourcesOf, File
<1>3. QED
  BY <1>1, <1>2, RuleFrame

(* Which rules are clean depends on the set of killed rules alone.         *)
LEMMA CleanShrinks ==
  ASSUME NEW r \in Rule, interrupted \subseteq interrupted', Clean(r)'
  PROVE  Clean(r)
BY DEF Clean

(* A rule that shares outputs with a killed one is not clean.              *)
LEMMA KilledNotClean ==
  ASSUME NEW q \in Rule, NEW r \in Rule, Outs(r) \cap Outs(q) # {},
         q \in interrupted'
  PROVE  ~Clean(r)'
<1>1. PICK o \in Outs(r) : o \in Outs(q)
  OBVIOUS
<1>2. o \in File /\ o \in Ancestry[o]
  BY RuleAssumption, AncestrySelf DEF File
<1>3. q \in MakersOf(o)
  BY <1>1, <1>2 DEF MakersOf
<1>4. QED
  BY <1>3 DEF Clean

(* While no command runs and no cleanup, nothing is half done.             *)
LEMMA NothingHalfDone ==
  ASSUME WritingInv, ~Writing
  PROVE  \A r : ~HalfDone(r)
BY DEF WritingInv, Writing, HalfDone

(* Every step keeps stale products detectable.                             *)
LEMMA ContentNext ==
  ASSUME TypeOK, StackInv, WritingInv, StatInv, ContentInv, SettledInv, RunInv,
         [Next]_vars
  PROVE  ContentInv'
<1> USE DEF disk, run, history
<1>a. ASSUME UNCHANGED disk, UNCHANGED interrupted,
             \A r \in Rule : HalfDone(r) => HalfDone(r)'
      PROVE  ContentInv'
  <2>1. \A p \in Product : \A x \in content'[p] : x[1] \in SourcesOf(p)
    BY <1>a DEF ContentInv
  <2>2. ASSUME NEW r \in Rule, Clean(r)', ~HalfDone(r)'
        PROVE  Detectable(r)'
    <3>1. Clean(r) /\ ~HalfDone(r)
      BY <1>a, <2>2 DEF Clean
    <3>2. Detectable(r)' <=> Detectable(r)
      BY <1>a, RuleFrame
    <3>3. QED
      BY <3>1, <3>2 DEF ContentInv
  <2>3. QED
    BY <2>1, <2>2 DEF ContentInv
<1>b. ASSUME NEW W \in SUBSET Product,
             \A p \in Product \ W : content'[p] = content[p],
             \A p \in W : content'[p] = {}
      PROVE  \A p \in Product : \A x \in content'[p] : x[1] \in SourcesOf(p)
  BY <1>b DEF ContentInv
<1>1. CASE \/ NextTarget \/ FinishRun \/ BuildChild \/ FileNotFound
           \/ NothingToDo \/ StartCommands \/ PretendToBuild \/ FileTouch
           \/ Install
  <2>1. UNCHANGED disk /\ UNCHANGED interrupted /\ ~Writing
    BY <1>1 DEF NextTarget, FinishRun, BuildChild, FileNotFound, NothingToDo,
       StartCommands, PretendToBuild, Compare, Deciding, FileTouch, Install,
       NothingToInstall, ShellInstall, Symlink, Unlink, InstallFails, Return,
       Writing
  <2>2. QED
    BY <1>a, <2>1, NothingHalfDone
<1>2. CASE Tick \/ UNCHANGED vars
  <2>1. UNCHANGED disk /\ UNCHANGED interrupted /\ UNCHANGED <<phase, written, stack>>
    BY <1>2 DEF Tick, vars
  <2>2. QED
    BY <1>a, <2>1 DEF HalfDone, Current, Top
<1>3. ASSUME NEW W \in SUBSET Product, RunCommand(W) \/ CommandFails(W)
      PROVE  ContentInv'
  <2>1. /\ phase = "exec" /\ Current' = Current /\ Current \in Rule
        /\ W \subseteq Outs(Current) /\ WritePartly(W)
        /\ written' = written \cup W /\ UNCHANGED <<version, interrupted>>
        /\ phase' \in {"exec", "cleanup"}
    BY <1>3 DEF RunCommand, CommandFails, Current, Top, WritingInv, Writing
  <2>2. /\ \A f \in File \ W : mtime'[f] = mtime[f]
        /\ \A p \in Product \ W : content'[p] = content[p]
        /\ \A p \in W : content'[p] = {}
    BY <2>1 DEF WritePartly
  <2>3. ASSUME NEW r \in Rule, Clean(r)', ~HalfDone(r)'
        PROVE  Detectable(r)'
    <3>1. Clean(r)
      BY <2>1, <2>3 DEF Clean
    <3>2. CASE Outs(r) \cap Outs(Current) = {}
      <4>1. Detectable(r)' <=> Detectable(r)
        BY <2>1, <2>2, <3>2, OtherRules
      <4>2. ~HalfDone(r)
        BY <3>2 DEF HalfDone
      <4>3. QED
        BY <3>1, <4>1, <4>2 DEF ContentInv
    <3>3. CASE Outs(r) \cap Outs(Current) # {}
      <4>1. phase' = "exec" /\ written' = {}
        BY <2>1, <2>3, <3>3 DEF HalfDone
      <4>2. W = {} /\ written = {}
        BY <2>1, <4>1
      <4>3. ~HalfDone(r)
        BY <2>1, <4>2 DEF HalfDone
      <4>4. Outs(r) \subseteq Product /\ Outs(r) \subseteq File
        BY RuleAssumption DEF File
      <4>5. RuleSources(r) \subseteq File
        BY DEF RuleSources, SourcesOf, File
      <4>6. Detectable(r)' <=> Detectable(r)
        BY <2>1, <2>2, <4>2, <4>4, <4>5, RuleFrame
      <4>7. QED
        BY <3>1, <4>3, <4>6 DEF ContentInv
    <3>4. QED
      BY <3>2, <3>3
  <2>4. QED
    BY <1>b, <2>2, <2>3 DEF ContentInv
<1>4. ASSUME NEW W \in SUBSET Product, LastCommand(W)
      PROVE  ContentInv'
  <2>1. /\ phase = "exec" /\ Current \in Rule /\ Writing /\ phase' = "touch"
        /\ W \subseteq Outs(Current) /\ UNCHANGED <<version, interrupted>>
        /\ mtime' = [f \in File |-> IF f \in W THEN clock ELSE mtime[f]]
        /\ content' = [p \in Product |->
                        IF p \in Outs(Current)
                        THEN UNION {ContentOf(d) : d \in Deps(Current)}
                        ELSE content[p]]
    BY <1>4 DEF LastCommand, WritingInv, Writing
  <2>2. Outs(Current) \in SUBSET Product
    BY <2>1, RuleAssumption
  <2>3. ASSUME NEW p \in Product, NEW x \in content'[p]
        PROVE  x[1] \in SourcesOf(p)
    <3>1. CASE p \notin Outs(Current)
      BY <2>1, <2>3, <3>1 DEF ContentInv
    <3>2. CASE p \in Outs(Current)
      <4>1. PICK d \in Deps(Current) : x \in ContentOf(d)
        BY <2>1, <2>3, <3>2
      <4>2. d \in Source \/ d \in Product
        BY <2>1, NodeAssumption, NodeFacts DEF File
      <4>3. x[1] \in SourcesOf(d)
        BY <4>1, <4>2, SourceAncestry DEF ContentOf, ContentInv
      <4>4. QED
        BY <2>1, <3>2, <4>1, <4>3, AncestryUp DEF SourcesOf
    <3>3. QED
      BY <3>1, <3>2
  <2>4. ASSUME NEW r \in Rule, Clean(r)', ~HalfDone(r)'
        PROVE  Detectable(r)'
    <3>1. Clean(r)
      BY <2>1, <2>4 DEF Clean
    <3>2. CASE Outs(r) \cap Outs(Current) = {}
      <4>1. Detectable(r)' <=> Detectable(r)
        <5>1. \A f \in File \ Outs(Current) : mtime'[f] = mtime[f]
          BY <2>1
        <5>2. \A p \in Product \ Outs(Current) : content'[p] = content[p]
          BY <2>1
        <5>3. QED
          BY <2>1, <2>2, <3>2, <5>1, <5>2, OtherRules
      <4>2. ~HalfDone(r)
        BY <3>2 DEF HalfDone
      <4>3. QED
        BY <3>1, <4>1, <4>2 DEF ContentInv
    <3>3. CASE Outs(r) \cap Outs(Current) # {}
      <4>1. Clean(Current)
        BY <2>1, <3>1, <3>3, SharedOutputs DEF Clean
      <4>2. Settles(r)'
        BY <1>4, <3>3, <4>1, LastCommandSettles
      <4>3. QED
        BY <4>2 DEF Settles, Detectable
    <3>4. QED
      BY <3>2, <3>3
  <2>5. QED
    BY <2>3, <2>4 DEF ContentInv
<1>5. CASE Cleanup
  <2>1. /\ Current \in Rule /\ RemoveOutputs(Outs(Current))
        /\ UNCHANGED <<version, interrupted>>
    BY <1>5 DEF Cleanup, WritingInv, Writing
  <2>2. Outs(Current) \in SUBSET Product /\ Outs(Current) \subseteq File
    BY <2>1, RuleAssumption DEF File
  <2>3. /\ \A f \in File \ Outs(Current) : mtime'[f] = mtime[f]
        /\ \A p \in Outs(Current) : mtime'[p] = 0 /\ content'[p] = {}
        /\ \A p \in Product \ Outs(Current) : content'[p] = content[p]
    BY <2>1, <2>2 DEF RemoveOutputs
  <2>4. ASSUME NEW r \in Rule, Clean(r)'
        PROVE  Detectable(r)'
    <3>1. Clean(r)
      BY <2>1, <2>4 DEF Clean
    <3>2. CASE Outs(r) \cap Outs(Current) = {}
      <4>1. Detectable(r)' <=> Detectable(r)
        BY <2>1, <2>2, <2>3, <3>2, OtherRules
      <4>2. ~HalfDone(r)
        BY <3>2 DEF HalfDone
      <4>3. QED
        BY <3>1, <4>1, <4>2 DEF ContentInv
    <3>3. CASE Outs(r) \cap Outs(Current) # {}
      <4>1. Outs(r) = Outs(Current)
        BY <2>1, <3>3, SharedOutputs
      <4>2. QED
        BY <2>3, <4>1 DEF Detectable, Unbuilt
    <3>4. QED
      BY <3>2, <3>3
  <2>5. QED
    BY <1>b, <2>2, <2>3, <2>4 DEF ContentInv
<1>6. ASSUME NEW W \in SUBSET Product, Crash(W)
      PROVE  ContentInv'
  <2>1. phase' = "idle" /\ version' = version /\ interrupted \subseteq interrupted'
    BY <1>6 DEF Crash, Exit
  <2>2. CASE ~Writing
    <3>1. UNCHANGED disk /\ UNCHANGED interrupted
      BY <1>6, <2>1, <2>2 DEF Crash, Writing, WritingInv
    <3>2. QED
      BY <1>a, <2>2, <3>1, NothingHalfDone
  <2>3. CASE Writing
    <3>1. /\ W \subseteq Outs(Current) /\ Current \in Rule
          /\ WritePartly(W) \/ RemoveOutputs(W)
      BY <1>6, <2>3 DEF Crash, Writing, WritingInv
    <3>2. /\ \A f \in File \ W : mtime'[f] = mtime[f]
          /\ \A p \in Product \ W : content'[p] = content[p]
          /\ \A p \in W : content'[p] = {}
      BY <3>1 DEF WritePartly, RemoveOutputs
    <3>3. ASSUME NEW r \in Rule, Clean(r)'
          PROVE  Detectable(r)'
      <4>1. Clean(r)
        BY <2>1, <3>3, CleanShrinks
      <4>2. CASE Outs(r) \cap Outs(Current) = {}
        <5>1. Detectable(r)' <=> Detectable(r)
          BY <2>1, <3>1, <3>2, <4>2, OtherRules
        <5>2. ~HalfDone(r)
          BY <4>2 DEF HalfDone
        <5>3. QED
          BY <4>1, <5>1, <5>2 DEF ContentInv
      <4>3. CASE Outs(r) \cap Outs(Current) # {}
        <5>1. PICK q \in Rule : q = Current
          BY <3>1
        <5>2. Current \notin interrupted'
          BY <3>3, <4>3, <5>1, KilledNotClean
        <5>3. phase = "exec" /\ written = {} /\ W = {}
          BY <1>6, <2>3, <5>2 DEF Crash, Writing
        <5>4. ~HalfDone(r)
          BY <5>3 DEF HalfDone
        <5>5. Outs(r) \subseteq Product /\ Outs(r) \subseteq File
              /\ RuleSources(r) \subseteq File
          BY RuleAssumption DEF File, RuleSources, SourcesOf
        <5>6. Detectable(r)' <=> Detectable(r)
          BY <2>1, <3>2, <5>3, <5>5, RuleFrame
        <5>7. QED
          BY <4>1, <5>4, <5>6 DEF ContentInv
      <4>4. QED
        BY <4>2, <4>3
    <3>4. QED
      BY <1>b, <3>2, <3>3 DEF ContentInv
  <2>4. QED
    BY <2>2, <2>3
<1>7. ASSUME NEW ts \in TargetLists, NEW dry \in BOOLEAN, NEW purge \in BOOLEAN,
             StartRun(ts, dry, purge)
      PROVE  ContentInv'
  <2>1. ~Writing /\ phase' = "targets" /\ version' = version
    BY <1>7 DEF StartRun, Writing
  <2>2. CASE purge
    <3>1. /\ \A p \in Product : mtime'[p] = 0 /\ content'[p] = {}
      BY <1>7, <2>2 DEF StartRun, File
    <3>2. \A r \in Rule : Unbuilt(r)'
      BY <3>1, RuleAssumption DEF Unbuilt
    <3>3. QED
      BY <3>1, <3>2 DEF ContentInv, Detectable
  <2>3. CASE ~purge
    <3>1. UNCHANGED disk /\ UNCHANGED interrupted
      BY <1>7, <2>3 DEF StartRun, TypeOK
    <3>2. QED
      BY <1>a, <2>1, <3>1, NothingHalfDone
  <2>4. QED
    BY <2>2, <2>3
<1>8. ASSUME NEW s \in Source, Edit(s)
      PROVE  ContentInv'
  <2>1. /\ ~Writing /\ clock \in Nat \ {0}
        /\ \A p \in Product : s \in Ancestry[p] => mtime[p] < clock
        /\ version' = [version EXCEPT ![s] = @ + 1]
        /\ mtime' = [mtime EXCEPT ![s] = clock]
        /\ UNCHANGED <<content, interrupted>>
    BY <1>8 DEF Edit, Writing, TypeOK
  <2>2. /\ mtime'[s] = clock
        /\ \A f \in File \ {s} : mtime'[f] = mtime[f]
        /\ \A z \in Source \ {s} : version'[z] = version[z]
    BY <2>1 DEF TypeOK, File
  <2>3. ASSUME NEW r \in Rule, Clean(r)'
        PROVE  Detectable(r)'
    <3>1. Clean(r) /\ ~HalfDone(r)
      BY <2>1, <2>3, NothingHalfDone DEF Clean
    <3>2. Outs(r) \subseteq Product /\ Outs(r) \subseteq File \ {s}
      BY RuleAssumption, FileAssumption DEF File
    <3>3. (Unbuilt(r)' <=> Unbuilt(r)) /\ (Built(r)' <=> Built(r))
      BY <2>2, <3>2 DEF Unbuilt, Built
    <3>4. ASSUME NEW z \in RuleSources(r), z # s,
                 mtime[z] = 0 \/ Behind(r, z) \/ Holds(r, z)
          PROVE  mtime'[z] = 0 \/ Behind(r, z)' \/ Holds(r, z)'
      <4>1. z \in Source /\ z \in File /\ mtime'[z] = mtime[z] /\ version'[z] = version[z]
        BY <2>2, <3>4 DEF RuleSources, SourcesOf, File
      <4>2. (Behind(r, z)' <=> Behind(r, z)) /\ (Holds(r, z)' <=> Holds(r, z))
        BY <2>1, <2>2, <3>2, <4>1 DEF Behind, Holds, HasCurrent
      <4>3. QED
        BY <3>4, <4>1, <4>2
    <3>5. ASSUME s \in RuleSources(r)
          PROVE  Behind(r, s)'
      <4>1. ASSUME NEW o \in Outs(r) PROVE mtime'[o] < mtime'[s]
        <5>1. s \in Ancestry[o]
          BY <3>5, OutputSources DEF SourcesOf
        <5>2. QED
          BY <2>1, <2>2, <3>2, <5>1
      <4>2. QED
        BY <4>1 DEF Behind
    <3>6. Detectable(r)
      BY <3>1 DEF ContentInv
    <3>7. QED
      BY <3>3, <3>4, <3>5, <3>6 DEF Detectable
  <2>4. QED
    BY <2>1, <2>3 DEF ContentInv
<1>9. ASSUME NEW s \in Source, RemoveSource(s)
      PROVE  ContentInv'
  <2>1. /\ ~Writing /\ mtime' = [mtime EXCEPT ![s] = 0]
        /\ UNCHANGED <<version, content, interrupted>>
    BY <1>9 DEF RemoveSource, Writing
  <2>2. mtime'[s] = 0 /\ \A f \in File \ {s} : mtime'[f] = mtime[f]
    BY <2>1 DEF TypeOK, File
  <2>3. ASSUME NEW r \in Rule, Clean(r)'
        PROVE  Detectable(r)'
    <3>1. Clean(r) /\ ~HalfDone(r)
      BY <2>1, <2>3, NothingHalfDone DEF Clean
    <3>2. Outs(r) \subseteq Product /\ Outs(r) \subseteq File \ {s}
      BY RuleAssumption, FileAssumption DEF File
    <3>3. (Unbuilt(r)' <=> Unbuilt(r)) /\ (Built(r)' <=> Built(r))
      BY <2>2, <3>2 DEF Unbuilt, Built
    <3>4. ASSUME NEW z \in RuleSources(r), z # s,
                 mtime[z] = 0 \/ Behind(r, z) \/ Holds(r, z)
          PROVE  mtime'[z] = 0 \/ Behind(r, z)' \/ Holds(r, z)'
      <4>1. z \in File /\ mtime'[z] = mtime[z]
        BY <2>2, <3>4 DEF RuleSources, SourcesOf, File
      <4>2. (Behind(r, z)' <=> Behind(r, z)) /\ (Holds(r, z)' <=> Holds(r, z))
        BY <2>1, <2>2, <3>2, <4>1 DEF Behind, Holds, HasCurrent
      <4>3. QED
        BY <3>4, <4>1, <4>2
    <3>5. Detectable(r)
      BY <3>1 DEF ContentInv
    <3>6. QED
      BY <2>2, <3>3, <3>4, <3>5 DEF Detectable
  <2>4. QED
    BY <2>1, <2>3 DEF ContentInv
<1>10. ASSUME NEW q \in Rule, DeleteProducts(q)
       PROVE  ContentInv'
  <2>1. ~Writing /\ RemoveOutputs(Outs(q)) /\ UNCHANGED <<version, interrupted>>
    BY <1>10 DEF DeleteProducts, Writing
  <2>2. Outs(q) \in SUBSET Product /\ Outs(q) \subseteq File
    BY RuleAssumption DEF File
  <2>3. /\ \A f \in File \ Outs(q) : mtime'[f] = mtime[f]
        /\ \A p \in Outs(q) : mtime'[p] = 0 /\ content'[p] = {}
        /\ \A p \in Product \ Outs(q) : content'[p] = content[p]
    BY <2>1, <2>2 DEF RemoveOutputs
  <2>4. ASSUME NEW r \in Rule, Clean(r)'
        PROVE  Detectable(r)'
    <3>1. Clean(r) /\ ~HalfDone(r)
      BY <2>1, <2>4, NothingHalfDone DEF Clean
    <3>2. CASE Outs(r) \cap Outs(q) = {}
      <4>1. Detectable(r)' <=> Detectable(r)
        BY <2>1, <2>2, <2>3, <3>2, OtherRules
      <4>2. QED
        BY <3>1, <4>1 DEF ContentInv
    <3>3. CASE Outs(r) \cap Outs(q) # {}
      BY <2>3, <3>3, SharedOutputs DEF Detectable, Unbuilt
    <3>4. QED
      BY <3>2, <3>3
  <2>5. QED
    BY <1>b, <2>2, <2>3, <2>4 DEF ContentInv
<1>11. QED
  BY <1>1, <1>2, <1>3, <1>4, <1>5, <1>6, <1>7, <1>8, <1>9, <1>10
     DEF Next, Pm, Walk, Decide, Execute

-----------------------------------------------------------------------------
(* What is settled.                                                        *)

(* Forgetting everything that is settled is harmless.                      *)
LEMMA SettledTreeKept ==
  ASSUME SettledTree, settled' \in {settled, {}}
  PROVE  SettledTree'
BY DEF SettledTree

(* What stays settled when the current outputs are lost shares none.       *)
LEMMA UnsettledFacts ==
  ASSUME NEW X, X = Unsettled
  PROVE  /\ X \in {settled, {}}
         /\ \A n \in X : n # Current
         /\ \A r \in X \cap Rule : Outs(r) \cap Outs(Current) = {}
BY DEF Unsettled

(* A step that leaves the files and the set of killed rules alone.         *)
LEMMA SettledRulesKept ==
  ASSUME SettledRules, UNCHANGED <<mtime, version, content, interrupted>>,
         settled' \subseteq settled, \A r \in Rule : HalfDone(r) => HalfDone(r)'
  PROVE  SettledRules'
<1>1. ASSUME NEW r \in settled' \cap Rule, Clean(r)', ~HalfDone(r)'
      PROVE  Settles(r)'
  <2>1. Clean(r) /\ ~HalfDone(r) /\ r \in settled
    BY <1>1 DEF Clean
  <2>2. Settles(r)' <=> Settles(r)
    BY RuleFrame
  <2>3. QED
    BY <2>1, <2>2 DEF SettledRules
<1>2. QED
  BY <1>1 DEF SettledRules

(* A step that changes only outputs of the rule q.                         *)
LEMMA SettledRulesApart ==
  ASSUME SettledRules, NEW q \in Rule, NEW W \in SUBSET Product, W \subseteq Outs(q),
         \A f \in File \ W : mtime'[f] = mtime[f],
         \A p \in Product \ W : content'[p] = content[p],
         version' = version, interrupted \subseteq interrupted',
         NEW r \in settled \cap Rule, Clean(r)', ~HalfDone(r),
         Outs(r) \cap Outs(q) = {}
  PROVE  Settles(r)'
<1>1. Clean(r)
  BY CleanShrinks
<1>2. Settles(r)
  BY <1>1 DEF SettledRules
<1>3. Settles(r)' <=> Settles(r)
  BY OtherRules
<1>4. QED
  BY <1>2, <1>3

(* __build returns: the node it has built is settled, unless under -n.     *)
LEMMA SettledReturn ==
  ASSUME TypeOK, StackInv, WritingInv, SettledInv, RunInv, Return,
         phase \in {"install", "relink"}
  PROVE  SettledTree' /\ SettledRules'
<1> USE DEF disk, run, history
<1>1. /\ settled' = IF noExecute THEN settled ELSE settled \cup {Current}
      /\ UNCHANGED <<mtime, version, content, interrupted>>
      /\ phase' \in {"targets", "walk"}
  BY DEF Return
<1>2. /\ ~Writing /\ Running /\ Current \in Node
      /\ Top.next > Len(Children[Current])
  BY TopFacts DEF Writing, Running, StackInv
<1>3. CASE noExecute
  BY <1>1, <1>2, <1>3, SettledTreeKept, SettledRulesKept, NothingHalfDone
     DEF SettledInv, SettledTree, SettledRules
<1>4. CASE ~noExecute
  <2>1. settled' = settled \cup {Current} /\ Range(Children[Current]) \subseteq settled
    BY <1>1, <1>2, <1>4, ChildrenSettled
  <2>2. \A n \in settled' : Range(Children[n]) \subseteq settled'
    BY <2>1 DEF SettledInv, SettledTree, SettledRules
  <2>3. ASSUME NEW n \in settled', NEW p \in Outs(n), p \in Product
        PROVE  \E r \in settled' \cap Rule : p \in Outs(r)
    <3>1. CASE n \in settled
      BY <2>1, <2>3, <3>1 DEF SettledInv, SettledTree, SettledRules
    <3>2. CASE n = Current
      BY <1>2, <1>4, <2>1, <2>3, <3>2, OutputSettled
    <3>3. QED
      BY <2>1, <2>3, <3>1, <3>2
  <2>4. ASSUME NEW r \in settled' \cap Rule, Clean(r)'
        PROVE  Settles(r)'
    <3>1. Clean(r) /\ ~HalfDone(r)
      BY <1>1, <1>2, <2>4, NothingHalfDone DEF Clean
    <3>2. Settles(r)
      <4>1. CASE r \in settled
        BY <3>1, <4>1 DEF SettledInv, SettledTree, SettledRules
      <4>2. CASE r = Current
        BY <1>4, <3>1, <4>2 DEF RunInv, CurrentSettles
      <4>3. QED
        BY <2>1, <2>4, <4>1, <4>2
    <3>3. Settles(r)' <=> Settles(r)
      BY <1>1, RuleFrame
    <3>4. QED
      BY <3>2, <3>3
  <2>5. QED
    BY <2>2, <2>3, <2>4 DEF SettledTree, SettledRules
<1>5. QED
  BY <1>3, <1>4

(* Every step keeps what is known of the settled nodes.                    *)
LEMMA SettledNext ==
  ASSUME TypeOK, StackInv, WritingInv, StatInv, ContentInv, SettledInv, RunInv,
         [Next]_vars
  PROVE  SettledInv'
<1> USE DEF disk, run, history
<1>s. SettledTree /\ SettledRules /\ SettledLinks
  BY DEF SettledInv
<1>1. CASE \/ NextTarget \/ FinishRun \/ BuildChild \/ FileNotFound
           \/ NothingToDo \/ StartCommands \/ PretendToBuild \/ FileTouch
  <2>1. /\ UNCHANGED <<mtime, version, content, interrupted, settled, installed>>
        /\ ~Writing /\ phase # "relink"
    BY <1>1 DEF NextTarget, FinishRun, BuildChild, FileNotFound, NothingToDo,
       StartCommands, PretendToBuild, Compare, Deciding, FileTouch, Writing
  <2>2. SettledTree' /\ SettledRules'
    BY <1>s, <2>1, SettledTreeKept, SettledRulesKept, NothingHalfDone
  <2>3. SettledLinks'
    BY <1>s, <2>1 DEF SettledLinks
  <2>4. QED
    BY <2>2, <2>3 DEF SettledInv
<1>2. CASE Tick \/ UNCHANGED vars
  <2>1. UNCHANGED <<mtime, version, content, interrupted, settled, installed,
                    phase, written, stack>>
    BY <1>2 DEF Tick, vars
  <2>2. SettledTree' /\ SettledRules'
    BY <1>s, <2>1, SettledTreeKept, SettledRulesKept DEF HalfDone, Current, Top
  <2>3. SettledLinks'
    BY <1>s, <2>1 DEF SettledLinks, Current, Top
  <2>4. QED
    BY <2>2, <2>3 DEF SettledInv
<1>3. CASE NothingToInstall \/ ShellInstall \/ Symlink
  <2>1. Return /\ phase \in {"install", "relink"}
    BY <1>3 DEF NothingToInstall, ShellInstall, Symlink
  <2>2. settled' \subseteq settled \cup {Current} /\ installed \subseteq installed'
    BY <1>3 DEF NothingToInstall, ShellInstall, Symlink, Return
  <2>3. Installer[Current] = "function" => Current \in installed'
    BY <1>3 DEF NothingToInstall, ShellInstall, Symlink
  <2>4. CASE phase = "relink"
    <3>1. Current \in installed'
      BY <1>3, <2>4 DEF NothingToInstall, ShellInstall, Symlink
    <3>2. SettledLinks'
      BY <1>s, <2>2, <3>1 DEF SettledLinks
    <3>3. QED
      BY <2>1, <3>2, SettledReturn DEF SettledInv
  <2>5. CASE phase # "relink"
    <3>1. SettledLinks'
      BY <1>s, <2>2, <2>3, <2>5 DEF SettledLinks
    <3>2. QED
      BY <2>1, <3>1, SettledReturn DEF SettledInv
  <2>6. QED
    BY <2>4, <2>5
<1>4. CASE Unlink
  <2>1. /\ UNCHANGED <<mtime, version, content, interrupted, settled>>
        /\ installed' = installed \ {Current} /\ Current' = Current
        /\ ~Writing /\ phase = "install" /\ phase' = "relink"
    BY <1>4 DEF Unlink, Writing, Current, Top
  <2>2. SettledTree' /\ SettledRules'
    BY <1>s, <2>1, SettledTreeKept, SettledRulesKept, NothingHalfDone
  <2>3. SettledLinks'
    BY <1>s, <2>1 DEF SettledLinks
  <2>4. QED
    BY <2>2, <2>3 DEF SettledInv
<1>5. CASE InstallFails
  <2>1. /\ UNCHANGED <<mtime, version, content, interrupted, installed>>
        /\ settled' = IF phase = "relink" THEN Unsettled ELSE settled
        /\ ~Writing
    BY <1>5 DEF InstallFails, Writing
  <2>2. settled' \in {settled, {}} /\ (phase = "relink" => Current \notin settled')
    BY <2>1, UnsettledFacts
  <2>3. SettledTree' /\ SettledRules'
    BY <1>s, <2>1, <2>2, SettledTreeKept, SettledRulesKept, NothingHalfDone
  <2>4. SettledLinks'
    BY <1>s, <2>1, <2>2 DEF SettledLinks
  <2>5. QED
    BY <2>3, <2>4 DEF SettledInv
<1>6. ASSUME NEW W \in SUBSET Product, RunCommand(W) \/ CommandFails(W)
      PROVE  SettledInv'
  <2>1. /\ phase = "exec" /\ Current' = Current /\ Current \in Rule
        /\ W \subseteq Outs(Current) /\ WritePartly(W)
        /\ written' = written \cup W
        /\ UNCHANGED <<version, interrupted, settled, installed>>
        /\ phase' \in {"exec", "cleanup"}
    BY <1>6 DEF RunCommand, CommandFails, Current, Top, WritingInv, Writing
  <2>2. /\ \A f \in File \ W : mtime'[f] = mtime[f]
        /\ \A p \in Product \ W : content'[p] = content[p]
    BY <2>1 DEF WritePartly
  <2>3. ASSUME NEW r \in settled \cap Rule, Clean(r)', ~HalfDone(r)'
        PROVE  Settles(r)'
    <3>1. CASE Outs(r) \cap Outs(Current) = {}
      <4>1. ~HalfDone(r)
        BY <3>1 DEF HalfDone
      <4>2. QED
        BY <1>s, <2>1, <2>2, <2>3, <3>1, <4>1, SettledRulesApart
    <3>2. CASE Outs(r) \cap Outs(Current) # {}
      <4>1. phase' = "exec" /\ written' = {}
        BY <2>1, <2>3, <3>2 DEF HalfDone
      <4>2. W = {} /\ written = {}
        BY <2>1, <4>1
      <4>3. ~HalfDone(r) /\ Clean(r)
        BY <2>1, <2>3, <4>2 DEF HalfDone, Clean
      <4>4. Outs(r) \subseteq Product /\ Outs(r) \subseteq File
            /\ RuleSources(r) \subseteq File
        BY RuleAssumption DEF File, RuleSources, SourcesOf
      <4>5. Settles(r)' <=> Settles(r)
        BY <2>1, <2>2, <4>2, <4>4, RuleFrame
      <4>6. QED
        BY <1>s, <4>3, <4>5 DEF SettledRules
    <3>3. QED
      BY <3>1, <3>2
  <2>4. SettledRules'
    BY <2>1, <2>3 DEF SettledRules
  <2>5. SettledTree' /\ SettledLinks'
    BY <1>s, <2>1, SettledTreeKept DEF SettledLinks
  <2>6. QED
    BY <2>4, <2>5 DEF SettledInv
<1>7. ASSUME NEW W \in SUBSET Product, LastCommand(W)
      PROVE  SettledInv'
  <2>1. /\ phase = "exec" /\ Current' = Current /\ Current \in Rule
        /\ UNCHANGED <<version, interrupted, settled, installed>>
        /\ W \subseteq Outs(Current)
        /\ mtime' = [f \in File |-> IF f \in W THEN clock ELSE mtime[f]]
        /\ content' = [p \in Product |->
                        IF p \in Outs(Current)
                        THEN UNION {ContentOf(d) : d \in Deps(Current)}
                        ELSE content[p]]
    BY <1>7 DEF LastCommand, Current, Top, WritingInv, Writing
  <2>2. /\ Outs(Current) \in SUBSET Product
        /\ \A f \in File \ Outs(Current) : mtime'[f] = mtime[f]
        /\ \A p \in Product \ Outs(Current) : content'[p] = content[p]
    BY <2>1, RuleAssumption
  <2>3. ASSUME NEW r \in settled \cap Rule, Clean(r)'
        PROVE  Settles(r)'
    <3>1. CASE Outs(r) \cap Outs(Current) = {}
      <4>1. ~HalfDone(r)
        BY <3>1 DEF HalfDone
      <4>2. QED
        BY <1>s, <2>1, <2>2, <2>3, <3>1, <4>1, SettledRulesApart
    <3>2. CASE Outs(r) \cap Outs(Current) # {}
      <4>1. Clean(Current)
        BY <2>1, <2>3, <3>2, SharedOutputs DEF Clean
      <4>2. QED
        BY <1>7, <3>2, <4>1, LastCommandSettles
    <3>3. QED
      BY <3>1, <3>2
  <2>4. SettledRules'
    BY <2>1, <2>3 DEF SettledRules
  <2>5. SettledTree' /\ SettledLinks'
    BY <1>s, <2>1, SettledTreeKept DEF SettledLinks
  <2>6. QED
    BY <2>4, <2>5 DEF SettledInv
<1>8. CASE Cleanup
  <2>1. /\ phase = "cleanup" /\ Current \in Rule /\ RemoveOutputs(Outs(Current))
        /\ UNCHANGED <<version, interrupted, installed>>
        /\ settled' = Unsettled
    BY <1>8 DEF Cleanup, WritingInv, Writing
  <2>2. Outs(Current) \in SUBSET Product
    BY <2>1, RuleAssumption
  <2>3. /\ settled' \in {settled, {}}
        /\ \A r \in settled' \cap Rule : Outs(r) \cap Outs(Current) = {}
    BY <2>1, UnsettledFacts
  <2>4. /\ \A f \in File \ Outs(Current) : mtime'[f] = mtime[f]
        /\ \A p \in Product \ Outs(Current) : content'[p] = content[p]
    BY <2>1 DEF RemoveOutputs
  <2>5. ASSUME NEW r \in settled' \cap Rule, Clean(r)'
        PROVE  Settles(r)'
    <3>1. r \in settled \cap Rule /\ Outs(r) \cap Outs(Current) = {}
      BY <2>3, <2>5
    <3>2. ~HalfDone(r)
      BY <3>1 DEF HalfDone
    <3>3. QED
      BY <1>s, <2>1, <2>2, <2>4, <2>5, <3>1, <3>2, SettledRulesApart
  <2>6. SettledRules'
    BY <2>5 DEF SettledRules
  <2>7. SettledTree' /\ SettledLinks'
    BY <1>s, <2>1, <2>3, SettledTreeKept DEF SettledLinks
  <2>8. QED
    BY <2>6, <2>7 DEF SettledInv
<1>9. ASSUME NEW W \in SUBSET Product, Crash(W)
      PROVE  SettledInv'
  <2>1. /\ phase' = "idle" /\ UNCHANGED <<version, installed>>
        /\ interrupted \subseteq interrupted'
        /\ settled' = IF phase \in {"exec", "cleanup", "relink"}
                      THEN Unsettled ELSE settled
    BY <1>9 DEF Crash, Exit
  <2>2. /\ settled' \in {settled, {}}
        /\ phase \in {"exec", "cleanup", "relink"} =>
             /\ Current \notin settled'
             /\ \A r \in settled' \cap Rule : Outs(r) \cap Outs(Current) = {}
    BY <2>1, UnsettledFacts
  <2>3. SettledTree'
    BY <1>s, <2>2, SettledTreeKept
  <2>4. SettledLinks'
    BY <1>s, <2>1, <2>2 DEF SettledLinks
  <2>5. CASE ~Writing
    <3>1. UNCHANGED <<mtime, content, interrupted>>
      BY <1>9, <2>5 DEF Crash, Writing, WritingInv
    <3>2. SettledRules'
      BY <1>s, <2>1, <2>2, <2>5, <3>1, SettledRulesKept, NothingHalfDone
    <3>3. QED
      BY <2>3, <2>4, <3>2 DEF SettledInv
  <2>6. CASE Writing
    <3>1. /\ W \subseteq Outs(Current) /\ Current \in Rule
          /\ WritePartly(W) \/ RemoveOutputs(W)
      BY <1>9, <2>6 DEF Crash, Writing, WritingInv
    <3>2. /\ \A f \in File \ W : mtime'[f] = mtime[f]
          /\ \A p \in Product \ W : content'[p] = content[p]
      BY <3>1 DEF WritePartly, RemoveOutputs
    <3>3. ASSUME NEW r \in settled' \cap Rule, Clean(r)'
          PROVE  Settles(r)'
      <4>1. r \in settled \cap Rule /\ Outs(r) \cap Outs(Current) = {}
        BY <2>2, <2>6, <3>3 DEF Writing
      <4>2. ~HalfDone(r)
        BY <4>1 DEF HalfDone
      <4>3. QED
        BY <1>s, <2>1, <3>1, <3>2, <3>3, <4>1, <4>2, SettledRulesApart
    <3>4. SettledRules'
      BY <3>3 DEF SettledRules
    <3>5. QED
      BY <2>3, <2>4, <3>4 DEF SettledInv
  <2>7. QED
    BY <2>5, <2>6
<1>10. ASSUME NEW ts \in TargetLists, NEW dry \in BOOLEAN, NEW purge \in BOOLEAN,
              StartRun(ts, dry, purge)
       PROVE  SettledInv'
  <2>1. CASE purge
    <3>1. settled' = {}
      BY <1>10, <2>1 DEF StartRun
    <3>2. QED
      BY <3>1 DEF SettledInv, SettledTree, SettledRules, SettledLinks
  <2>2. CASE ~purge
    <3>1. /\ UNCHANGED <<mtime, version, content, interrupted, settled, installed>>
          /\ ~Writing /\ phase # "relink"
      BY <1>10, <2>2 DEF StartRun, TypeOK, Writing
    <3>2. SettledTree' /\ SettledRules'
      BY <1>s, <3>1, SettledTreeKept, SettledRulesKept, NothingHalfDone
    <3>3. SettledLinks'
      BY <1>s, <3>1 DEF SettledLinks
    <3>4. QED
      BY <3>2, <3>3 DEF SettledInv
  <2>3. QED
    BY <2>1, <2>2
<1>11. CASE \/ \E s \in Source : Edit(s) \/ RemoveSource(s)
            \/ \E r \in Rule : DeleteProducts(r)
  <2>1. settled' = {}
    BY <1>11 DEF Edit, RemoveSource, DeleteProducts
  <2>2. QED
    BY <2>1 DEF SettledInv, SettledTree, SettledRules, SettledLinks
<1>12. QED
  BY <1>1, <1>2, <1>3, <1>4, <1>5, <1>6, <1>7, <1>8, <1>9, <1>10, <1>11
     DEF Next, Pm, Walk, Decide, Execute, Install

-----------------------------------------------------------------------------
(* What this run has built.                                                *)

(* The children already built by the nodes on the stack are settled.       *)
LEMMA PathNext ==
  ASSUME TypeOK, StackInv, RunInv, [Next]_vars, ~noExecute'
  PROVE  PathSettled'
<1> USE DEF disk, run, history
<1>0. ASSUME Len(stack') = 0 PROVE PathSettled'
  BY <1>0 DEF PathSettled
<1>1. CASE \/ \E ts \in TargetLists, dry, purge \in BOOLEAN : StartRun(ts, dry, purge)
           \/ \E s \in Source : Edit(s) \/ RemoveSource(s)
           \/ \E r \in Rule : DeleteProducts(r)
  <2>1. phase = "idle" /\ stack' = stack
    BY <1>1 DEF StartRun, Edit, RemoveSource, DeleteProducts
  <2>2. Len(stack) = 0
    BY <2>1 DEF StackInv, Running, TypeOK
  <2>3. QED
    BY <1>0, <2>1, <2>2
<1>2. CASE \/ FinishRun \/ FileNotFound \/ Cleanup \/ InstallFails
           \/ \E W \in SUBSET Product : Crash(W)
  <2>1. Len(stack') = 0
    BY <1>2 DEF FinishRun, FileNotFound, Cleanup, InstallFails, Crash, Exit
  <2>2. QED
    BY <1>0, <2>1
<1>3. CASE NextTarget
  <2>1. Len(stack') = 1 /\ stack'[1].next = 1
    BY <1>3 DEF NextTarget
  <2>2. QED
    BY <2>1 DEF PathSettled
<1>4. CASE \/ NothingToDo \/ StartCommands \/ PretendToBuild
           \/ \E W \in SUBSET Product :
                 RunCommand(W) \/ LastCommand(W) \/ CommandFails(W)
           \/ FileTouch \/ Unlink \/ Tick \/ UNCHANGED vars
  <2>1. UNCHANGED <<stack, settled, noExecute>>
    BY <1>4 DEF NothingToDo, StartCommands, PretendToBuild, Compare, RunCommand,
       LastCommand, CommandFails, FileTouch, Unlink, Tick, vars
  <2>2. QED
    BY <2>1 DEF PathSettled, RunInv
<1>5. CASE BuildChild
  <2> DEFINE n == Len(stack)
  <2>1. n \in Nat \ {0} /\ Top \in Frame
    BY <1>5, TopFacts DEF BuildChild, Running
  <2>2. /\ Len(stack') = n + 1
        /\ \A k \in 1..(n - 1) : stack'[k] = stack[k]
        /\ stack'[n] = [Top EXCEPT !.next = @ + 1]
        /\ stack'[n + 1] = [node |-> Children[Current][Top.next], next |-> 1]
    BY <1>5, PushFacts
  <2>3. /\ stack'[n].node = stack[n].node /\ stack'[n].next = stack[n].next + 1
        /\ stack[n].next \in Nat /\ stack'[n + 1].next = 1
    BY <2>1, <2>2 DEF Frame, Top
  <2>4. PathSettled /\ settled' = settled
    BY <1>5 DEF BuildChild, RunInv
  <2>5. ASSUME NEW k \in 1..(n + 1), NEW j \in 1..(stack'[k].next - 1)
        PROVE  \/ k < n + 1 /\ j = stack'[k].next - 1
               \/ Children[stack'[k].node][j] \in settled'
    <3>1. CASE k = n + 1
      BY <2>3, <2>5, <3>1
    <3>2. CASE k = n
      <4>1. CASE j = stack[n].next
        BY <2>1, <2>3, <3>2, <4>1
      <4>2. CASE j \in 1..(stack[n].next - 1)
        <5>1. n \in 1..Len(stack) /\ ~(n < Len(stack))
          BY <2>1
        <5>2. Children[stack[n].node][j] \in settled
          BY <2>4, <4>2, <5>1 DEF PathSettled
        <5>3. QED
          BY <2>3, <2>4, <3>2, <5>2
      <4>3. QED
        BY <2>3, <2>5, <3>2, <4>1, <4>2
    <3>3. CASE k \in 1..(n - 1)
      <4>1. stack'[k] = stack[k] /\ k \in 1..Len(stack)
        BY <2>1, <2>2, <3>3
      <4>2. \/ k < Len(stack) /\ j = stack[k].next - 1
            \/ Children[stack[k].node][j] \in settled
        BY <2>4, <2>5, <4>1 DEF PathSettled
      <4>3. QED
        BY <2>1, <2>4, <3>3, <4>1, <4>2
    <3>4. QED
      BY <2>1, <3>1, <3>2, <3>3
  <2>6. QED
    BY <2>2, <2>5 DEF PathSettled
<1>6. CASE NothingToInstall \/ ShellInstall \/ Symlink
  <2> DEFINE n == Len(stack)
  <2>1. Return /\ Running
    BY <1>6 DEF NothingToInstall, ShellInstall, Symlink, Running
  <2>2. /\ n \in Nat \ {0} /\ Current = stack[n].node
        /\ settled' = settled \cup {Current} /\ PathSettled
    BY <2>1, TopFacts DEF Return, Top, Current, RunInv
  <2>3. Len(stack') = n - 1 /\ \A k \in 1..(n - 1) : stack'[k] = stack[k]
    BY <2>1, PopFacts
  <2>4. ASSUME NEW k \in 1..(n - 1), NEW j \in 1..(stack'[k].next - 1)
        PROVE  \/ k < n - 1 /\ j = stack'[k].next - 1
               \/ Children[stack'[k].node][j] \in settled'
    <3>1. stack'[k] = stack[k] /\ k \in 1..Len(stack)
      BY <2>2, <2>3
    <3>2. \/ k < n /\ j = stack[k].next - 1
          \/ Children[stack[k].node][j] \in settled
      BY <2>2, <2>4, <3>1 DEF PathSettled
    <3>3. CASE k = n - 1 /\ j = stack[k].next - 1
      <4>1. k \in 1..(Len(stack) - 1) /\ k + 1 = n
        BY <2>2, <3>3
      <4>2. stack[k + 1].node = Children[stack[k].node][stack[k].next - 1]
        BY <4>1 DEF StackInv
      <4>3. QED
        BY <2>2, <3>1, <3>3, <4>1, <4>2
    <3>4. QED
      BY <2>2, <3>1, <3>2, <3>3
  <2>5. QED
    BY <2>3, <2>4 DEF PathSettled
<1>7. QED
  BY <1>1, <1>2, <1>3, <1>4, <1>5, <1>6
     DEF Next, Pm, Walk, Decide, Execute, Install

(* The targets already built are settled; all of them, when pm exits with  *)
(* status 0.                                                               *)
LEMMA TargetsNext ==
  ASSUME TypeOK, StackInv, RunInv, [Next]_vars, ~noExecute'
  PROVE  TargetsSettled'
<1> USE DEF disk, run, history
<1>p. position \in Nat \ {0} /\ Len(targets) \in Nat /\ position - 1 <= Len(targets)
  BY DEF TypeOK, StackInv
<1>1. CASE \E ts \in TargetLists, dry, purge \in BOOLEAN : StartRun(ts, dry, purge)
  BY <1>1 DEF StartRun, TargetsSettled, Succeeded, Running
<1>2. CASE \/ \E s \in Source : Edit(s) \/ RemoveSource(s)
           \/ \E r \in Rule : DeleteProducts(r)
  <2>1. phase' = "idle" /\ verdict' = "none"
    BY <1>2 DEF Edit, RemoveSource, DeleteProducts
  <2>2. QED
    BY <2>1 DEF TargetsSettled, Succeeded, Running
<1>3. CASE \/ FileNotFound \/ Cleanup \/ InstallFails
           \/ \E W \in SUBSET Product : Crash(W)
  <2>1. phase' = "idle" /\ verdict' # "ok"
    BY <1>3 DEF FileNotFound, Cleanup, InstallFails, Crash, Exit
  <2>2. QED
    BY <2>1 DEF TargetsSettled, Succeeded, Running
<1>4. CASE FinishRun
  <2>1. /\ phase = "targets" /\ phase' = "idle" /\ position > Len(targets)
        /\ UNCHANGED <<targets, position, noExecute, settled>>
    BY <1>4 DEF FinishRun, Exit
  <2>2. TargetsSettled
    BY <2>1 DEF RunInv
  <2>3. \A i \in 1..(position - 1) : targets[i] \in settled
    BY <2>1, <2>2 DEF TargetsSettled
  <2>4. position = Len(targets) + 1
    BY <1>p, <2>1
  <2>5. QED
    BY <2>1, <2>3, <2>4 DEF TargetsSettled, Running
<1>5. CASE NextTarget
  <2>1. /\ phase = "targets" /\ phase' = "walk" /\ position' = position + 1
        /\ UNCHANGED <<targets, noExecute, settled>>
    BY <1>5 DEF NextTarget
  <2>2. \A i \in 1..(position - 1) : targets[i] \in settled
    BY <2>1 DEF RunInv, TargetsSettled
  <2>3. position' - 2 = position - 1
    BY <1>p, <2>1
  <2>4. QED
    BY <2>1, <2>2, <2>3 DEF TargetsSettled, Succeeded
<1>6. CASE \/ BuildChild \/ NothingToDo \/ StartCommands \/ PretendToBuild
           \/ \E W \in SUBSET Product :
                 RunCommand(W) \/ LastCommand(W) \/ CommandFails(W)
           \/ FileTouch \/ Unlink
  <2>1. /\ Running /\ Running' /\ UNCHANGED <<targets, position, noExecute, settled>>
    BY <1>6 DEF BuildChild, NothingToDo, StartCommands, PretendToBuild, Compare,
       Deciding, RunCommand, LastCommand, CommandFails, FileTouch, Unlink, Running
  <2>2. QED
    BY <2>1 DEF TargetsSettled, RunInv, Succeeded, Running
<1>7. CASE NothingToInstall \/ ShellInstall \/ Symlink
  <2>1. Return /\ Running
    BY <1>7 DEF NothingToInstall, ShellInstall, Symlink, Running
  <2>2. /\ phase' = IF Len(stack) = 1 THEN "targets" ELSE "walk"
        /\ UNCHANGED <<targets, position, noExecute>>
        /\ settled' = settled \cup {Current}
    BY <2>1 DEF Return
  <2>3. \A i \in 1..(position - 2) : targets[i] \in settled
    BY <2>1, <2>2 DEF RunInv, TargetsSettled
  <2>4. CASE Len(stack) = 1
    <3>1. targets[position - 1] = Current
      BY <2>1, <2>4 DEF StackInv, Current, Top
    <3>2. \A i \in 1..(position - 1) : targets[i] \in settled'
      BY <1>p, <2>2, <2>3, <3>1
    <3>3. QED
      BY <2>2, <2>4, <3>2 DEF TargetsSettled, Succeeded, Running
  <2>5. CASE Len(stack) # 1
    BY <2>2, <2>3, <2>5 DEF TargetsSettled, Succeeded, Running
  <2>6. QED
    BY <2>4, <2>5
<1>8. CASE Tick \/ UNCHANGED vars
  <2>1. UNCHANGED <<phase, verdict, targets, position, noExecute, settled>>
    BY <1>8 DEF Tick, vars
  <2>2. QED
    BY <2>1 DEF TargetsSettled, RunInv, Succeeded, Running
<1>9. QED
  BY <1>1, <1>2, <1>3, <1>4, <1>5, <1>6, <1>7, <1>8
     DEF Next, Pm, Walk, Decide, Execute, Install

(* Once the commands of a rule are done, or were not needed, its outputs   *)
(* are current.                                                            *)
LEMMA CurrentNext ==
  ASSUME TypeOK, StackInv, WritingInv, StatInv, ContentInv, SettledInv, RunInv,
         [Next]_vars, ~noExecute'
  PROVE  CurrentSettles'
<1> USE DEF disk, run, history
<1>0. ASSUME phase' \notin {"touch", "install", "relink"} PROVE CurrentSettles'
  BY <1>0 DEF CurrentSettles
<1>f. ASSUME UNCHANGED <<stack, mtime, version, content, interrupted>>,
             Current \in Rule /\ Clean(Current) => Settles(Current)
      PROVE  CurrentSettles'
  <2>1. SUFFICES ASSUME Current' \in Rule, Clean(Current)' PROVE Settles(Current)'
    BY DEF CurrentSettles
  <2>2. PICK r \in Rule : r = Current
    BY <1>f, <2>1 DEF Current, Top
  <2>3. Clean(r)
    BY <1>f, <2>1, <2>2 DEF Clean, Current, Top
  <2>4. Settles(r)' <=> Settles(r)
    BY <1>f, RuleFrame
  <2>5. Current' = r
    BY <1>f, <2>2 DEF Current, Top
  <2>6. QED
    BY <1>f, <2>2, <2>3, <2>4, <2>5
<1>1. CASE \/ \E ts \in TargetLists, dry, purge \in BOOLEAN : StartRun(ts, dry, purge)
           \/ \E s \in Source : Edit(s) \/ RemoveSource(s)
           \/ \E r \in Rule : DeleteProducts(r)
           \/ FinishRun \/ FileNotFound \/ Cleanup \/ InstallFails
           \/ \E W \in SUBSET Product : Crash(W)
           \/ NextTarget \/ BuildChild \/ StartCommands
           \/ NothingToInstall \/ ShellInstall \/ Symlink
           \/ \E W \in SUBSET Product : RunCommand(W) \/ CommandFails(W)
  <2>1. phase' \notin {"touch", "install", "relink"}
    BY <1>1 DEF StartRun, Edit, RemoveSource, DeleteProducts, FinishRun,
       FileNotFound, Cleanup, InstallFails, Crash, Exit, NextTarget, BuildChild,
       StartCommands, Compare, Deciding, NothingToInstall, ShellInstall, Symlink,
       Return, RunCommand, CommandFails
  <2>2. QED
    BY <1>0, <2>1
<1>2. CASE NothingToDo
  <2>1. UNCHANGED <<stack, mtime, version, content, interrupted, noExecute>>
    BY <1>2 DEF NothingToDo, Compare
  <2>2. Current \in Rule /\ Clean(Current) => Settles(Current)
    BY <1>2, <2>1, UpToDateSettles
  <2>3. QED
    BY <1>f, <2>1, <2>2
<1>3. CASE PretendToBuild
  <2>1. UNCHANGED <<stack, noExecute>> /\ (Current \notin Rule \/ noExecute)
    BY <1>3 DEF PretendToBuild, Compare
  <2>2. Current' \notin Rule
    BY <2>1 DEF Current, Top
  <2>3. QED
    BY <2>2 DEF CurrentSettles
<1>4. ASSUME NEW W \in SUBSET Product, LastCommand(W)
      PROVE  CurrentSettles'
  <2>1. UNCHANGED <<stack, interrupted>>
    BY <1>4 DEF LastCommand
  <2>2. SUFFICES ASSUME Current' \in Rule, Clean(Current)' PROVE Settles(Current)'
    BY DEF CurrentSettles
  <2>3. PICK r \in Rule : r = Current
    BY <2>1, <2>2 DEF Current, Top
  <2>4. Clean(r) /\ Current' = r
    BY <2>1, <2>2, <2>3 DEF Clean, Current, Top
  <2>5. Outs(r) \cap Outs(Current) # {}
    BY <2>3, RuleAssumption
  <2>6. Settles(r)'
    BY <1>4, <2>3, <2>4, <2>5, LastCommandSettles
  <2>7. QED
    BY <2>4, <2>6
<1>5. CASE FileTouch \/ Unlink
  <2>1. /\ UNCHANGED <<stack, mtime, version, content, interrupted, noExecute>>
        /\ phase \in {"touch", "install"}
    BY <1>5 DEF FileTouch, Unlink
  <2>2. Current \in Rule /\ Clean(Current) => Settles(Current)
    BY <2>1 DEF RunInv, CurrentSettles
  <2>3. QED
    BY <1>f, <2>1, <2>2
<1>6. CASE Tick \/ UNCHANGED vars
  <2>1. UNCHANGED <<phase, stack, mtime, version, content, interrupted, noExecute>>
    BY <1>6 DEF Tick, vars
  <2>2. CASE phase \in {"touch", "install", "relink"}
    BY <1>f, <2>1, <2>2 DEF RunInv, CurrentSettles
  <2>3. CASE phase \notin {"touch", "install", "relink"}
    BY <1>0, <2>1, <2>3
  <2>4. QED
    BY <2>2, <2>3
<1>7. QED
  BY <1>1, <1>2, <1>3, <1>4, <1>5, <1>6
     DEF Next, Pm, Walk, Decide, Execute, Install

(* All three, of a run that does not pretend.                              *)
LEMMA RunNext ==
  ASSUME TypeOK, StackInv, WritingInv, StatInv, ContentInv, SettledInv, RunInv,
         [Next]_vars
  PROVE  RunInv'
BY PathNext, TargetsNext, CurrentNext DEF RunInv

-----------------------------------------------------------------------------
(* The invariant.                                                          *)

(* It holds before the first run: nothing was built and nothing is known.  *)
LEMMA InvariantInit == Init => IInv
<1>1. SUFFICES ASSUME Init PROVE IInv
  OBVIOUS
<1>2. TypeOK
  BY <1>1, TypeInit
<1>3. /\ phase = "idle" /\ stack = <<>> /\ targets = <<>> /\ position = 1
      /\ written = {} /\ settled = {} /\ verdict = "none" /\ clock = 1
      /\ statted = EmptyCache /\ interrupted = {}
      /\ mtime = [f \in File |-> IF f \in Source THEN 1 ELSE 0]
      /\ content = [p \in Product |-> {}]
  BY <1>1 DEF Init
<1>4. StackInv
  BY <1>3 DEF StackInv, Running
<1>5. WritingInv
  <2>1. \A f \in File : mtime[f] <= clock
    BY <1>3
  <2>2. QED
    BY <1>3, <2>1 DEF WritingInv, Writing
<1>6. StatInv
  <2>1. DOMAIN statted = {}
    BY <1>3 DEF EmptyCache
  <2>2. QED
    BY <1>3, <2>1 DEF StatInv
<1>7. ContentInv
  <2>1. \A r \in Rule : Unbuilt(r)
    BY <1>3, RuleAssumption, FileAssumption DEF Unbuilt, File
  <2>2. QED
    BY <1>3, <2>1 DEF ContentInv, Detectable
<1>8. SettledInv
  BY <1>3 DEF SettledInv, SettledTree, SettledRules, SettledLinks
<1>9. RunInv
  BY <1>3 DEF RunInv, PathSettled, TargetsSettled, CurrentSettles, Succeeded, Running
<1>10. QED
  BY <1>2, <1>4, <1>5, <1>6, <1>7, <1>8, <1>9 DEF IInv

(* Every step keeps it.                                                    *)
LEMMA InvariantNext == IInv /\ [Next]_vars => IInv'
BY TypeNext, StackNext, WritingNext, StatNext, ContentNext, SettledNext, RunNext
   DEF IInv

(* The state pm keeps on disk and in memory satisfies the invariant after  *)
(* any sequence of runs, kills, edits and deletions.                       *)
THEOREM InvariantCorrect == Spec => []IInv
<1>1. Init => IInv
  BY InvariantInit
<1>2. IInv /\ [Next]_vars => IInv'
  BY InvariantNext
<1>3. QED
  BY <1>1, <1>2, PTL DEF Spec

-----------------------------------------------------------------------------
(* The properties.                                                         *)

(* Every variable of the engine keeps its type.                            *)
THEOREM TypeCorrect == Spec => []TypeOK
<1>1. IInv => TypeOK
  BY DEF IInv
<1>2. QED
  BY <1>1, InvariantCorrect, PTL

(* The source versions that a product can hold are those of the sources of *)
(* what its rule depends on.                                               *)
LEMMA SettlesUpToDate ==
  ASSUME NEW r \in Rule, Settles(r), NEW o \in Outs(r)
  PROVE  UpToDate(o)
<1>1. mtime[o] # 0
  BY DEF Settles, Built
<1>2. SourcesOf(o) = RuleSources(r)
  BY OutputSources
<1>3. ASSUME NEW s \in SourcesOf(o), mtime[s] # 0 PROVE HasCurrent(o, s)
  BY <1>2, <1>3 DEF Settles, Holds
<1>4. QED
  BY <1>1, <1>3 DEF UpToDate

(* The comparison of node:__build detects every stale product, whatever    *)
(* runs, kills, edits and deletions came before.                           *)
THEOREM StaleDetected == Spec => []StaleIsDetectable
<1>1. IInv => StaleIsDetectable
  <2>1. SUFFICES ASSUME IInv, NEW r \in Rule, Clean(r), ~HalfDone(r), ~Unbuilt(r),
                        NEW o \in Outs(r)
                 PROVE  /\ mtime[o] # 0
                        /\ \A s \in SourcesOf(o) :
                             \/ HasCurrent(o, s)
                             \/ mtime[s] = 0
                             \/ \A q \in Outs(r) : mtime[q] < mtime[s]
    BY DEF StaleIsDetectable, Unbuilt
  <2>2. Built(r) /\ \A s \in RuleSources(r) :
                       mtime[s] = 0 \/ Behind(r, s) \/ Holds(r, s)
    BY <2>1 DEF IInv, ContentInv, Detectable
  <2>3. SourcesOf(o) = RuleSources(r)
    BY OutputSources
  <2>4. QED
    BY <2>2, <2>3 DEF Built, Behind, Holds
<1>2. QED
  BY <1>1, InvariantCorrect, PTL

(* After a successful run everything the build visited is settled.         *)
LEMMA SuccessSettles ==
  ASSUME IInv, phase = "idle", verdict = "ok", ~noExecute,
         NEW t \in Range(targets)
  PROVE  Visits[t] \subseteq settled
<1>1. PICK i \in 1..Len(targets) : targets[i] = t
  <2>1. PICK i \in DOMAIN targets : targets[i] = t
    BY DEF Range
  <2>2. QED
    BY <2>1 DEF IInv, TypeOK
<1>2. TargetsSettled /\ Succeeded
  BY DEF IInv, RunInv, Succeeded
<1>3. position - 1 = Len(targets)
  BY <1>2 DEF IInv, TypeOK, TargetsSettled
<1>4. t \in settled
  BY <1>1, <1>2, <1>3 DEF TargetsSettled
<1>5. settled \in SUBSET Node /\ \A n \in settled : Range(Children[n]) \subseteq settled
  BY DEF IInv, TypeOK, SettledInv, SettledTree
<1>6. QED
  BY <1>4, <1>5, VisitsClosed

(* When pm exits with status 0, every product of every rule below the      *)
(* targets is up to date (unless a rule it was made by was killed).        *)
THEOREM SuccessUpToDate == Spec => []SuccessMeansUpToDate
<1>1. IInv => SuccessMeansUpToDate
  <2>1. SUFFICES ASSUME IInv, phase = "idle", verdict = "ok", ~noExecute,
                        NEW t \in Range(targets), NEW r \in Visits[t] \cap Rule,
                        Clean(r), NEW o \in Outs(r)
                 PROVE  UpToDate(o)
    BY DEF SuccessMeansUpToDate
  <2>2. r \in settled
    BY <2>1, SuccessSettles
  <2>3. ~HalfDone(r)
    BY <2>1, NothingHalfDone DEF IInv, Writing
  <2>4. Settles(r)
    BY <2>1, <2>2, <2>3 DEF IInv, SettledInv, SettledRules
  <2>5. QED
    BY <2>4, SettlesUpToDate
<1>2. QED
  BY <1>1, InvariantCorrect, PTL

(* When pm exits with status 0, the destination of every pm.install the    *)
(* build visited exists.                                                   *)
THEOREM SuccessInstalled == Spec => []SuccessMeansInstalled
<1>1. IInv => SuccessMeansInstalled
  <2>1. SUFFICES ASSUME IInv, phase = "idle", verdict = "ok", ~noExecute,
                        NEW t \in Range(targets), NEW n \in Visits[t],
                        Installer[n] = "function"
                 PROVE  n \in installed
    BY DEF SuccessMeansInstalled
  <2>2. n \in settled
    BY <2>1, SuccessSettles
  <2>3. QED
    BY <2>1, <2>2 DEF IInv, SettledInv, SettledLinks
<1>2. QED
  BY <1>1, InvariantCorrect, PTL

(* When commands run, the products they read have been built from what the *)
(* sources are now.                                                        *)
THEOREM InputsBuilt == Spec => []InputsReady
<1>1. IInv => InputsReady
  <2>1. SUFFICES ASSUME IInv, phase = "exec", Clean(Current),
                        NEW d \in Deps(Current) \cap Product
                 PROVE  UpToDate(d)
    BY DEF InputsReady
  <2>2. /\ Writing /\ Running /\ Current \in Rule /\ ~noExecute
        /\ Top.next > Len(Children[Current])
    BY <2>1 DEF IInv, Writing, Running, WritingInv, StackInv
  <2>3. d \notin Source
    BY FileAssumption
  <2>4. PICK r \in Rule : d \in Outs(r) /\ Settles(r)
    BY <2>1, <2>2, <2>3, DependencyCurrent DEF IInv
  <2>5. QED
    BY <2>4, SettlesUpToDate
<1>2. QED
  BY <1>1, InvariantCorrect, PTL

-----------------------------------------------------------------------------
(* Nothing settled is built again.                                         *)

(* Freshness is a matter of the rule's outputs and what it depends on.     *)
LEMMA FreshFrame ==
  ASSUME NEW r \in Rule, NEW S, NEW T, \A f \in Outs(r) \cup Deps(r) : T[f] = S[f],
         Fresh(S, r)
  PROVE  Fresh(T, r)
BY DEF Fresh

(* A rule that shares no output with a settled one makes nothing that a    *)
(* settled one depends on.                                                 *)
LEMMA SettledApart ==
  ASSUME TypeOK, SettledInv, NEW q \in Rule,
         \A r \in settled \cap Rule : Outs(r) \cap Outs(q) = {},
         NEW r \in settled \cap Rule
  PROVE  (Outs(r) \cup Deps(r)) \cap Outs(q) = {}
<1>1. SUFFICES ASSUME NEW d \in Deps(r), d \in Outs(q) PROVE FALSE
  OBVIOUS
<1>2. d \in Product /\ d \notin Source /\ r \in Node
  BY <1>1, RuleAssumption, FileAssumption, NodeAssumption
<1>3. d \in Below(r)
  BY <1>1, <1>2, PassiveAssumption
<1>4. PICK c \in Range(Children[r]) : d \in Outs(c)
  BY <1>3 DEF Below
<1>5. c \in settled
  BY <1>4 DEF SettledInv, SettledTree
<1>6. PICK p \in settled \cap Rule : d \in Outs(p)
  BY <1>2, <1>4, <1>5 DEF SettledInv, SettledTree
<1>7. QED
  BY <1>1, <1>6

(* What is cached or on disk is not from the future.                       *)
LEMMA TimesFacts ==
  ASSUME TypeOK, WritingInv, ClockInv, NEW f \in File
  PROVE  /\ Times[f] = Time(f) /\ Times[f] \in Nat /\ Times[f] <= clock
         /\ mtime[f] \in Nat /\ mtime[f] <= clock /\ clock \in Nat
<1>1. mtime[f] \in Nat /\ mtime[f] <= clock /\ clock \in Nat
  BY DEF TypeOK, WritingInv
<1>2. f \in DOMAIN statted => statted[f] \in Nat /\ statted[f] <= clock
  BY DEF TypeOK, ClockInv
<1>3. Times[f] = Time(f)
  BY DEF Times
<1>4. QED
  BY <1>1, <1>2, <1>3 DEF Time

(* With nothing cached filetime() reads the disk.                          *)
LEMMA NothingCached ==
  ASSUME statted' = EmptyCache, NEW r \in Rule, Fresh(mtime', r)
  PROVE  Fresh(Times', r)
<1>1. DOMAIN statted' = {}
  BY DEF EmptyCache
<1>2. r \in Node /\ Outs(r) \cup Deps(r) \subseteq File
  BY NodeAssumption, NodeFacts
<1>3. \A f \in File : Times'[f] = mtime'[f]
  BY <1>1 DEF Times, Time
<1>4. QED
  BY <1>2, <1>3, FreshFrame

-----------------------------------------------------------------------------
(* The decision of node:__build.                                           *)

(* The commands of a rule run only when no settled rule shares its outputs.*)
LEMMA RebuildsUnsettled ==
  ASSUME TypeOK, StackInv, WritingInv, ClockInv, FreshInv, Running, ~noExecute,
         Current \in Rule, Rebuild(Current)
  PROVE  NotSettled
<1>1. SUFFICES ASSUME NEW r \in settled \cap Rule, Outs(r) \cap Outs(Current) # {}
               PROVE  FALSE
  BY DEF NotSettled
<1>2. Outs(r) = Outs(Current) /\ Deps(r) = Deps(Current)
  BY <1>1, SharedOutputs
<1>3. Fresh(Times, Current)
  BY <1>1, <1>2 DEF FreshInv, Fresh
<1>4. Current \in Node /\ Outs(Current) \subseteq File /\ Deps(Current) \subseteq File
  BY TopFacts, NodeFacts
<1>5. ~NoTimestamp(Current)
  BY <1>3, <1>4, TimesFacts DEF Fresh, NoTimestamp
<1>6. ASSUME NEW d \in Deps(Current) PROVE ~NewerThan(d, Current)
  <2>1. PICK o \in Outs(Current) : Times[d] <= Times[o]
    BY <1>3 DEF Fresh
  <2>2. /\ Time(d) = Times[d] /\ Time(o) = Times[o] /\ Time(d) \in Nat /\ Time(o) \in Nat
    BY <1>4, <2>1, TimesFacts
  <2>3. QED
    BY <2>1, <2>2 DEF NewerThan
<1>7. QED
  BY <1>5, <1>6 DEF Rebuild

(* A rule that has nothing to do is as fresh as a settled one, on disk too:*)
(* what the cache says of its outputs is what the disk says, or comes from *)
(* a settled rule with the same outputs.                                   *)
LEMMA UpToDateFresh ==
  ASSUME TypeOK, StackInv, WritingInv, StatInv, ClockInv, FreshInv, ~noExecute,
         Running, phase = "walk", Current \in Rule, ~Rebuild(Current)
  PROVE  Fresh(Times, Current) /\ Fresh(mtime, Current)
<1>1. Current \in Node /\ Outs(Current) \subseteq File /\ Deps(Current) \subseteq File
  BY TopFacts, NodeFacts
<1>2. Fresh(Times, Current)
  <2>1. \E o \in Outs(Current) : Times[o] # 0
    BY <1>1, TimesFacts DEF Rebuild, NoTimestamp
  <2>2. ASSUME NEW d \in Deps(Current)
        PROVE  \E o \in Outs(Current) : Times[d] <= Times[o]
    <3>1. PICK o \in Outs(Current) : ~(Time(d) > Time(o))
      BY DEF Rebuild, NewerThan
    <3>2. /\ Time(d) = Times[d] /\ Time(o) = Times[o] /\ Time(d) \in Nat /\ Time(o) \in Nat
      BY <1>1, <3>1, TimesFacts
    <3>3. QED
      BY <3>1, <3>2
  <2>3. QED
    BY <2>1, <2>2 DEF Fresh
<1>3. CASE \A o \in Outs(Current) : Times[o] = mtime[o]
  <2>1. \A f \in File : mtime[f] <= Times[f]
    BY TimesFacts DEF Time, StatInv
  <2>2. \E o \in Outs(Current) : mtime[o] # 0
    BY <1>2, <1>3 DEF Fresh
  <2>3. ASSUME NEW d \in Deps(Current)
        PROVE  \E o \in Outs(Current) : mtime[d] <= mtime[o]
    <3>1. PICK o \in Outs(Current) : Times[d] <= Times[o]
      BY <1>2 DEF Fresh
    <3>2. /\ mtime[d] \in Nat /\ Times[d] \in Nat /\ Times[o] \in Nat
          /\ mtime[d] <= Times[d] /\ Times[o] = mtime[o]
      BY <1>1, <1>3, <2>1, <3>1, TimesFacts
    <3>3. QED
      BY <3>1, <3>2
  <2>4. QED
    BY <1>2, <2>2, <2>3 DEF Fresh
<1>4. CASE \E o \in Outs(Current) : Times[o] # mtime[o]
  <2>1. PICK o \in Outs(Current) : Times[o] # mtime[o]
    BY <1>4
  <2>2. o \in DOMAIN statted /\ statted[o] # mtime[o] /\ o \in Product
    BY <1>1, <2>1, TimesFacts, RuleAssumption DEF Time
  <2>3. PICK r \in settled \cap Rule : o \in Outs(r)
    BY <2>2 DEF StatInv
  <2>4. Outs(r) = Outs(Current) /\ Deps(r) = Deps(Current)
    BY <2>1, <2>3, SharedOutputs
  <2>5. QED
    BY <1>2, <2>3, <2>4 DEF FreshInv, Fresh
<1>5. QED
  BY <1>3, <1>4

(* The sources a node returns exist.                                       *)
LEMMA DecidedPresent ==
  ASSUME NothingHidden, TypeOK, StackInv, RunInv, SettledInv, ClockInv, FreshInv,
         ~noExecute, Running, Top.next > Len(Children[Current]), ~MissingFile(Current)
  PROVE  Present(Current)
<1>1. Current \in Node
  BY TopFacts
<1>2. SUFFICES ASSUME NEW s \in Outs(Current) \cap Source PROVE mtime[s] # 0
  BY DEF Present
<1>3. CASE Current \in Rule
  BY <1>2, <1>3, RuleAssumption, FileAssumption
<1>4. CASE Current \in FileClause
  <2>1. Time(s) # 0
    BY <1>2, <1>4 DEF MissingFile
  <2>2. QED
    BY <2>1 DEF Time, ClockInv
<1>5. CASE Current \notin Rule \cup FileClause
  <2>1. s \in Below(Current)
    BY <1>1, <1>2, <1>5 DEF NothingHidden
  <2>2. PICK c \in Range(Children[Current]) : s \in Outs(c)
    BY <2>1 DEF Below
  <2>3. c \in settled
    BY <2>2, ChildrenSettled
  <2>4. QED
    BY <2>2, <2>3 DEF FreshInv, Present
<1>6. QED
  BY <1>3, <1>4, <1>5

(* A clause without commands is "built" only when it returns nothing.      *)
LEMMA PretendsForNothing ==
  ASSUME NothingHidden, TypeOK, StackInv, WritingInv, RunInv, SettledInv, ClockInv,
         FreshInv, ~noExecute, Running, Top.next > Len(Children[Current]),
         ~MissingFile(Current), Current \notin Rule, Rebuild(Current)
  PROVE  Outs(Current) = {}
<1>1. Current \in Node /\ Outs(Current) \subseteq File
  BY TopFacts, NodeFacts
<1>2. SUFFICES ASSUME Outs(Current) # {} PROVE FALSE
  OBVIOUS
<1>3. Deps(Current) \subseteq Outs(Current)
  BY <1>1, <1>2 DEF NothingHidden
<1>4. ASSUME NEW d \in Deps(Current) PROVE ~NewerThan(d, Current)
  <2>1. d \in File /\ Time(d) \in Nat /\ d \in Outs(Current)
    BY <1>1, <1>3, TimesFacts
  <2>2. QED
    BY <2>1 DEF NewerThan
<1>5. NoTimestamp(Current)
  BY <1>4 DEF Rebuild
<1>6. PICK o \in Outs(Current) : TRUE
  BY <1>2
<1>7. CASE o \in Source
  <2>1. mtime[o] # 0
    BY <1>6, <1>7, DecidedPresent DEF Present
  <2>2. Time(o) = mtime[o]
    BY <1>7 DEF Time, ClockInv
  <2>3. QED
    BY <1>5, <1>6, <2>1, <2>2 DEF NoTimestamp
<1>8. CASE o \in Product
  <2>1. PICK r \in settled \cap Rule : o \in Outs(r)
    BY <1>6, <1>8, OutputSettled
  <2>2. Outs(r) \subseteq Outs(Current)
    BY <1>1, <1>6, <2>1 DEF NothingHidden
  <2>3. PICK p \in Outs(r) : Times[p] # 0
    BY <2>1 DEF FreshInv, Fresh
  <2>4. p \in File /\ Time(p) # 0 /\ p \in Outs(Current)
    BY <1>1, <2>2, <2>3, TimesFacts
  <2>5. QED
    BY <1>5, <2>4 DEF NoTimestamp
<1>9. QED
  BY <1>1, <1>6, <1>7, <1>8 DEF File

-----------------------------------------------------------------------------
(* The clock and the cache.                                                *)

(* The end of a run forgets the stat cache.                                *)
LEMMA ClockExit ==
  ASSUME statted' = EmptyCache, phase' \notin {"exec", "cleanup"}
  PROVE  ClockInv'
BY DEF ClockInv, EmptyCache, Writing

(* Nothing that is cached or written is newer than the clock, and no       *)
(* command and no filetouch() of a real run touches a source.              *)
LEMMA ClockNext ==
  ASSUME TypeOK, StackInv, WritingInv, StatInv, ClockInv, NodeInv, [Next]_vars
  PROVE  ClockInv'
<1> USE DEF disk, run, history
<1>c. /\ clock \in Nat
      /\ \A f \in File : mtime[f] \in Nat /\ mtime[f] <= clock
      /\ DOMAIN statted \subseteq File
      /\ \A f \in DOMAIN statted : statted[f] \in Nat /\ statted[f] <= clock
  BY DEF TypeOK, WritingInv, ClockInv
<1>1. CASE \/ \E ts \in TargetLists, dry, purge \in BOOLEAN :
                 StartRun(ts, dry, purge)
           \/ \E s \in Source : Edit(s) \/ RemoveSource(s)
           \/ \E r \in Rule : DeleteProducts(r)
  <2>1. phase = "idle" /\ statted' = statted /\ phase' \notin {"exec", "cleanup"}
    BY <1>1 DEF StartRun, Edit, RemoveSource, DeleteProducts
  <2>2. QED
    BY <2>1, ClockExit DEF StatInv
<1>2. CASE \/ FinishRun \/ FileNotFound \/ Cleanup \/ InstallFails
           \/ \E W \in SUBSET Product : Crash(W)
  BY <1>2, ClockExit DEF FinishRun, FileNotFound, Cleanup, InstallFails, Crash, Exit
<1>3. CASE \/ NextTarget \/ BuildChild
           \/ NothingToInstall \/ ShellInstall \/ Symlink \/ Unlink
  <2>1. /\ UNCHANGED <<statted, mtime, clock, noExecute>>
        /\ phase' \notin {"exec", "cleanup"}
    BY <1>3 DEF NextTarget, BuildChild, NothingToInstall, ShellInstall, Symlink,
       Unlink, Return
  <2>2. QED
    BY <2>1 DEF ClockInv, Writing
<1>4. CASE NothingToDo \/ StartCommands \/ PretendToBuild
  <2>1. /\ phase = "walk" /\ written' = {}
        /\ statted' = Statted(Outs(Current) \cup Compared(Current))
        /\ UNCHANGED <<mtime, clock, noExecute>>
    BY <1>4 DEF NothingToDo, StartCommands, PretendToBuild, Compare, Deciding,
       WritingInv, Writing
  <2>2. Current \in Node
    BY <2>1, TopFacts DEF Running
  <2>3. Outs(Current) \cup Compared(Current) \subseteq File
    BY <2>2, NodeFacts DEF Compared, Deps, Range
  <2>4. ASSUME NEW f \in DOMAIN statted'
        PROVE  \/ f \in DOMAIN statted /\ statted'[f] = statted[f]
               \/ f \in File /\ statted'[f] = mtime[f]
    BY <2>1, <2>3 DEF Statted, Time
  <2>5. QED
    BY <1>c, <2>1, <2>4 DEF ClockInv
<1>5. ASSUME NEW W \in SUBSET Product, RunCommand(W) \/ CommandFails(W)
      PROVE  ClockInv'
  <2>1. /\ Writing /\ Current' = Current /\ written' = written \cup W
        /\ W \subseteq Outs(Current)
        /\ mtime' = [f \in File |-> IF f \in W THEN clock ELSE mtime[f]]
        /\ UNCHANGED <<statted, clock, noExecute>>
    BY <1>5 DEF RunCommand, CommandFails, WritePartly, Writing, Current, Top
  <2>2. ASSUME NEW p \in written', NEW f \in File \ Outs(Current)
        PROVE  mtime'[f] <= mtime'[p]
    <3>1. mtime'[f] = mtime[f] /\ mtime[f] <= clock
      BY <1>c, <2>1
    <3>2. p \in File
      BY <2>1 DEF TypeOK, File
    <3>3. CASE p \in W
      BY <2>1, <3>1, <3>2, <3>3
    <3>4. CASE p \notin W
      <4>1. p \in written /\ mtime'[p] = mtime[p]
        BY <2>1, <3>2, <3>4
      <4>2. QED
        BY <2>1, <3>1, <4>1 DEF ClockInv
    <3>5. QED
      BY <3>3, <3>4
  <2>3. ~noExecute' => \A s \in DOMAIN statted' \cap Source : statted'[s] = mtime'[s]
    BY <1>c, <2>1, FileAssumption DEF ClockInv
  <2>4. QED
    BY <1>c, <2>1, <2>2, <2>3 DEF ClockInv
<1>6. ASSUME NEW W \in SUBSET Product, LastCommand(W)
      PROVE  ClockInv'
  <2>1. /\ mtime' = [f \in File |-> IF f \in W THEN clock ELSE mtime[f]]
        /\ phase' = "touch" /\ UNCHANGED <<statted, clock, noExecute>>
    BY <1>6 DEF LastCommand
  <2>2. ~noExecute' => \A s \in DOMAIN statted' \cap Source : statted'[s] = mtime'[s]
    BY <1>c, <2>1, FileAssumption DEF ClockInv
  <2>3. QED
    BY <1>c, <2>1, <2>2 DEF ClockInv, Writing
<1>7. CASE FileTouch
  <2>1. /\ phase = "touch" /\ phase' = "install"
        /\ statted' = Touched(Outs(Current))
        /\ UNCHANGED <<mtime, clock, noExecute>>
    BY <1>7 DEF FileTouch
  <2>2. ASSUME NEW f \in DOMAIN statted'
        PROVE  \/ f \in Outs(Current) /\ statted'[f] = clock
               \/ f \in DOMAIN statted /\ statted'[f] = statted[f]
    BY <2>1 DEF Touched
  <2>3. ~noExecute => Outs(Current) \cap Source = {}
    <3>1. ~noExecute /\ Current \notin Rule => Outs(Current) = {}
      BY <2>1 DEF NodeInv, Running
    <3>2. QED
      BY <3>1, RuleAssumption, FileAssumption
  <2>4. \A f \in DOMAIN statted' : statted'[f] <= clock'
    BY <1>c, <2>1, <2>2
  <2>5. ~noExecute' => \A s \in DOMAIN statted' \cap Source : statted'[s] = mtime'[s]
    BY <2>1, <2>2, <2>3 DEF ClockInv
  <2>6. QED
    BY <2>1, <2>4, <2>5 DEF ClockInv, Writing
<1>8. CASE Tick \/ UNCHANGED vars
  <2>1. /\ UNCHANGED <<mtime, statted, noExecute, phase, stack, written>>
        /\ clock' \in Nat /\ clock <= clock'
    BY <1>8, <1>c DEF Tick, vars
  <2>2. \A f \in DOMAIN statted' : statted'[f] <= clock'
    BY <1>c, <2>1
  <2>3. QED
    BY <2>1, <2>2 DEF ClockInv, Writing, Current, Top
<1>9. QED
  BY <1>1, <1>2, <1>3, <1>4, <1>5, <1>6, <1>7, <1>8
     DEF Next, Pm, Walk, Decide, Execute, Install

-----------------------------------------------------------------------------
(* What is settled stays fresh.                                            *)

(* A step that changes the disk only where no settled rule writes.         *)
LEMMA FreshApart ==
  ASSUME TypeOK, SettledInv, FreshInv, NEW q \in Rule,
         \A r \in settled \cap Rule : Outs(r) \cap Outs(q) = {},
         \A f \in File \ Outs(q) : mtime'[f] = mtime[f],
         settled' \subseteq settled
  PROVE  /\ \A r \in settled' \cap Rule : Fresh(mtime', r)
         /\ \A n \in settled' : Present(n)'
<1>1. ASSUME NEW r \in settled' \cap Rule PROVE Fresh(mtime', r)
  <2>1. (Outs(r) \cup Deps(r)) \cap Outs(q) = {}
    BY SettledApart
  <2>2. Outs(r) \cup Deps(r) \subseteq File
    BY NodeAssumption, NodeFacts
  <2>3. \A f \in Outs(r) \cup Deps(r) : mtime'[f] = mtime[f]
    BY <2>1, <2>2
  <2>4. Fresh(mtime, r)
    BY DEF FreshInv
  <2>5. QED
    BY <2>3, <2>4, FreshFrame
<1>2. ASSUME NEW n \in settled', NEW s \in Outs(n) \cap Source PROVE mtime'[s] # 0
  <2>1. s \in File \ Outs(q)
    BY RuleAssumption, FileAssumption DEF File
  <2>2. mtime[s] # 0
    BY DEF FreshInv, Present
  <2>3. QED
    BY <2>1, <2>2
<1>3. QED
  BY <1>1, <1>2 DEF Present

(* A step that changes neither the disk nor what filetime() would return.  *)
LEMMA FreshKept ==
  ASSUME FreshInv, UNCHANGED <<mtime, settled, noExecute>>,
         \A f \in File : Time(f)' = Time(f)
  PROVE  FreshInv' /\ Times' = Times
<1>1. Times' = Times
  BY DEF Times
<1>2. QED
  BY <1>1 DEF FreshInv, Present

(* A step that ends the run, or happens between two.                       *)
LEMMA FreshExit ==
  ASSUME statted' = EmptyCache,
         \A r \in settled' \cap Rule : Fresh(mtime', r),
         \A n \in settled' : Present(n)'
  PROVE  FreshInv'
BY NothingCached DEF FreshInv

(* Comparing reads timestamps and changes none.                            *)
LEMMA CompareTimes ==
  ASSUME TypeOK, StackInv, NEW next, Compare(next)
  PROVE  \A f \in File : Time(f)' = Time(f)
<1>1. /\ statted' = Statted(Outs(Current) \cup Compared(Current))
      /\ UNCHANGED mtime
  BY DEF Compare, disk
<1>2. QED
  BY <1>1 DEF Statted, Time
(* Commands write no output of a settled rule; filetouch() caches none, or *)
(* does nothing; and the node that __build returns from is as fresh as the *)
(* others.                                                                 *)
LEMMA FreshNext ==
  ASSUME TypeOK, StackInv, WritingInv, StatInv, SettledInv, ClockInv, FreshInv,
         NodeInv, [Next]_vars
  PROVE  FreshInv'
<1> USE DEF disk, run, history
<1>1. CASE \/ \E s \in Source : Edit(s) \/ RemoveSource(s)
           \/ \E r \in Rule : DeleteProducts(r)
  BY <1>1 DEF Edit, RemoveSource, DeleteProducts, FreshInv
<1>2. ASSUME NEW ts \in TargetLists, NEW dry \in BOOLEAN, NEW purge \in BOOLEAN,
             StartRun(ts, dry, purge)
      PROVE  FreshInv'
  <2>1. CASE purge
    BY <1>2, <2>1 DEF StartRun, FreshInv
  <2>2. CASE ~purge
    <3>1. UNCHANGED <<settled, statted>> /\ statted = EmptyCache
      BY <1>2, <2>2 DEF StartRun, StatInv
    <3>2. mtime' = mtime
      <4>1. mtime = [f \in File |-> mtime[f]]
        BY DEF TypeOK
      <4>2. QED
        BY <1>2, <2>2, <4>1 DEF StartRun
    <3>3. QED
      BY <3>1, <3>2, FreshExit DEF FreshInv, Present
  <2>3. QED
    BY <2>1, <2>2
<1>3. CASE \/ FinishRun \/ FileNotFound \/ InstallFails
           \/ ~Writing /\ \E W \in SUBSET Product : Crash(W)
  <2>1. statted' = EmptyCache /\ settled' \subseteq settled /\ mtime' = mtime
    BY <1>3, UnsettledFacts DEF FinishRun, FileNotFound, InstallFails, Crash, Exit,
       Writing
  <2>2. QED
    BY <2>1, FreshExit DEF FreshInv, Present
<1>4. CASE Cleanup \/ (Writing /\ \E W \in SUBSET Product : Crash(W))
  <2>1. statted' = EmptyCache /\ settled' \subseteq settled /\ Writing
    BY <1>4, UnsettledFacts DEF Cleanup, Crash, Exit, Writing
  <2>2. Current \in Rule /\ NotSettled
    BY <2>1 DEF NodeInv, WritingInv, Writing, Running
  <2>3. \A f \in File \ Outs(Current) : mtime'[f] = mtime[f]
    BY <1>4, <2>1 DEF Cleanup, Crash, RemoveOutputs, WritePartly, Writing
  <2>4. \A r \in settled \cap Rule : Outs(r) \cap Outs(Current) = {}
    BY <2>2 DEF NotSettled
  <2>5. /\ \A r \in settled' \cap Rule : Fresh(mtime', r)
        /\ \A n \in settled' : Present(n)'
    BY <2>1, <2>2, <2>3, <2>4, FreshApart
  <2>6. QED
    BY <2>1, <2>5, FreshExit
<1>5. CASE NextTarget \/ BuildChild \/ Unlink \/ Tick \/ UNCHANGED vars
  <2>1. UNCHANGED <<mtime, settled, noExecute, statted>>
    BY <1>5 DEF NextTarget, BuildChild, Unlink, Tick, vars
  <2>2. QED
    BY <2>1, FreshKept DEF Time
<1>6. CASE NothingToDo \/ StartCommands \/ PretendToBuild
  <2>1. UNCHANGED <<mtime, settled, noExecute>>
    BY <1>6 DEF NothingToDo, StartCommands, PretendToBuild, Compare
  <2>2. \A f \in File : Time(f)' = Time(f)
    BY <1>6, CompareTimes DEF NothingToDo, StartCommands, PretendToBuild
  <2>3. QED
    BY <2>1, <2>2, FreshKept
<1>7. ASSUME NEW W \in SUBSET Product,
             RunCommand(W) \/ LastCommand(W) \/ CommandFails(W)
      PROVE  FreshInv'
  <2>1. /\ Writing /\ Running /\ phase # "walk" /\ W \subseteq Outs(Current)
        /\ mtime' = [f \in File |-> IF f \in W THEN clock ELSE mtime[f]]
        /\ UNCHANGED <<statted, settled, noExecute>>
    BY <1>7 DEF RunCommand, LastCommand, CommandFails, WritePartly, Writing, Running
  <2>2. Current \in Rule /\ ~noExecute /\ NotSettled
    BY <2>1 DEF NodeInv, WritingInv, Writing
  <2>3. \A f \in File \ Outs(Current) : mtime'[f] = mtime[f]
    BY <2>1
  <2>4. \A r \in settled \cap Rule : Outs(r) \cap Outs(Current) = {}
    BY <2>2 DEF NotSettled
  <2>5. /\ \A r \in settled' \cap Rule : Fresh(mtime', r)
        /\ \A n \in settled' : Present(n)'
    BY <2>1, <2>2, <2>3, <2>4, FreshApart
  <2>6. ASSUME NEW r \in settled' \cap Rule PROVE Fresh(Times', r)
    <3>1. (Outs(r) \cup Deps(r)) \cap Outs(Current) = {}
      BY <2>1, <2>2, <2>4, SettledApart
    <3>2. Outs(r) \cup Deps(r) \subseteq File
      BY NodeAssumption, NodeFacts
    <3>3. \A f \in Outs(r) \cup Deps(r) : Times'[f] = Times[f]
      BY <2>1, <2>3, <3>1, <3>2 DEF Times, Time
    <3>4. Fresh(Times, r)
      BY <2>1, <2>2 DEF FreshInv
    <3>5. QED
      BY <3>3, <3>4, FreshFrame
  <2>7. QED
    BY <2>5, <2>6 DEF FreshInv
<1>8. CASE FileTouch
  <2>1. /\ phase = "touch" /\ Running /\ phase # "walk"
        /\ statted' = Touched(Outs(Current))
        /\ UNCHANGED <<mtime, settled, noExecute>>
    BY <1>8 DEF FileTouch, Running
  <2>2. ASSUME NEW f \in File, f \notin Outs(Current) PROVE Time(f)' = Time(f)
    BY <2>1, <2>2 DEF Touched, Time
  <2>3. ASSUME ~noExecute, NEW r \in settled \cap Rule PROVE Fresh(Times', r)
    <3>1. (Outs(r) \cup Deps(r)) \cap Outs(Current) = {}
      <4>1. CASE Current \in Rule
        <5>1. \A p \in settled \cap Rule : Outs(p) \cap Outs(Current) = {}
          BY <2>1, <2>3, <4>1 DEF NodeInv, NotSettled
        <5>2. QED
          BY <4>1, <5>1, SettledApart
      <4>2. CASE Current \notin Rule
        BY <2>1, <2>3, <4>2 DEF NodeInv
      <4>3. QED
        BY <4>1, <4>2
    <3>2. Outs(r) \cup Deps(r) \subseteq File
      BY NodeAssumption, NodeFacts
    <3>3. \A f \in Outs(r) \cup Deps(r) : Times'[f] = Times[f]
      BY <2>2, <3>1, <3>2 DEF Times
    <3>4. Fresh(Times, r)
      BY <2>3 DEF FreshInv
    <3>5. QED
      BY <3>3, <3>4, FreshFrame
  <2>4. QED
    BY <2>1, <2>3 DEF FreshInv, Present
<1>9. CASE NothingToInstall \/ ShellInstall \/ Symlink
  <2>1. /\ phase \in {"install", "relink"} /\ Running /\ phase # "walk"
        /\ settled' = IF noExecute THEN settled ELSE settled \cup {Current}
        /\ UNCHANGED <<mtime, statted, noExecute>>
    BY <1>9 DEF NothingToInstall, ShellInstall, Symlink, Return, Running
  <2>2. Times' = Times
    BY <2>1 DEF Times, Time
  <2>3. CASE noExecute
    BY <2>1, <2>3 DEF FreshInv, Present
  <2>4. CASE ~noExecute
    <3>1. /\ Present(Current)
          /\ Current \in Rule => Fresh(mtime, Current) /\ Fresh(Times, Current)
      BY <2>1, <2>4 DEF NodeInv
    <3>2. settled' = settled \cup {Current}
      BY <2>1, <2>4
    <3>3. ASSUME NEW r \in settled' \cap Rule PROVE Fresh(mtime, r) /\ Fresh(Times, r)
      BY <2>4, <3>1, <3>2 DEF FreshInv
    <3>4. ASSUME NEW n \in settled' PROVE Present(n)
      BY <3>1, <3>2 DEF FreshInv
    <3>5. QED
      BY <2>1, <2>2, <3>3, <3>4 DEF FreshInv, Present
  <2>5. QED
    BY <2>3, <2>4
<1>10. QED
  BY <1>1, <1>2, <1>3, <1>4, <1>5, <1>6, <1>7, <1>8, <1>9
     DEF Next, Pm, Walk, Decide, Execute, Install

-----------------------------------------------------------------------------
(* The node that is being built.                                           *)

(* The last command leaves the rule's outputs at least as new as all that  *)
(* the rule depends on: they were written since the commands started, and  *)
(* nothing else was.                                                       *)
LEMMA LastCommandFresh ==
  ASSUME TypeOK, WritingInv, ClockInv, NEW W \in SUBSET Product, LastCommand(W)
  PROVE  Fresh(mtime', Current)
<1>1. /\ Writing /\ Current \in Rule /\ W \subseteq Outs(Current)
      /\ Outs(Current) \subseteq written \cup W
      /\ mtime' = [f \in File |-> IF f \in W THEN clock ELSE mtime[f]]
  BY DEF LastCommand, WritingInv, Writing
<1>2. PICK o \in Outs(Current) : TRUE
  BY <1>1, RuleAssumption
<1>3. /\ Outs(Current) \subseteq File /\ Deps(Current) \subseteq File
      /\ Outs(Current) \cap Deps(Current) = {}
  BY <1>1, NodeAssumption, NodeFacts, RuleAssumption
<1>4. /\ clock \in Nat /\ clock # 0
      /\ \A f \in File : mtime[f] \in Nat /\ mtime[f] <= clock
  BY DEF TypeOK, WritingInv
<1>5. mtime'[o] # 0
  BY <1>1, <1>2, <1>3, <1>4 DEF WritingInv
<1>6. ASSUME NEW d \in Deps(Current) PROVE mtime'[d] <= mtime'[o]
  <2>1. d \in File \ Outs(Current) /\ mtime'[d] = mtime[d]
    BY <1>1, <1>3
  <2>2. CASE o \in W
    BY <1>1, <1>2, <1>3, <1>4, <2>1, <2>2
  <2>3. CASE o \notin W
    <3>1. o \in written /\ mtime'[o] = mtime[o]
      BY <1>1, <1>2, <1>3, <2>3
    <3>2. mtime[d] <= mtime[o]
      BY <1>1, <2>1, <3>1 DEF ClockInv
    <3>3. QED
      BY <2>1, <3>1, <3>2
  <2>4. QED
    BY <2>2, <2>3
<1>7. QED
  BY <1>2, <1>5, <1>6 DEF Fresh

(* After filetouch() they are the newest files there are.                  *)
LEMMA TouchedFresh ==
  ASSUME TypeOK, StackInv, WritingInv, ClockInv, FileTouch, Current \in Rule
  PROVE  Fresh(Times', Current)
<1>1. /\ statted' = Touched(Outs(Current)) /\ mtime' = mtime
  BY DEF FileTouch, disk
<1>2. PICK o \in Outs(Current) : TRUE
  BY RuleAssumption
<1>3. /\ Outs(Current) \subseteq File /\ Deps(Current) \subseteq File
      /\ Outs(Current) \cap Deps(Current) = {}
  BY NodeAssumption, NodeFacts, RuleAssumption
<1>4. clock \in Nat /\ clock # 0
  BY DEF TypeOK
<1>5. Times'[o] = clock
  BY <1>1, <1>2, <1>3 DEF Times, Time, Touched
<1>6. ASSUME NEW d \in Deps(Current) PROVE Times'[d] <= clock
  <2>1. Times'[d] = Times[d]
    BY <1>1, <1>3 DEF Times, Time, Touched
  <2>2. QED
    BY <1>3, <2>1, TimesFacts
<1>7. QED
  BY <1>2, <1>4, <1>5, <1>6 DEF Fresh

(* From the decision to the return of __build.                             *)
LEMMA NodeNext ==
  ASSUME NothingHidden, IInv, OnceInv, [Next]_vars
  PROVE  NodeInv'
<1> USE DEF disk, run, history
<1>i. /\ TypeOK /\ StackInv /\ WritingInv /\ StatInv /\ SettledInv /\ RunInv
      /\ ClockInv /\ FreshInv /\ NodeInv
  BY DEF IInv, OnceInv
<1>0. ASSUME phase' \in {"idle", "targets", "walk"} PROVE NodeInv'
  BY <1>0 DEF NodeInv, Running
<1>1. CASE \/ \E ts \in TargetLists, dry, purge \in BOOLEAN : StartRun(ts, dry, purge)
           \/ \E s \in Source : Edit(s) \/ RemoveSource(s)
           \/ \E r \in Rule : DeleteProducts(r)
           \/ FinishRun \/ FileNotFound \/ Cleanup \/ InstallFails
           \/ \E W \in SUBSET Product : Crash(W)
           \/ NextTarget \/ BuildChild
           \/ NothingToInstall \/ ShellInstall \/ Symlink
  <2>1. phase' \in {"idle", "targets", "walk"}
    BY <1>1 DEF StartRun, Edit, RemoveSource, DeleteProducts, FinishRun,
       FileNotFound, Cleanup, InstallFails, Crash, Exit, NextTarget, BuildChild,
       NothingToInstall, ShellInstall, Symlink, Return
  <2>2. QED
    BY <1>0, <2>1
<1>2. CASE NothingToDo \/ StartCommands \/ PretendToBuild
  <2>1. /\ phase = "walk" /\ Running /\ Top.next > Len(Children[Current])
        /\ ~MissingFile(Current) /\ Current' = Current
        /\ UNCHANGED <<mtime, settled, noExecute>>
    BY <1>2 DEF NothingToDo, StartCommands, PretendToBuild, Compare, Deciding,
       Running, Current, Top
  <2>2. Times' = Times
    <3>1. \A f \in File : Time(f)' = Time(f)
      BY <1>2, <1>i, CompareTimes DEF NothingToDo, StartCommands, PretendToBuild
    <3>2. QED
      BY <3>1 DEF Times
  <2>3. SUFFICES ASSUME ~noExecute PROVE NodeInv'
    BY <2>1 DEF NodeInv
  <2>4. Present(Current)'
    <3>1. Present(Current)
      BY <1>i, <2>1, <2>3, DecidedPresent
    <3>2. QED
      BY <2>1, <3>1 DEF Present
  <2>5. CASE NothingToDo
    <3>1. phase' = "install" /\ ~Rebuild(Current)
      BY <2>5 DEF NothingToDo, Compare
    <3>2. Current \in Rule => Fresh(Times, Current) /\ Fresh(mtime, Current)
      BY <1>i, <2>1, <2>3, <3>1, UpToDateFresh
    <3>3. QED
      BY <2>1, <2>2, <2>4, <3>1, <3>2 DEF NodeInv
  <2>6. CASE StartCommands
    <3>1. phase' = "exec" /\ Rebuild(Current) /\ Current \in Rule
      BY <2>6 DEF StartCommands, Compare
    <3>2. NotSettled
      BY <1>i, <2>1, <2>3, <3>1, RebuildsUnsettled
    <3>3. NotSettled'
      BY <2>1, <3>2 DEF NotSettled
    <3>4. QED
      BY <2>1, <2>4, <3>1, <3>3 DEF NodeInv
  <2>7. CASE PretendToBuild
    <3>1. phase' = "touch" /\ Rebuild(Current) /\ Current \notin Rule
      BY <2>3, <2>7 DEF PretendToBuild, Compare
    <3>2. Outs(Current) = {}
      BY <1>i, <2>1, <2>3, <3>1, PretendsForNothing
    <3>3. QED
      BY <2>1, <2>4, <3>1, <3>2 DEF NodeInv
  <2>8. QED
    BY <1>2, <2>5, <2>6, <2>7
<1>3. ASSUME NEW W \in SUBSET Product,
             RunCommand(W) \/ LastCommand(W) \/ CommandFails(W)
      PROVE  NodeInv'
  <2>1. /\ Writing /\ Running /\ phase # "walk" /\ Current' = Current
        /\ mtime' = [f \in File |-> IF f \in W THEN clock ELSE mtime[f]]
        /\ UNCHANGED <<settled, noExecute>>
        /\ phase' \in {"exec", "cleanup", "touch"}
    BY <1>3 DEF RunCommand, LastCommand, CommandFails, WritePartly, Writing, Running,
       Current, Top
  <2>2. Current \in Rule /\ ~noExecute /\ NotSettled /\ Present(Current)
    BY <1>i, <2>1 DEF NodeInv, WritingInv, Writing
  <2>3. NotSettled'
    BY <2>1, <2>2 DEF NotSettled
  <2>4. Present(Current)'
    BY <2>1, <2>2, RuleAssumption, FileAssumption DEF Present
  <2>5. phase' = "touch" => Fresh(mtime', Current')
    <3>1. phase' = "touch" => LastCommand(W)
      BY <1>3 DEF RunCommand, CommandFails
    <3>2. QED
      BY <1>i, <2>1, <3>1, LastCommandFresh
  <2>6. QED
    BY <2>1, <2>2, <2>3, <2>4, <2>5 DEF NodeInv
<1>4. CASE FileTouch
  <2>1. /\ phase = "touch" /\ Running /\ phase # "walk" /\ Current' = Current
        /\ UNCHANGED <<mtime, noExecute>> /\ phase' = "install"
    BY <1>4 DEF FileTouch, Running, Current, Top
  <2>2. SUFFICES ASSUME ~noExecute PROVE NodeInv'
    BY <2>1 DEF NodeInv
  <2>3. Present(Current) /\ (Current \in Rule => Fresh(mtime, Current))
    BY <1>i, <2>1, <2>2 DEF NodeInv
  <2>4. Present(Current)'
    BY <2>1, <2>3 DEF Present
  <2>5. Current \in Rule => Fresh(Times', Current)
    BY <1>4, <1>i, TouchedFresh
  <2>6. QED
    BY <2>1, <2>3, <2>4, <2>5 DEF NodeInv
<1>5. CASE Unlink \/ Tick \/ UNCHANGED vars
  <2>1. /\ UNCHANGED <<mtime, statted, settled, noExecute>> /\ Current' = Current
        /\ phase' = phase \/ (phase = "install" /\ phase' = "relink")
    BY <1>5 DEF Unlink, Tick, vars, Current, Top
  <2>2. Times' = Times
    BY <2>1 DEF Times, Time
  <2>3. CASE Running /\ phase # "walk" /\ ~noExecute
    <3>1. (Present(Current)' <=> Present(Current)) /\ (NotSettled' <=> NotSettled)
      BY <2>1 DEF Present, NotSettled
    <3>2. QED
      BY <1>i, <2>1, <2>2, <2>3, <3>1 DEF NodeInv
  <2>4. CASE ~(Running /\ phase # "walk" /\ ~noExecute)
    BY <2>1, <2>4 DEF NodeInv, Running
  <2>5. QED
    BY <2>3, <2>4
<1>6. QED
  BY <1>1, <1>2, <1>3, <1>4, <1>5
     DEF Next, Pm, Walk, Decide, Execute, Install

(* Where the clauses without commands hide nothing, a node that a real run *)
(* has built is not built again until something changes: every decision of *)
(* node:__build, made from cached timestamps and through any sequence of   *)
(* runs, failures and kills, agrees with what is settled.                  *)
THEOREM BuildsOnce ==
  ASSUME NothingHidden
  PROVE  Spec => []BuiltOnce
<1>1. Init => OnceInv
  <2>1. SUFFICES ASSUME Init PROVE OnceInv
    OBVIOUS
  <2>2. statted = EmptyCache /\ settled = {} /\ phase = "idle"
    BY <2>1 DEF Init
  <2>3. QED
    BY <2>2 DEF OnceInv, ClockInv, FreshInv, NodeInv, Writing, Running, EmptyCache
<1>2. IInv /\ OnceInv /\ [Next]_vars => OnceInv'
  <2>1. SUFFICES ASSUME IInv, OnceInv, [Next]_vars PROVE OnceInv'
    OBVIOUS
  <2>2. ClockInv' /\ FreshInv'
    BY <2>1, ClockNext, FreshNext DEF IInv, OnceInv
  <2>3. NodeInv'
    BY <2>1, NodeNext
  <2>4. QED
    BY <2>2, <2>3 DEF OnceInv
<1>3. IInv /\ OnceInv => BuiltOnce
  <2>1. SUFFICES ASSUME IInv, OnceInv, phase = "exec" PROVE Current \notin settled
    BY DEF BuiltOnce
  <2>2. Current \in Rule /\ NotSettled
    BY <2>1 DEF IInv, OnceInv, WritingInv, Writing, NodeInv, Running
  <2>3. QED
    BY <2>2, RuleAssumption DEF NotSettled
<1>4. QED
  BY <1>1, <1>2, <1>3, InvariantCorrect, PTL DEF Spec
============================================================================
