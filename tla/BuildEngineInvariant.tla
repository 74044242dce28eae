----------------------- MODULE BuildEngineInvariant ------------------------
(***************************************************************************)
(* The inductive invariant from which BuildEngineProofs derives the safety *)
(* properties of BuildEngine.  Its parts say, in this order: where the walk*)
(* stands, how the stat cache relates to the disk, what the products hold, *)
(* and what is known of the nodes a real run has already built.            *)
(* OnceInv adds what BuiltOnce needs.                                      *)
(***************************************************************************)
EXTENDS BuildEngine

Running == phase \notin {"idle", "targets"}
Writing == phase \in {"exec", "cleanup"}

(* The stack is the path from a target to the node being built; a node     *)
(* leaves the walk phase only when all its children were built.            *)
StackInv ==
  /\ Running <=> Len(stack) > 0
  /\ Running => position > 1 /\ position - 1 <= Len(targets)
                /\ stack[1].node = targets[position - 1]
  /\ position - 1 <= Len(targets)
  /\ \A k \in 1..Len(stack) : stack[k].next - 1 <= Len(Children[stack[k].node])
  /\ \A k \in 1..(Len(stack) - 1) :
        /\ stack[k].next > 1
        /\ stack[k + 1].node = Children[stack[k].node][stack[k].next - 1]
  /\ Running /\ phase # "walk" => Top.next > Len(Children[Current])

(* Commands run for rules only, and not under -n.                          *)
WritingInv ==
  /\ Writing => Current \in Rule /\ ~noExecute /\ written \subseteq Outs(Current)
  /\ ~Writing => written = {}
  /\ Writing => \A p \in written :
        mtime[p] # 0 /\ \A s \in Source : mtime[s] <= mtime[p]
  /\ \A f \in File : mtime[f] <= clock

(* A cached timestamp is never older than the disk's, except those of the  *)
(* outputs being built; and one that is newer belongs to a product that is *)
(* settled or was just built.                                              *)
StatInv ==
  /\ phase = "idle" => statted = EmptyCache
  /\ \A f \in DOMAIN statted :
        \/ statted[f] >= mtime[f]
        \/ phase \in {"exec", "cleanup", "touch"} /\ f \in Outs(Current)
  /\ ~noExecute => \A p \in DOMAIN statted \cap Product :
        \/ statted[p] = mtime[p]
        \/ \E r \in settled \cap Rule : p \in Outs(r)
        \/ Running /\ phase # "walk" /\ p \in Outs(Current)

(* What is in a product came from its sources; and a rule's outputs are all*)
(* absent or all there, with each source either newer than all of them, or *)
(* no newer than any of them and present in all of them, or gone.          *)
Behind(r, s) == \A o \in Outs(r) : mtime[o] < mtime[s]
Holds(r, s) == \A o \in Outs(r) : mtime[s] <= mtime[o] /\ HasCurrent(o, s)
RuleSources(r) == UNION {SourcesOf(d) : d \in Deps(r)}
Built(r) == \A o \in Outs(r) : mtime[o] # 0
Unbuilt(r) == \A o \in Outs(r) : mtime[o] = 0
Detectable(r) ==
  \/ Unbuilt(r)
  \/ /\ Built(r)
     /\ \A s \in RuleSources(r) : mtime[s] = 0 \/ Behind(r, s) \/ Holds(r, s)
Settles(r) == Built(r) /\ \A s \in RuleSources(r) : mtime[s] = 0 \/ Holds(r, s)

ContentInv ==
  /\ \A p \in Product : \A x \in content[p] : x[1] \in SourcesOf(p)
  /\ \A r \in Rule : Clean(r) /\ ~HalfDone(r) => Detectable(r)

(* What a real run has built: with every node its children, with every     *)
(* product the rule that makes it, and of every rule up to date outputs.   *)
SettledTree ==
  /\ \A n \in settled : Range(Children[n]) \subseteq settled
  /\ \A n \in settled : \A p \in Outs(n) \cap Product :
        \E r \in settled \cap Rule : p \in Outs(r)
SettledRules == \A r \in settled \cap Rule : Clean(r) /\ ~HalfDone(r) => Settles(r)
SettledLinks ==
  \A n \in settled : Installer[n] = "function" =>
     n \in installed \/ (phase = "relink" /\ n = Current)
SettledInv == SettledTree /\ SettledRules /\ SettledLinks

(* What this run has built is settled, unless it only pretends: the earlier*)
(* children along the stack, the earlier targets, and all but the link of  *)
(* the current node once its commands are done.                            *)
PathSettled ==
  \A k \in 1..Len(stack) : \A j \in 1..(stack[k].next - 1) :
     \/ k < Len(stack) /\ j = stack[k].next - 1
     \/ Children[stack[k].node][j] \in settled
Succeeded == phase = "idle" /\ verdict = "ok"
TargetsSettled ==
  /\ phase = "targets" \/ Succeeded => \A i \in 1..(position - 1) : targets[i] \in settled
  /\ Running => \A i \in 1..(position - 2) : targets[i] \in settled
  /\ Succeeded => position = Len(targets) + 1
CurrentSettles ==
  phase \in {"touch", "install", "relink"} /\ Current \in Rule /\ Clean(Current)
    => Settles(Current)
RunInv == ~noExecute => PathSettled /\ TargetsSettled /\ CurrentSettles

IInv ==
  /\ TypeOK
  /\ StackInv
  /\ WritingInv
  /\ StatInv
  /\ ContentInv
  /\ SettledInv
  /\ RunInv

-----------------------------------------------------------------------------
(* What BuiltOnce needs besides IInv.                                      *)

(* A clause without commands hides nothing of what is below it: it returns *)
(* all it depends on (or nothing), all the outputs of a rule if any, and,  *)
(* unless it names files itself, only what its children returned.  A clause*)
(* that returns part of what it depends on is not like that (ith, and file *)
(* with only_n_children_are_outputs): a node above it may be built again.  *)
NothingHidden ==
  /\ \A n \in Node \ Rule : Outs(n) = {} \/ Deps(n) \subseteq Outs(n)
  /\ \A n \in Node \ Rule, r \in Rule :
        Outs(n) \cap Outs(r) # {} => Outs(r) \subseteq Outs(n)
  /\ \A n \in Node \ (Rule \cup FileClause) : Outs(n) \subseteq Below(n)

(* By the timestamps T the rule r has nothing to do.                       *)
Fresh(T, r) ==
  /\ \E o \in Outs(r) : T[o] # 0
  /\ \A d \in Deps(r) : \E o \in Outs(r) : T[d] <= T[o]
Times == [f \in File |-> Time(f)]

Present(n) == \A s \in Outs(n) \cap Source : mtime[s] # 0
NotSettled == \A r \in settled \cap Rule : Outs(r) \cap Outs(Current) = {}

(* The clock bounds what is cached; what is written is younger than all    *)
(* that is not; a real run's cache has the sources as they are on disk.    *)
ClockInv ==
  /\ \A f \in DOMAIN statted : statted[f] <= clock
  /\ Writing => \A p \in written, f \in File \ Outs(Current) : mtime[f] <= mtime[p]
  /\ ~noExecute => \A s \in DOMAIN statted \cap Source : statted[s] = mtime[s]

(* What is settled would not be built again, by the timestamps on disk and,*)
(* in a real run, by those in its cache.                                   *)
FreshInv ==
  /\ \A r \in settled \cap Rule : Fresh(mtime, r)
  /\ \A n \in settled : Present(n)
  /\ ~noExecute => \A r \in settled \cap Rule : Fresh(Times, r)

(* What is known of a node whose children are all built: it is being built *)
(* because it was not settled, or it is as fresh as a settled node.        *)
NodeInv ==
  Running /\ phase # "walk" /\ ~noExecute =>
    /\ Present(Current)
    /\ Current \in Rule /\ phase \in {"exec", "cleanup", "touch"} => NotSettled
    /\ Current \notin Rule /\ phase = "touch" => Outs(Current) = {}
    /\ Current \in Rule /\ phase \in {"touch", "install", "relink"} => Fresh(mtime, Current)
    /\ Current \in Rule /\ phase \in {"install", "relink"} => Fresh(Times, Current)

OnceInv == ClockInv /\ FreshInv /\ NodeInv
============================================================================
