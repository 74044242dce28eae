----------------------------- MODULE CacheIndex -----------------------------
(***************************************************************************)
(* The intermediate cache of pm (src/src/pm.lua, 338-433 and 1387-1405).   *)
(* Every rule has a cache key, its expanded command line; the index file   *)
(* maps keys to unique ids, and the outputs of the rule live in the        *)
(* directory named after the id.  The index is read once per run, and      *)
(* rewritten in place whenever a key is new; -p, or the loss of the index, *)
(* wipes the cache file by file.  pm can be killed between any two steps,  *)
(* and nothing stops a second pm from running in the same directory.       *)
(*                                                                         *)
(* A text is a sequence of lines.  In the index file a key takes as many   *)
(* lines as its text has, and the id that follows takes one.               *)
(***************************************************************************)
EXTENDS Naturals, Sequences, FiniteSets, Functions, SequencesExt

CONSTANTS
  Process,     \* the pm processes that share the cache directory
  Key,         \* the cache keys of the rules in their pmfiles
  Line,        \* the lines that keys consist of
  LinesOf,     \* LinesOf[k]: the lines of the key's text
  Missing,     \* there is no index file
  NoCounter,   \* intermediate_cache_count is nil
  IndexFile,   \* the index, among the files of the cache directory
  Buffer,      \* how many lines of the index stdio writes at a time
  Base,        \* a number cut off before its last digit is divided by Base
  MaxId,       \* bound: ids that are handed out
  MaxCrashes   \* bound: times a process is killed

ASSUME KeyAssumption ==
  /\ LinesOf \in [Key -> Seq(Line) \ {<<>>}]
  /\ \A j, k \in Key : LinesOf[j] = LinesOf[k] => j = k
  /\ Line \cap Nat = {}
ASSUME BoundAssumption ==
  /\ Buffer \in Nat \ {0}
  /\ Base \in Nat \ {0, 1}
  /\ MaxId \in Nat \ {0}
  /\ MaxCrashes \in Nat

VARIABLES
  index,     \* the lines of the index file, or Missing
  made,      \* made[u]: the key whose commands made the outputs under id u
  pc,        \* where each process is
  table,     \* intermediate_cache: from texts to ids
  count,     \* intermediate_cache_count
  node,      \* the key of the rule being built
  todo,      \* the files a wipe has still to delete
  writers,   \* the processes whose open file is the present index
  crashes    \* history: how often a process was killed

vars == <<index, made, pc, table, count, node, todo, writers, crashes>>
memory == <<table, count, node, todo, writers>>

Id == 0..MaxId
Word == Id \cup Line                      \* what one line can hold
EmptyTable == [t \in {} |-> 0]

(* f[x] = v, in Lua.                                                       *)
Assign(f, x, v) == [y \in DOMAIN f \cup {x} |-> IF y = x THEN v ELSE f[y]]

TypeOK ==
  /\ index = Missing \/ index \in Seq(Word)
  /\ DOMAIN made \subseteq Word /\ \A u \in DOMAIN made : made[u] \in Key
  /\ pc \in [Process -> {"off", "wiping", "ready", "saving", "build"}]
  /\ \A p \in Process :
       /\ DOMAIN table[p] \subseteq {<<w>> : w \in Word} \cup Range(LinesOf)
       /\ \A t \in DOMAIN table[p] : table[p][t] \in Word
       /\ count[p] \in Id \cup {NoCounter}
       /\ node[p] \in Key
       /\ todo[p] \subseteq Word \cup {IndexFile}
  /\ writers \subseteq Process
  /\ crashes \in 0..MaxCrashes

-----------------------------------------------------------------------------
(* What f:read("*l") in pairs makes of the lines after the first: a later  *)
(* pair overrides an earlier one, half a pair is dropped.                  *)
Loaded(lines) ==
  LET pairs == 1..((Len(lines) - 1) \div 2)
      last(w) == CHOOSE i \in pairs :
                   /\ lines[2 * i] = w
                   /\ \A j \in pairs : lines[2 * j] = w => j <= i
  IN  [t \in {<<lines[2 * i]>> : i \in pairs} |-> lines[2 * last(t[1]) + 1]]

(* Mutant: the loop ends one entry early.                                  *)
SavedShort(c, tab, order) ==
  <<c>> \o FlattenSeq([i \in 1..(Len(order) - 1) |-> order[i] \o <<tab[order[i]]>>])

(* What save_intermediate_cache writes when pairs() yields order.          *)
Saved(c, tab, order) ==
  <<c>> \o FlattenSeq([i \in 1..Len(order) |-> order[i] \o <<tab[order[i]]>>])

(* A file opened with "w" is written from its start: what another process  *)
(* wrote since stays after it.                                             *)
Over(new, old) == new \o SubSeq(old, Len(new) + 1, Len(old))

(* What reaches the disk of lines when their writer is killed: full stdio  *)
(* buffers, the last of which can end within a line.                       *)
CutShort(lines) ==
  LET whole == {SubSeq(lines, 1, n * Buffer) : n \in
                  {m \in 0..Len(lines) : m * Buffer < Len(lines)}}
      torn(s) == IF s # <<>> /\ Last(s) \in Nat /\ Last(s) >= Base
                 THEN {s, [s EXCEPT ![Len(s)] = @ \div Base]} ELSE {s}
  IN  UNION {torn(s) : s \in whole}

-----------------------------------------------------------------------------
Init ==
  /\ index = Missing
  /\ made = EmptyTable
  /\ pc = [p \in Process |-> "off"]
  /\ table = [p \in Process |-> EmptyTable]
  /\ count = [p \in Process |-> 0]
  /\ node \in [Process -> Key] /\ \A p, q \in Process : node[p] = node[q]
  /\ todo = [p \in Process |-> {}]
  /\ writers = {}
  /\ crashes = 0

(* Mutant: a lost index does not matter.                                   *)
StartWipePurgeOnly(p, purge) ==
  /\ pc[p] = "off"
  /\ purge \/ index = Missing
  /\ pc' = [pc EXCEPT ![p] = IF purge THEN "wiping" ELSE "ready"]
  /\ todo' = [todo EXCEPT ![p] = IF purge THEN DOMAIN made \cup {IndexFile} ELSE {}]
  /\ UNCHANGED <<index, made, table, count, node, writers, crashes>>

(* create_intermediate_cache: everything found in the directory goes.      *)
StartWipe(p, purge) ==
  /\ pc[p] = "off"
  /\ purge \/ index = Missing
  /\ pc' = [pc EXCEPT ![p] = "wiping"]
  /\ todo' = [todo EXCEPT ![p] = DOMAIN made \cup {IndexFile}]
  /\ UNCHANGED <<index, made, table, count, node, writers, crashes>>

Wipe(p, f) ==
  /\ pc[p] = "wiping"
  /\ f \in todo[p]
  /\ todo' = [todo EXCEPT ![p] = @ \ {f}]
  /\ index' = IF f = IndexFile THEN Missing ELSE index
  /\ made' = Restrict(made, DOMAIN made \ {f})
  /\ writers' = IF f = IndexFile THEN {} ELSE writers
  /\ UNCHANGED <<pc, table, count, node, crashes>>

WipeDone(p) ==
  /\ pc[p] = "wiping"
  /\ todo[p] = {}
  /\ pc' = [pc EXCEPT ![p] = "ready"]
  /\ UNCHANGED <<index, made, memory, crashes>>

(* load_intermediate_cache: the first line of an empty file is nil.        *)
Load(p) ==
  /\ pc[p] = "off"
  /\ index # Missing
  /\ pc' = [pc EXCEPT ![p] = "ready"]
  /\ count' = [count EXCEPT ![p] = IF index = <<>> THEN NoCounter ELSE index[1]]
  /\ table' = [table EXCEPT ![p] = Loaded(index)]
  /\ UNCHANGED <<index, made, node, todo, writers, crashes>>

(* The process ends; its memory is gone.                                   *)
End(p) ==
  /\ pc' = [pc EXCEPT ![p] = "off"]
  /\ table' = [table EXCEPT ![p] = EmptyTable]
  /\ count' = [count EXCEPT ![p] = 0]
  /\ todo' = [todo EXCEPT ![p] = {}]
  /\ writers' = writers \ {p}
  /\ UNCHANGED node

(* A file cannot be unlinked: pm gives up with the cache half wiped.       *)
CannotWipe(p) ==
  /\ pc[p] = "wiping"
  /\ todo[p] # {}
  /\ End(p)
  /\ UNCHANGED <<index, made, crashes>>

-----------------------------------------------------------------------------
(* simple.__outputs asks for the id of the key k.                          *)
Text(p) == LinesOf[node[p]]
Reach(p, k) == pc[p] = "ready" /\ node' = [node EXCEPT ![p] = k]

KnownKey(p, k) ==
  /\ Reach(p, k)
  /\ LinesOf[k] \in DOMAIN table[p]
  /\ pc' = [pc EXCEPT ![p] = "build"]
  /\ UNCHANGED <<index, made, table, count, todo, writers, crashes>>

(* Mutant: the index is not saved.                                         *)
NewKeyUnsaved(p, k) ==
  /\ Reach(p, k)
  /\ LinesOf[k] \notin DOMAIN table[p]
  /\ count[p] # NoCounter /\ count[p] < MaxId
  /\ count' = [count EXCEPT ![p] = @ + 1]
  /\ table' = [table EXCEPT ![p] = Assign(@, LinesOf[k], count[p] + 1)]
  /\ index' = <<>>
  /\ pc' = [pc EXCEPT ![p] = "build"]
  /\ UNCHANGED <<made, todo, writers, crashes>>

(* A new key gets the next id, and the index is opened for writing, which  *)
(* truncates or creates it.                                                *)
NewKey(p, k) ==
  /\ Reach(p, k)
  /\ LinesOf[k] \notin DOMAIN table[p]
  /\ count[p] # NoCounter /\ count[p] < MaxId
  /\ count' = [count EXCEPT ![p] = @ + 1]
  /\ table' = [table EXCEPT ![p] = Assign(@, LinesOf[k], count[p] + 1)]
  /\ index' = <<>>
  /\ writers' = writers \cup {p}
  /\ pc' = [pc EXCEPT ![p] = "saving"]
  /\ UNCHANGED <<made, todo, crashes>>

(* nil + 1 is an error, and so is an index that cannot be opened; the      *)
(* driver turns either into exit status 1.                                 *)
NoId(p, k) ==
  /\ pc[p] = "ready"
  /\ LinesOf[k] \notin DOMAIN table[p]
  /\ End(p)
  /\ UNCHANGED <<index, made, crashes>>

(* The buffered lines, in whatever order pairs() yields them, reach the    *)
(* file when it is closed; nobody sees them if it was unlinked meanwhile.  *)
Save(p) ==
  /\ pc[p] = "saving"
  /\ \E order \in SetToSeqs(DOMAIN table[p]) :
       index' = IF p \in writers THEN Over(Saved(count[p], table[p], order), index)
                ELSE index
  /\ writers' = writers \ {p}
  /\ pc' = [pc EXCEPT ![p] = "build"]
  /\ UNCHANGED <<made, table, count, node, todo, crashes>>

(* The rule is built: it is up to date, or pm only pretends...             *)
Skip(p) ==
  /\ pc[p] = "build"
  /\ pc' = [pc EXCEPT ![p] = "ready"]
  /\ UNCHANGED <<index, made, memory, crashes>>

(* ... or its commands make the outputs, or they fail, the outputs are     *)
(* removed and pm exits.                                                   *)
Make(p) ==
  /\ pc[p] = "build"
  /\ made' = Assign(made, table[p][Text(p)], node[p])
  /\ pc' = [pc EXCEPT ![p] = "ready"]
  /\ UNCHANGED <<index, memory, crashes>>

Fail(p) ==
  /\ pc[p] = "build"
  /\ made' = Restrict(made, DOMAIN made \ {table[p][Text(p)]})
  /\ End(p)
  /\ UNCHANGED <<index, crashes>>

Finish(p) ==
  /\ pc[p] = "ready"
  /\ End(p)
  /\ UNCHANGED <<index, made, crashes>>

-----------------------------------------------------------------------------
Crash(p) ==
  /\ pc[p] # "off"
  /\ crashes < MaxCrashes
  /\ crashes' = crashes + 1
  /\ IF pc[p] = "saving" /\ p \in writers
     THEN \E order \in SetToSeqs(DOMAIN table[p]) :
            \E lines \in CutShort(Saved(count[p], table[p], order)) :
              index' = Over(lines, index)
     ELSE UNCHANGED index
  /\ End(p)
  /\ UNCHANGED made

(* The user deletes the index.                                             *)
LoseIndex ==
  /\ \A p \in Process : pc[p] = "off"
  /\ index # Missing
  /\ index' = Missing
  /\ UNCHANGED <<made, pc, memory, crashes>>

Next ==
  \/ \E p \in Process :
       \/ \E purge \in BOOLEAN : StartWipe(p, purge)
       \/ \E f \in todo[p] : Wipe(p, f)
       \/ \E k \in Key : KnownKey(p, k) \/ NewKey(p, k) \/ NoId(p, k)
       \/ CannotWipe(p) \/ WipeDone(p) \/ Load(p) \/ Save(p)
       \/ Skip(p) \/ Make(p) \/ Fail(p) \/ Finish(p)
       \/ Crash(p)
  \/ LoseIndex

Spec == Init /\ [][Next]_vars

-----------------------------------------------------------------------------
(* An id belongs to a key when a process would use it for the key, or when *)
(* the key's outputs are found under it.                                   *)
Owns(k, u) ==
  \/ \E p \in Process :
       LinesOf[k] \in DOMAIN table[p] /\ table[p][LinesOf[k]] = u
  \/ u \in DOMAIN made /\ made[u] = k

(* "Work out the unique ID" (1400): no two keys own the same id, or one    *)
(* rule's outputs would be taken for the up to date outputs of the other.  *)
(* Runs, kills, purges and lost indexes hand out ids in between.           *)
UniqueIds ==
  \A j, k \in Key : \A u \in Word : Owns(j, u) /\ Owns(k, u) => j = k

(* Unless the index is being written, or its writer was killed before any  *)
(* of it reached the disk, the next run finds every rule's outputs again   *)
(* (384-421); and only a kill can leave an index without a counter behind, *)
(* with which nothing new can be built until the user purges the cache     *)
(* (408, 426).                                                             *)
FoundAgain ==
  index \notin {Missing, <<>>} =>
    \A u \in DOMAIN made :
      LET found == Loaded(index)
      IN  LinesOf[made[u]] \in DOMAIN found /\ found[LinesOf[made[u]]] = u
AlwaysCounts == crashes = 0 => \A p \in Process : count[p] # NoCounter
NothingForgotten == FoundAgain /\ AlwaysCounts
=============================================================================
