------------------------ MODULE CacheIndexInvariant ------------------------
(***************************************************************************)
(* The inductive invariant from which CacheIndexProofs derives the safety  *)
(* properties of CacheIndex, and the conditions under which they hold.     *)
(***************************************************************************)
EXTENDS CacheIndex

(* One pm at a time works in a directory, no command has a line break in   *)
(* it, and either pm is never killed or the index is no longer than a      *)
(* stdio buffer.  Nothing in pm prevents the opposite, and with any of     *)
(* them ids can be given out twice.                                        *)
OneProcess == \A p, q \in Process : p = q
OneLine == \A k \in Key : Len(LinesOf[k]) = 1
NotCutShort == MaxCrashes = 0 \/ 2 * MaxId < Buffer

(* The values that stand for no number and no file are no such things.     *)
NoneOfThese == NoCounter \notin Nat /\ Missing \notin Seq(Word)

(* A table gives every text an id of its own, and none beyond the counter. *)
GoodTable(t, c) ==
  /\ c \in Id
  /\ t = [x \in DOMAIN t |-> t[x]]
  /\ DOMAIN t \subseteq {<<l>> : l \in Line}
  /\ \A x \in DOMAIN t : t[x] \in 1..c
  /\ \A x, y \in DOMAIN t : t[x] = t[y] => x = y
  /\ IsFiniteSet(DOMAIN t) /\ Cardinality(DOMAIN t) <= c

(* By the table t the outputs on disk are those of the keys they were made *)
(* for.                                                                    *)
Kept(t) ==
  \A u \in DOMAIN made : LinesOf[made[u]] \in DOMAIN t /\ t[LinesOf[made[u]]] = u

Whole == index \notin {Missing, <<>>}

Types ==
  /\ pc \in [Process -> {"off", "wiping", "ready", "saving", "build"}]
  /\ DOMAIN table = Process /\ DOMAIN count = Process /\ DOMAIN todo = Process
  /\ node \in [Process -> Key]
  /\ \A u \in DOMAIN made : made[u] \in Key
  /\ crashes \in 0..MaxCrashes

(* An index that is there and not empty is a good table, and knows what is *)
(* made.  It is empty only while it is written, or after a kill.           *)
DiskInv ==
  /\ Whole => GoodTable(Loaded(index), index[1]) /\ Kept(Loaded(index))
  /\ index = <<>> => crashes > 0 \/ \E p \in Process : pc[p] = "saving"

(* What a process holds in memory.  A wipe deletes the index before it is  *)
(* done, so that a process begins either with nothing made or with the     *)
(* index; from then on the index is what it has in its table.              *)
NothingLoaded(p) == table[p] = EmptyTable /\ count[p] = 0
NoCount(p) ==
  /\ pc[p] = "ready" /\ table[p] = EmptyTable /\ count[p] = NoCounter
  /\ index = <<>> /\ crashes > 0
Counts(p) ==
  /\ GoodTable(table[p], count[p]) /\ Kept(table[p])
  /\ pc[p] \in {"ready", "build"} =>
       \/ index = Missing /\ NothingLoaded(p)
       \/ Whole /\ index[1] = count[p] /\ Loaded(index) = table[p]
  /\ pc[p] \in {"saving", "build"} => Text(p) \in DOMAIN table[p]
  /\ pc[p] = "saving" => index = <<>>
ProcessInv(p) ==
  /\ p \in writers <=> pc[p] = "saving"
  /\ pc[p] \in {"off", "wiping"} => NothingLoaded(p)
  /\ pc[p] = "wiping" => DOMAIN made \subseteq todo[p]
                         /\ (index # Missing => IndexFile \in todo[p])
  /\ pc[p] \in {"ready", "saving", "build"} => NoCount(p) \/ Counts(p)

IInv == Types /\ DiskInv /\ \A p \in Process : ProcessInv(p)
============================================================================
