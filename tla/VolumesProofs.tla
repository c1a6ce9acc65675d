---------------------------- MODULE VolumesProofs ----------------------------
(***************************************************************************)
(* Every volume in the store has its directory, for any number of callers  *)
(* and names, whatever steps fail and wherever the daemon dies.            *)
(***************************************************************************)
EXTENDS Volumes, TLAPS

AllNames == VolumeNames \cup AnonymousNames

\* The lock is held in the middle of a change, by the one that makes it; what
\* is about to be recorded has its directory, and what loses its directory has
\* no record any more.
Inside == {"mkdir", "record", "unrecord", "rmdir"}
LockHeld == \A c \in Callers : volCall[c].pc \in Inside => mu = {c}
DirFirst == \A c \in Callers : volCall[c].pc = "record" => volCall[c].name \in dirs
RecordFirst == \A c \in Callers : volCall[c].pc = "rmdir" => volCall[c].name \notin volumes
Named == \A c \in Callers : volCall[c].pc \in {"create", "mkdir", "record"} => volCall[c].name \in AllNames

VolumesInv == VolumesTypeOK /\ LockHeld /\ DirFirst /\ RecordFirst /\ Named /\ VolumeHasDir

CallType == [pc : Labels, name : {""} \cup VolumeNames \cup AnonymousNames,
             todo : SUBSET (VolumeNames \cup AnonymousNames), pruning : BOOLEAN]

\* The call of c is now at label with the name n, and the others are where they were.
Moves(c, label, n) ==
  /\ volCall' \in [Callers -> CallType]
  /\ volCall'[c].pc = label /\ volCall'[c].name = n
  /\ \A d \in Callers \ {c} : volCall'[d] = volCall[d]
-----------------------------------------------------------------------------
LEMMA VolumesInitInv == VolumesInit => VolumesInv
<1> SUFFICES ASSUME VolumesInit PROVE VolumesInv
  OBVIOUS
<1>1. NoCall \in CallType
  BY DEF NoCall, CallType, Labels
<1>2. volCall \in [Callers -> CallType] /\ \A c \in Callers : volCall[c].pc = "idle"
  BY <1>1 DEF VolumesInit, NoCall
<1>3. VolumesTypeOK
  BY <1>2 DEF VolumesInit, VolumesTypeOK, CallType
<1>4. LockHeld /\ DirFirst /\ RecordFirst /\ Named
  BY <1>2 DEF LockHeld, DirFirst, RecordFirst, Named, Inside
<1>5. VolumeHasDir
  BY DEF VolumesInit, VolumeHasDir
<1> QED
  BY <1>3, <1>4, <1>5 DEF VolumesInv

LEMMA SetMoves ==
  ASSUME NEW c \in Callers, NEW call \in CallType, VolumesTypeOK, volCall' = [volCall EXCEPT ![c] = call]
  PROVE  Moves(c, call.pc, call.name)
BY DEF VolumesTypeOK, Moves, CallType

LEMMA GotoMoves ==
  ASSUME NEW c \in Callers, NEW label \in Labels, VolumesTypeOK, Goto(c, label)
  PROVE  Moves(c, label, volCall[c].name)
<1>1. volCall' \in [Callers -> CallType]
  BY DEF VolumesTypeOK, Goto, CallType
<1> QED
  BY <1>1 DEF VolumesTypeOK, Goto, Moves

LEMMA EndMoves ==
  ASSUME NEW c \in Callers, NEW how \in {"done", "failed"}, VolumesTypeOK, End(c, how)
  PROVE  \E label \in {"next", "done", "failed"} : Moves(c, label, volCall[c].name)
<1>1. CASE volCall[c].pruning
  <2>1. Goto(c, "next")
    BY <1>1 DEF End
  <2> QED
    BY <2>1, GotoMoves DEF Labels
<1>2. CASE ~volCall[c].pruning
  <2>1. Goto(c, how)
    BY <1>2 DEF End
  <2>2. how \in Labels
    BY DEF Labels
  <2> QED
    BY <2>1, <2>2, GotoMoves
<1> QED
  BY <1>1, <1>2

\* What every step but Prune's keeps: the lock is with whoever is in the middle.
LEMMA CallerStep ==
  ASSUME NEW c \in Callers, VolumesInv,
         VolumeStep(c) \/ VolumeFault(c) \/ Return(c)
  PROVE  VolumesInv'
<1> USE DEF VolumesInv, LockHeld, DirFirst, RecordFirst, Named, VolumeHasDir, Inside, AllNames, At, Name
<1> DEFINE Sets == /\ volumes \subseteq AllNames /\ dirs \subseteq AllNames
                   /\ minted \subseteq AnonymousNames /\ mu \subseteq Callers
<1>t. Sets
  BY DEF VolumesTypeOK
<1>u. ASSUME volCall' \in [Callers -> CallType], Sets' PROVE VolumesTypeOK'
  BY <1>u DEF VolumesTypeOK, CallType
<1>1. CASE CreateLocked(c)
  <2>1. CASE volCall[c].name \in volumes
    <3>1. Moves(c, "done", volCall[c].name)
      BY <1>1, <2>1, GotoMoves DEF CreateLocked, Labels
    <3> QED BY <1>1, <2>1, <3>1, <1>t, <1>u DEF CreateLocked, Moves
  <2>2. CASE volCall[c].name \notin volumes
    <3>1. Moves(c, "mkdir", volCall[c].name)
      BY <1>1, <2>2, GotoMoves DEF CreateLocked, Labels
    <3> QED BY <1>1, <2>2, <3>1, <1>t, <1>u DEF CreateLocked, Moves
  <2> QED BY <2>1, <2>2
<1>2. CASE Mkdir(c)
  <2>1. Moves(c, "record", volCall[c].name)
    BY <1>2, GotoMoves DEF Mkdir, Labels
  <2> QED BY <1>2, <2>1, <1>t, <1>u DEF Mkdir, Moves
<1>3. CASE Record(c)
  <2>1. Moves(c, "done", volCall[c].name)
    BY <1>3, GotoMoves DEF Record, Labels
  <2> QED BY <1>3, <2>1, <1>t, <1>u DEF Record, Moves
<1>4. CASE RemoveLocked(c)
  <2>1. CASE volCall[c].name \in volumes
    <3>1. Moves(c, "unrecord", volCall[c].name)
      BY <1>4, <2>1, GotoMoves DEF RemoveLocked, Labels
    <3> QED BY <1>4, <2>1, <3>1, <1>t, <1>u DEF RemoveLocked, Moves
  <2>2. CASE volCall[c].name \notin volumes
    <3>1. PICK label \in {"next", "done", "failed"} : Moves(c, label, volCall[c].name)
      BY <1>4, <2>2, EndMoves DEF RemoveLocked
    <3> QED BY <1>4, <2>2, <3>1, <1>t, <1>u DEF RemoveLocked, Moves
  <2> QED BY <2>1, <2>2
<1>5. CASE Unrecord(c)
  <2>1. Moves(c, "rmdir", volCall[c].name)
    BY <1>5, GotoMoves DEF Unrecord, Labels
  <2> QED BY <1>5, <2>1, <1>t, <1>u DEF Unrecord, Moves
<1>6. CASE Rmdir(c) \/ RmdirFails(c)
  <2>1. PICK label \in {"next", "done", "failed"} : Moves(c, label, volCall[c].name)
    BY <1>6, EndMoves DEF Rmdir, RmdirFails
  <2>2. CASE Rmdir(c)
    BY <2>2, <2>1, <1>t, <1>u DEF Rmdir, Moves
  <2>3. CASE RmdirFails(c)
    BY <2>3, <2>1, <1>t, <1>u DEF RmdirFails, Moves
  <2> QED BY <1>6, <2>2, <2>3
<1>7. CASE PruneList(c)
  <2>1. Pruning("next", "", volumes \ volCall[c].todo) \in CallType
    BY <1>t DEF Pruning, CallType, Labels
  <2>2. Moves(c, "next", "")
    BY <1>7, <2>1, SetMoves DEF PruneList, Pruning
  <2> QED BY <1>7, <2>2, <1>t, <1>u DEF PruneList, Moves
<1>8. CASE PruneNext(c)
  <2>1. CASE volCall[c].todo = {}
    <3>1. Moves(c, "done", volCall[c].name)
      BY <1>8, <2>1, GotoMoves DEF PruneNext, Labels
    <3> QED BY <1>8, <3>1, <1>t, <1>u DEF PruneNext, Moves
  <2>2. CASE volCall[c].todo # {}
    <3>1. PICK n \in volCall[c].todo :
            volCall' = [volCall EXCEPT ![c] = Pruning("remove", n, volCall[c].todo \ {n})]
      BY <1>8, <2>2 DEF PruneNext
    <3>2. volCall[c].todo \subseteq AllNames
      BY DEF VolumesTypeOK
    <3>3. Pruning("remove", n, volCall[c].todo \ {n}) \in CallType
      BY <3>2 DEF Pruning, CallType, Labels
    <3>4. Moves(c, "remove", n)
      BY <3>1, <3>3, SetMoves DEF Pruning
    <3> QED BY <1>8, <3>4, <1>t, <1>u DEF PruneNext, Moves
  <2> QED BY <2>1, <2>2
<1>9. CASE CreateFails(c)
  <2>1. Moves(c, "failed", volCall[c].name)
    BY <1>9, GotoMoves DEF CreateFails, Labels
  <2> QED BY <1>9, <2>1, <1>t, <1>u DEF CreateFails, Moves
<1>10. CASE UnrecordFails(c)
  <2>1. PICK label \in {"next", "done", "failed"} : Moves(c, label, volCall[c].name)
    BY <1>10, EndMoves DEF UnrecordFails
  <2> QED BY <1>10, <2>1, <1>t, <1>u DEF UnrecordFails, Moves
<1>11. CASE Return(c)
  <2>1. Moves(c, "idle", "")
    <3>1. NoCall \in CallType /\ NoCall.pc = "idle" /\ NoCall.name = ""
      BY DEF NoCall, CallType, Labels
    <3> QED BY <1>11, <3>1, SetMoves DEF Return
  <2> QED BY <1>11, <2>1, <1>t, <1>u DEF Return, Moves
<1> QED
  BY <1>1, <1>2, <1>3, <1>4, <1>5, <1>6, <1>7, <1>8, <1>9, <1>10, <1>11 DEF VolumeStep, VolumeFault

\* A call starts: its label is one at which nothing is held.
LEMMA CallStarts ==
  ASSUME NEW c \in Callers, NEW n \in AllNames, VolumesInv,
         EnsureVolume(c, n) \/ CreateVolume(c, n) \/ RemoveVolume(c, n)
  PROVE  VolumesInv'
<1> DEFINE Call(label) == [pc |-> label, name |-> n, todo |-> {}, pruning |-> FALSE]
<1>1. PICK label \in {"create", "done", "remove"} : volCall' = [volCall EXCEPT ![c] = Call(label)]
  BY DEF EnsureVolume, CreateVolume, RemoveVolume, NoCall
<1>2. Call(label) \in CallType
  BY DEF CallType, Labels, AllNames
<1>3. Moves(c, label, n)
  BY <1>1, <1>2, SetMoves DEF VolumesInv
<1>4. UNCHANGED <<volumes, dirs, mu>> /\ minted' \subseteq AnonymousNames
  BY DEF EnsureVolume, CreateVolume, RemoveVolume, VolumesInv, VolumesTypeOK
<1>5. VolumesTypeOK'
  BY <1>3, <1>4 DEF Moves, VolumesInv, VolumesTypeOK, CallType
<1> QED
  BY <1>3, <1>4, <1>5 DEF Moves, VolumesInv, LockHeld, DirFirst, RecordFirst, Named, VolumeHasDir, Inside

LEMMA PruneStarts ==
  ASSUME NEW c \in Callers, NEW refs \in SUBSET AllNames, VolumesInv, PruneVolumes(c, refs)
  PROVE  VolumesInv'
<1>1. Pruning("list", "", refs) \in CallType
  BY DEF Pruning, CallType, Labels, AllNames
<1>2. Moves(c, "list", "")
  BY <1>1, SetMoves DEF PruneVolumes, Pruning, VolumesInv
<1>3. VolumesTypeOK'
  BY <1>2 DEF PruneVolumes, Moves, VolumesInv, VolumesTypeOK, CallType
<1> QED
  BY <1>2, <1>3 DEF PruneVolumes, Moves, VolumesInv, LockHeld, DirFirst, RecordFirst, Named, VolumeHasDir, Inside

LEMMA NextInv == VolumesInv /\ [VolumesNext]_volVars => VolumesInv'
<1> SUFFICES ASSUME VolumesInv, [VolumesNext]_volVars PROVE VolumesInv'
  OBVIOUS
<1>1. CASE VolumesCrash
  <2>1. NoCall \in CallType /\ NoCall.pc = "idle"
    BY DEF NoCall, CallType, Labels
  <2>2. volCall' \in [Callers -> CallType] /\ \A c \in Callers : volCall'[c].pc = "idle"
    BY <1>1, <2>1 DEF VolumesCrash
  <2>3. VolumesTypeOK'
    BY <1>1, <2>2 DEF VolumesCrash, VolumesInv, VolumesTypeOK, CallType
  <2> QED
    BY <1>1, <2>2, <2>3 DEF VolumesCrash, VolumesInv, LockHeld, DirFirst, RecordFirst, Named, VolumeHasDir, Inside
<1>2. CASE UNCHANGED volVars
  BY <1>2 DEF volVars, VolumesInv, VolumesTypeOK, LockHeld, DirFirst, RecordFirst, Named, VolumeHasDir
<1>3. ASSUME NEW c \in Callers, VolumeStep(c) \/ VolumeFault(c) \/ Return(c) PROVE VolumesInv'
  BY <1>3, CallerStep
<1>4. ASSUME NEW c \in Callers, NEW n \in AllNames, EnsureVolume(c, n) \/ CreateVolume(c, n) \/ RemoveVolume(c, n)
      PROVE  VolumesInv'
  BY <1>4, CallStarts
<1>5. ASSUME NEW c \in Callers, NEW refs \in SUBSET AllNames, PruneVolumes(c, refs) PROVE VolumesInv'
  BY <1>5, PruneStarts
<1> QED
  BY <1>1, <1>2, <1>3, <1>4, <1>5 DEF VolumesNext, AllNames

\* A volume the store knows has its directory, in every state of the volume
\* manager (Create makes the directory first, Remove takes the record first,
\* both under the lock).
THEOREM VolumesHaveDirs == VolumesSpec => []VolumeHasDir
<1>1. VolumesInv => VolumeHasDir
  BY DEF VolumesInv
<1> QED
  BY VolumesInitInv, NextInv, <1>1, PTL DEF VolumesSpec

\* The variables of the volume manager keep their types.
THEOREM VolumesTypes == VolumesSpec => []VolumesTypeOK
<1>1. VolumesInv => VolumesTypeOK
  BY DEF VolumesInv
<1> QED
  BY VolumesInitInv, NextInv, <1>1, PTL DEF VolumesSpec
=============================================================================
