------------------------------- MODULE Volumes -------------------------------
(***************************************************************************)
(* internal/volume/manager.go over internal/store/volume.go: named and     *)
(* anonymous volumes, each a record in the store and a directory on disk.  *)
(*                                                                         *)
(* An action is what happens between two points where another goroutine    *)
(* may run or the daemon may die: one store transaction, one change to the *)
(* disk.  A call to the manager is started by its environment (a handler,  *)
(* the creation of a container) and ends in "done" or "failed".            *)
(***************************************************************************)
EXTENDS FiniteSets

CONSTANTS
  Callers,         \* goroutines that call the manager
  VolumeNames,     \* names users give
  AnonymousNames   \* what randomHex can return

VARIABLES
  volumes,   \* names with a record in the store
  dirs,      \* names with a directory under rootDir
  minted,    \* anonymous names given out so far
  mu,        \* the caller that has Manager.mu, as a set
  volCall    \* volCall[c]: [pc, name, todo, pruning]

volVars == <<volumes, dirs, minted, mu, volCall>>

NoCall == [pc |-> "idle", name |-> "", todo |-> {}, pruning |-> FALSE]

\* A Prune that has the volumes todo still to remove.
Pruning(label, n, todo) == [pc |-> label, name |-> n, todo |-> todo, pruning |-> TRUE]

At(c, label) == volCall[c].pc = label
Name(c) == volCall[c].name
Goto(c, label) == volCall' = [volCall EXCEPT ![c].pc = label]
\* Prune goes on whatever the removal of one volume came to.
End(c, how) == Goto(c, IF volCall[c].pruning THEN "next" ELSE how)
-----------------------------------------------------------------------------
VolumesInit ==
  /\ volumes \subseteq VolumeNames \cup AnonymousNames
  /\ dirs = volumes /\ minted = volumes \cap AnonymousNames
  /\ mu = {} /\ volCall = [c \in Callers |-> NoCall]

\* A volume that is there is returned without the lock.
EnsureVolume(c, n) ==
  /\ At(c, "idle") /\ n \in VolumeNames
  /\ volCall' = [volCall EXCEPT ![c] = [NoCall EXCEPT !.pc = IF n \in volumes THEN "done" ELSE "create", !.name = n]]
  /\ UNCHANGED <<volumes, dirs, minted, mu>>

\* No name stands for a new one.
CreateVolume(c, n) ==
  /\ At(c, "idle") /\ n \in VolumeNames \cup (AnonymousNames \ minted)
  /\ minted' = minted \cup ({n} \cap AnonymousNames)
  /\ volCall' = [volCall EXCEPT ![c] = [NoCall EXCEPT !.pc = "create", !.name = n]]
  /\ UNCHANGED <<volumes, dirs, mu>>

\* Mutant: a creation does not take the lock.
CreateUnlocked(c) ==
  /\ At(c, "create")
  /\ IF Name(c) \in volumes THEN Goto(c, "done") ELSE Goto(c, "mkdir")
  /\ UNCHANGED <<volumes, dirs, minted, mu>>

CreateLocked(c) ==
  /\ At(c, "create") /\ mu = {}
  /\ IF Name(c) \in volumes THEN Goto(c, "done") /\ UNCHANGED mu
                            ELSE Goto(c, "mkdir") /\ mu' = {c}
  /\ UNCHANGED <<volumes, dirs, minted>>

Mkdir(c) ==
  /\ At(c, "mkdir") /\ dirs' = dirs \cup {Name(c)} /\ Goto(c, "record")
  /\ UNCHANGED <<volumes, minted, mu>>

Record(c) ==
  /\ At(c, "record") /\ volumes' = volumes \cup {Name(c)} /\ Goto(c, "done") /\ mu' = {}
  /\ UNCHANGED <<dirs, minted>>

\* Mutant: the lock is given back on success only.
CreateFailsHeld(c) ==
  /\ At(c, "mkdir") \/ At(c, "record")
  /\ Goto(c, "failed")
  /\ UNCHANGED <<volumes, dirs, minted, mu>>

CreateFails(c) ==
  /\ At(c, "mkdir") \/ At(c, "record")
  /\ Goto(c, "failed") /\ mu' = {}
  /\ UNCHANGED <<volumes, dirs, minted>>

RemoveVolume(c, n) ==
  /\ At(c, "idle")
  /\ volCall' = [volCall EXCEPT ![c] = [NoCall EXCEPT !.pc = "remove", !.name = n]]
  /\ UNCHANGED <<volumes, dirs, minted, mu>>

RemoveLocked(c) ==
  /\ At(c, "remove") /\ mu = {}
  /\ IF Name(c) \in volumes THEN Goto(c, "unrecord") /\ mu' = {c}
                            ELSE End(c, "failed") /\ UNCHANGED mu
  /\ UNCHANGED <<volumes, dirs, minted>>

Unrecord(c) ==
  /\ At(c, "unrecord") /\ volumes' = volumes \ {Name(c)} /\ Goto(c, "rmdir")
  /\ UNCHANGED <<dirs, minted, mu>>

UnrecordFails(c) ==
  /\ At(c, "unrecord") /\ End(c, "failed") /\ mu' = {}
  /\ UNCHANGED <<volumes, dirs, minted>>

Rmdir(c) ==
  /\ At(c, "rmdir") /\ dirs' = dirs \ {Name(c)} /\ End(c, "done") /\ mu' = {}
  /\ UNCHANGED <<volumes, minted>>

\* "Best-effort cleanup of data directory."
RmdirFails(c) ==
  /\ At(c, "rmdir") /\ End(c, "done") /\ mu' = {}
  /\ UNCHANGED <<volumes, dirs, minted>>

\* refs is what AllVolumeRefs returned, in a transaction of its own.
PruneVolumes(c, refs) ==
  /\ At(c, "idle")
  /\ volCall' = [volCall EXCEPT ![c] = Pruning("list", "", refs)]
  /\ UNCHANGED <<volumes, dirs, minted, mu>>

PruneList(c) ==
  /\ At(c, "list")
  /\ volCall' = [volCall EXCEPT ![c] = Pruning("next", "", volumes \ volCall[c].todo)]
  /\ UNCHANGED <<volumes, dirs, minted, mu>>

PruneNext(c) ==
  /\ At(c, "next")
  /\ IF volCall[c].todo = {}
     THEN Goto(c, "done")
     ELSE \E n \in volCall[c].todo :
            volCall' = [volCall EXCEPT ![c] = Pruning("remove", n, volCall[c].todo \ {n})]
  /\ UNCHANGED <<volumes, dirs, minted, mu>>

Return(c) ==
  /\ At(c, "done") \/ At(c, "failed")
  /\ volCall' = [volCall EXCEPT ![c] = NoCall]
  /\ UNCHANGED <<volumes, dirs, minted, mu>>

\* What is in the store and on the disk stays.
VolumesCrash ==
  /\ mu' = {} /\ volCall' = [c \in Callers |-> NoCall]
  /\ UNCHANGED <<volumes, dirs, minted>>

\* A call that is under way.
VolumeStep(c) ==
  CreateLocked(c) \/ Mkdir(c) \/ Record(c) \/ RemoveLocked(c) \/ Unrecord(c) \/ Rmdir(c) \/ PruneList(c) \/ PruneNext(c)

VolumeFault(c) == CreateFails(c) \/ UnrecordFails(c) \/ RmdirFails(c)

VolumesNext ==
  \/ \E c \in Callers :
       \/ \E n \in VolumeNames \cup AnonymousNames : EnsureVolume(c, n) \/ CreateVolume(c, n) \/ RemoveVolume(c, n)
       \/ \E refs \in SUBSET (VolumeNames \cup AnonymousNames) : PruneVolumes(c, refs)
       \/ VolumeStep(c) \/ VolumeFault(c) \/ Return(c)
  \/ VolumesCrash

VolumesSpec == VolumesInit /\ [][VolumesNext]_volVars
-----------------------------------------------------------------------------
(* Properties *)

Labels == {"idle", "create", "mkdir", "record", "remove", "unrecord", "rmdir", "list", "next", "done", "failed"}

VolumesTypeOK ==
  /\ volumes \subseteq VolumeNames \cup AnonymousNames
  /\ dirs \subseteq VolumeNames \cup AnonymousNames
  /\ minted \subseteq AnonymousNames /\ mu \subseteq Callers
  /\ volCall \in [Callers -> [pc : Labels, name : {""} \cup VolumeNames \cup AnonymousNames,
                              todo : SUBSET (VolumeNames \cup AnonymousNames), pruning : BOOLEAN]]

\* Whatever calls race and wherever the daemon dies or a step fails, a volume
\* that GetVolume returns has its directory: crun can mount it.
VolumeHasDir == volumes \subseteq dirs
=============================================================================
