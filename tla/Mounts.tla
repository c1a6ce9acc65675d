-------------------------------- MODULE Mounts --------------------------------
(***************************************************************************)
(* internal/runtime/mounts.go: what the binds, mounts and image volumes of *)
(* a creation request come to.                                             *)
(*                                                                         *)
(* A bind "source:dest[:opts]" is the sequence of its parts, its options a *)
(* sequence too, and a path the sequence of its elements.  Propagation and *)
(* the options of a tmpfs are left out.                                    *)
(***************************************************************************)
EXTENDS Naturals, Sequences, SequencesExt

CONSTANT NamedSources   \* sources that do not begin with "/" or "."

\* filepath.Clean: "/data/", "//data" and "/./data" are one destination.
Clean(path) == SelectSeq(path, LAMBDA e : e \notin {"", "."})

\* The last of ro and rw decides.
ReadWrite(opts) == \A i \in DOMAIN opts : opts[i] = "ro" => \E j \in DOMAIN opts : i < j /\ opts[j] = "rw"

Bad == [kind |-> "bad", src |-> "", dest |-> <<>>, rw |-> FALSE]

ParseBind(bind) ==
  IF Len(bind) < 2 THEN Bad
  ELSE [kind |-> IF bind[1] \in NamedSources THEN "volume" ELSE "host",
        src  |-> bind[1], dest |-> Clean(bind[2]), rw |-> Len(bind) = 2 \/ ReadWrite(bind[3])]

\* m: [type, source, target, readOnly]; a volume without a source is anonymous.
ParseMount(m) ==
  IF m.type \notin {"host", "volume", "tmpfs"} THEN Bad
  ELSE [kind |-> m.type, src |-> m.source, dest |-> Clean(m.target), rw |-> ~m.readOnly]

\* Mutant: ro is put in front of what is there.
ForceReadOnlyFirst(bind) ==
  IF Len(bind) < 2 THEN bind
  ELSE <<bind[1], bind[2], <<"ro">> \o IF Len(bind) = 2 THEN <<>> ELSE bind[3]>>

ForceReadOnly(bind) ==
  CASE Len(bind) < 2 -> bind
    [] Len(bind) = 2 -> <<bind[1], bind[2], <<"ro">> >>
    [] OTHER ->
         LET opts == [i \in DOMAIN bind[3] |-> IF bind[3][i] = "rw" THEN "ro" ELSE bind[3][i]]
         IN  <<bind[1], bind[2], IF "ro" \in ToSet(opts) THEN opts ELSE Append(opts, "ro")>>

\* The binds that one --volumes-from adds: those of the other's HostConfig.
VolumesFrom(from, binds) ==
  [i \in DOMAIN binds |-> IF from.mode = "ro" THEN ForceReadOnly(binds[i]) ELSE binds[i]]

\* What is asked for, in the order in which it is resolved: what comes later
\* replaces what has the same destination.
Asked(binds, mounts) ==
  [i \in DOMAIN binds |-> ParseBind(binds[i])] \o [i \in DOMAIN mounts |-> ParseMount(mounts[i])]

\* Config.Volumes that nothing asked for covers.
Uncovered(paths, seen) == {Clean(p) : p \in paths} \ DOMAIN seen
=============================================================================
