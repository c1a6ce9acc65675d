------------------------------- MODULE Catalog -------------------------------
(***************************************************************************)
(* What the daemon keeps of containers, images and volumes, and the        *)
(* requests that create and remove them beside each other:                 *)
(* runtime.Manager.Create and Remove (internal/runtime/container.go), the  *)
(* container store (internal/store/container.go), and the volume manager   *)
(* and the image store in modules of their own.                            *)
(*                                                                         *)
(* Processes, crun and networks are ContainerLifecycle's; a container here *)
(* is created, running or exited and is not started or stopped.  A step    *)
(* that undoes another is taken to succeed; a step that does not, may      *)
(* fail.                                                                   *)
(***************************************************************************)
EXTENDS Volumes, Images, Mounts, Functions

CONSTANTS
  Setups,      \* which request each caller makes: functions on Callers
  World,       \* [records, images, volumes] before the requests
  Generated,   \* names generateName can return
  Prefix,      \* Prefix[r]: the ids that begin with r, for a shortened id r
  MaxFaults    \* bound: steps that fail

\* generateID's ids are new ones; the images of the world are of the store.
ASSUME WorldAssumption ==
  /\ DOMAIN World.records \cap Callers = {}
  /\ \A i \in DOMAIN World.records : DOMAIN World.records[i] = {"name", "image", "status", "binds", "mounts"}
  /\ DOMAIN World.images = ImageIds
  /\ \A i \in ImageIds : DOMAIN World.images[i] = {"present", "names", "data", "config"}

\* Binds, mounts, the parts of a bind and its options are finite lists (Go slices).
IsBind(b) == Len(b) \in Nat /\ (Len(b) > 2 => b[3] \in Seq(ToSet(b[3])))
AreBinds(binds) == binds \in Seq(ToSet(binds)) /\ \A i \in DOMAIN binds : IsBind(binds[i])

ASSUME BindsAssumption ==
  /\ \A i \in DOMAIN World.records : AreBinds(World.records[i].binds)
  /\ \A s \in Setups, w \in Callers : s[w].op = "create" =>
       AreBinds(s[w].binds) /\ s[w].mounts \in Seq(ToSet(s[w].mounts))

\* A named source is a name of a volume, and so is what a container mounts or a
\* request is to remove.
ASSUME NamesAssumption ==
  /\ NamedSources \subseteq VolumeNames
  /\ \A i \in DOMAIN World.records : \A d \in DOMAIN World.records[i].mounts :
       World.records[i].mounts[d].name \in {""} \cup VolumeNames \cup AnonymousNames
  /\ \A s \in Setups, w \in Callers :
       s[w].op = "volume rm" => s[w].ref \in VolumeNames \cup AnonymousNames

VARIABLES
  setup,      \* one of Setups
  records,    \* bucket containers: id -> [name, image, status, binds, mounts]
  names,      \* bucket container-names: name -> id
  bundles,    \* bucket container-bundles
  storage,    \* containers/storage: id -> [image, mounted]
  bundleDirs, \* directories under bundleRoot
  work,       \* work[w]: [pc, id, name, image, config, binds, asked, seen, from, inherited]
  faults, crashed

conVars == <<records, names, bundles, storage, bundleDirs>>
vars == <<volVars, imgVars, conVars, setup, work, faults, crashed>>

Request(w) == setup[w]
Is(w, label) == work[w].pc = label
Move(w, label) == work' = [work EXCEPT ![w].pc = label]
Put(f, x, y) == [z \in DOMAIN f \cup {x} |-> IF z = x THEN y ELSE f[z]]
Without(f, x) == Restrict(f, DOMAIN f \ {x})
MayFail == faults < MaxFaults /\ faults' = faults + 1

\* generateID: the new container of w goes by w's own name.
Idle(w) == [pc |-> "idle", id |-> w, name |-> "", image |-> "", config |-> [entrypoint |-> <<>>, cmd |-> <<>>],
               binds |-> <<>>, asked |-> <<>>, seen |-> <<>>, from |-> <<>>, inherited |-> {}]
UsedImages == {storage[i].image : i \in DOMAIN storage}
-----------------------------------------------------------------------------
(* store/container.go *)

\* GetContainer: the id, then the name, then an id that begins so, if only one.
Lookup(ref) ==
  IF ref \in DOMAIN records THEN {ref}
  ELSE IF ref \in DOMAIN names /\ names[ref] \in DOMAIN records THEN {names[ref]}
  ELSE LET found == IF ref \in DOMAIN Prefix THEN Prefix[ref] \cap DOMAIN records ELSE {}
       IN  IF Cardinality(found) = 1 THEN found ELSE {}

\* AllVolumeRefs: the named sources of binds and the names in Mounts.
BindRefs == {b[1] : b \in UNION {ToSet(records[i].binds) : i \in DOMAIN records}} \cap NamedSources
MountRefs == UNION {{records[i].mounts[d].name : d \in DOMAIN records[i].mounts} : i \in DOMAIN records}
AllVolumeRefs == BindRefs \cup (MountRefs \ {""})

StoreContainer(id, rec) == records' = Put(records, id, rec) /\ names' = Put(names, rec.name, id)

\* The name goes whoever has it by now.
DeleteContainer(id, name) ==
  records' = Without(records, id) /\ names' = Without(names, name) /\ bundles' = bundles \ {id}
-----------------------------------------------------------------------------
(* Manager.Create *)

\* A name that was free when it was looked up, or, after ten that were not, one
\* that nobody else will draw.
CreateName(w) ==
  /\ Is(w, "create")
  /\ \E n \in IF Request(w).name # "" THEN {Request(w).name} ELSE (Generated \ DOMAIN names) \cup {w} :
       work' = [work EXCEPT ![w].pc = "image", ![w].name = n]
  /\ UNCHANGED <<volVars, imgVars, conVars, faults>>

CreateImage(w) ==
  /\ Is(w, "image")
  /\ \/ \E i \in ResolveAny(Request(w).image) : work' = [work EXCEPT ![w].pc = "config", ![w].image = i]
     \/ ResolveAny(Request(w).image) = {} /\ Move(w, "failed")
  /\ UNCHANGED <<volVars, imgVars, conVars, faults>>

\* The reference is resolved once more, maybe to another image.
CreateConfig(w) ==
  /\ Is(w, "config")
  /\ \/ \E i \in ResolveAny(Request(w).image) :
          Readable(i) /\ work' = [work EXCEPT ![w].pc = "storage", ![w].config = images[i].config]
     \/ (\A i \in ResolveAny(Request(w).image) : ~Readable(i)) /\ Move(w, "failed")
  /\ UNCHANGED <<volVars, imgVars, conVars, faults>>

CreateStorage(w) ==
  /\ Is(w, "storage")
  /\ IF images[work[w].image].present
     THEN /\ storage' = Put(storage, w, [image |-> work[w].image, mounted |-> FALSE])
          /\ Move(w, "mount")
     ELSE Move(w, "failed") /\ UNCHANGED storage
  /\ UNCHANGED <<volVars, imgVars, records, names, bundles, bundleDirs, faults>>

CreateMount(w) ==
  /\ Is(w, "mount")
  /\ storage' = [storage EXCEPT ![w].mounted = TRUE] /\ Move(w, "bundle")
  /\ UNCHANGED <<volVars, imgVars, records, names, bundles, bundleDirs, faults>>

\* The directory with the placeholders in it.
CreateBundle(w) ==
  /\ Is(w, "bundle")
  /\ bundleDirs' = bundleDirs \cup {w}
  /\ work' = [work EXCEPT ![w].pc = "from", ![w].binds = Request(w).binds, ![w].from = Request(w).from]
  /\ UNCHANGED <<volVars, imgVars, records, names, bundles, storage, faults>>

\* inherited: the destinations that the last --volumes-from to have them wants
\* read-only.
CreateVolumesFrom(w) ==
  LET from == work[w].from
      Dests(i) == {Clean(b[2]) : b \in {c \in ToSet(records[i].binds) : Len(c) > 1}} IN
  /\ Is(w, "from")
  /\ IF from = <<>>
     THEN work' = [work EXCEPT ![w].pc = "volumes", ![w].asked = Asked(work[w].binds, Request(w).mounts)]
     ELSE \/ \E i \in Lookup(from[1].name) :
               work' = [work EXCEPT
                 ![w].binds = @ \o VolumesFrom(from[1], records[i].binds), ![w].from = Tail(from),
                 ![w].inherited = IF from[1].mode = "ro" THEN @ \cup Dests(i) ELSE @ \ Dests(i)]
          \/ Lookup(from[1].name) = {} /\ Move(w, "undo")
  /\ UNCHANGED <<volVars, imgVars, conVars, faults>>

See(w, dest, mount, rest) ==
  work' = [work EXCEPT ![w].pc = "volumes", ![w].asked = rest, ![w].seen = Put(@, dest, mount)]

\* buildVolumeMounts, one request after the other; a volume is made sure of.
CreateAsked(w) ==
  LET m == Head(work[w].asked) IN
  /\ Is(w, "volumes") /\ work[w].asked # <<>>
  /\ CASE m.kind = "bad" -> Move(w, "undo") /\ UNCHANGED volVars
       [] m.kind = "volume" ->
            /\ IF m.src = "" THEN \E n \in AnonymousNames : CreateVolume(w, n) ELSE EnsureVolume(w, m.src)
            /\ Move(w, "ensuring")
       [] OTHER -> See(w, m.dest, [name |-> "", rw |-> m.rw], Tail(work[w].asked)) /\ UNCHANGED volVars
  /\ UNCHANGED <<imgVars, conVars, faults>>

\* Config.Volumes come last, in any order (Go's maps).
CreateUncovered(w) ==
  /\ Is(w, "volumes") /\ work[w].asked = <<>>
  /\ \E d \in Uncovered(Request(w).volumes, work[w].seen) :
       work' = [work EXCEPT ![w].asked = <<[kind |-> "volume", src |-> "", dest |-> d, rw |-> TRUE]>>]
  /\ UNCHANGED <<volVars, imgVars, conVars, faults>>

CreateEnsured(w) ==
  LET m == Head(work[w].asked) IN
  /\ Is(w, "ensuring")
  /\ \/ At(w, "done") /\ See(w, m.dest, [name |-> Name(w), rw |-> m.rw], Tail(work[w].asked))
     \/ At(w, "failed") /\ Move(w, "undo")
  /\ Return(w)
  /\ UNCHANGED <<imgVars, conVars, faults>>

\* container:<id>: the other must run.
CreateTarget(w) ==
  /\ Is(w, "volumes") /\ work[w].asked = <<>> /\ Uncovered(Request(w).volumes, work[w].seen) = {}
  /\ IF Request(w).target # "" /\ \A i \in Lookup(Request(w).target) : records[i].status # "running"
     THEN Move(w, "undo") ELSE Move(w, "spec")
  /\ UNCHANGED <<volVars, imgVars, conVars, faults>>

\* BuildArgs: an entrypoint of one's own leaves the image's command out.
Args(req, config) ==
  IF req.entrypoint # <<>> THEN req.entrypoint \o req.cmd
  ELSE config.entrypoint \o (IF req.cmd # <<>> THEN req.cmd ELSE config.cmd)

\* GenerateSpec and config.json.
CreateSpec(w) ==
  /\ Is(w, "spec")
  /\ IF Args(Request(w), work[w].config) = <<>> THEN Move(w, "undo") ELSE Move(w, "record")
  /\ UNCHANGED <<volVars, imgVars, conVars, faults>>

CreateRecord(w) ==
  /\ Is(w, "record")
  /\ IF work[w].name \in DOMAIN names THEN Move(w, "undo") /\ UNCHANGED <<records, names>>
     ELSE /\ StoreContainer(w, [name |-> work[w].name, image |-> work[w].image, status |-> "created",
                                binds |-> work[w].binds, mounts |-> work[w].seen])
          /\ Move(w, "path")
  /\ UNCHANGED <<volVars, imgVars, bundles, storage, bundleDirs, faults>>

CreateBundlePath(w) ==
  /\ Is(w, "path") /\ bundles' = bundles \cup {w} /\ Move(w, "done")
  /\ UNCHANGED <<volVars, imgVars, records, names, storage, bundleDirs, faults>>

\* Any of these can fail; the last has the record to take back first.
CreateFault(w) ==
  /\ work[w].pc \in {"storage", "mount", "bundle", "spec", "record", "path"} /\ MayFail
  /\ Move(w, CASE Is(w, "storage") -> "failed" [] Is(w, "path") -> "unrecord" [] OTHER -> "undo")
  /\ UNCHANGED <<volVars, imgVars, conVars>>

CreateUnrecord(w) ==
  /\ Is(w, "unrecord") /\ DeleteContainer(w, work[w].name) /\ Move(w, "undo")
  /\ UNCHANGED <<volVars, imgVars, storage, bundleDirs, faults>>

\* Mutant: the storage container is left.
CreateUndoDir(w) ==
  /\ Is(w, "undo") /\ bundleDirs' = bundleDirs \ {w} /\ Move(w, "failed")
  /\ UNCHANGED <<volVars, imgVars, records, names, bundles, storage, faults>>

\* RemoveAll, Unmount, DeleteContainer.
CreateUndo(w) ==
  /\ Is(w, "undo")
  /\ bundleDirs' = bundleDirs \ {w} /\ storage' = Without(storage, w) /\ Move(w, "failed")
  /\ UNCHANGED <<volVars, imgVars, records, names, bundles, faults>>
-----------------------------------------------------------------------------
(* Manager.Remove of a container that does not run *)

RemoveGet(w) ==
  /\ Is(w, "remove")
  /\ \/ \E i \in Lookup(Request(w).ref) :
          /\ records[i].status # "running"
          /\ work' = [work EXCEPT ![w].pc = "unmount", ![w].id = i, ![w].name = records[i].name]
     \/ (\A i \in Lookup(Request(w).ref) : records[i].status = "running") /\ Move(w, "failed")
  /\ UNCHANGED <<volVars, imgVars, conVars, faults>>

RemoveStorage(w) ==
  /\ Is(w, "unmount") /\ storage' = Without(storage, work[w].id) /\ Move(w, "rmbundle")
  /\ UNCHANGED <<volVars, imgVars, records, names, bundles, bundleDirs, faults>>

\* Without an entry in container-bundles there is nothing to remove.
RemoveBundle(w) ==
  /\ Is(w, "rmbundle") /\ Move(w, "delete")
  /\ bundleDirs' = IF work[w].id \in bundles THEN bundleDirs \ {work[w].id} ELSE bundleDirs
  /\ UNCHANGED <<volVars, imgVars, records, names, bundles, storage, faults>>

RemoveRecord(w) ==
  /\ Is(w, "delete") /\ DeleteContainer(work[w].id, work[w].name) /\ Move(w, "done")
  /\ UNCHANGED <<volVars, imgVars, storage, bundleDirs, faults>>
-----------------------------------------------------------------------------
(* The requests *)

ContainerRequest(w) ==
  /\ Is(w, "idle") /\ Request(w).op \in {"create", "remove"} /\ Move(w, Request(w).op)
  /\ UNCHANGED <<volVars, imgVars, conVars, faults>>

VolumeRequest(w) ==
  /\ Is(w, "idle")
  /\ \/ Request(w).op = "volume create" /\ CreateVolume(w, Request(w).ref)
     \/ Request(w).op = "volume rm" /\ RemoveVolume(w, Request(w).ref)
     \/ Request(w).op = "volume prune" /\ PruneVolumes(w, AllVolumeRefs)
  /\ Move(w, "asked")
  /\ UNCHANGED <<imgVars, conVars, faults>>

VolumeAnswer(w) ==
  /\ Is(w, "asked") /\ Return(w) /\ Move(w, "done")
  /\ UNCHANGED <<imgVars, conVars, faults>>

ImageOps == [r \in {"image rm", "image tag", "image prune", "image pull"} |->
  CASE r = "image rm" -> "remove" [] r = "image tag" -> "tag" [] r = "image prune" -> "prune" [] OTHER -> "pull"]

ImageRequest(w) ==
  /\ Is(w, "idle") /\ Request(w).op \in DOMAIN ImageOps
  /\ ImgStart(w, ImageOps[Request(w).op], Request(w).image) /\ Move(w, "images")
  /\ UNCHANGED <<volVars, conVars, faults>>

\* ImageCommit reads the container's record before it calls the store.
CommitRequest(w) ==
  /\ Is(w, "idle") /\ Request(w).op = "commit"
  /\ \/ \E i \in Lookup(Request(w).ref) :
          /\ work' = [work EXCEPT ![w].pc = "images", ![w].id = i, ![w].image = records[i].image]
          /\ ImgStart(w, "commit", Request(w).image)
     \/ Lookup(Request(w).ref) = {} /\ Move(w, "failed") /\ UNCHANGED imgVars
  /\ UNCHANGED <<volVars, conVars, faults>>

ImageAnswer(w) ==
  /\ Is(w, "images") /\ ImgAt(w, "over") /\ Move(w, "done")
  /\ UNCHANGED <<volVars, imgVars, conVars, faults>>
-----------------------------------------------------------------------------
(* The specification *)

Init ==
  /\ setup \in Setups /\ records = World.records /\ volumes = World.volumes
  /\ names = [n \in {records[i].name : i \in DOMAIN records} |-> CHOOSE i \in DOMAIN records : records[i].name = n]
  /\ bundles = DOMAIN records /\ bundleDirs = DOMAIN records
  /\ storage = [i \in DOMAIN records |-> [image |-> records[i].image, mounted |-> TRUE]]
  /\ images = World.images /\ imgCall = [w \in Requesters |-> NoImageCall]
  /\ VolumesInit
  /\ work = [w \in Callers |-> Idle(w)] /\ faults = 0 /\ crashed = FALSE

\* The daemon dies; when it is back RecoverOrphans takes away what was created
\* and never started.  Only what is in the store, on disk and in
\* containers/storage is left, and clients come with what they had not asked.
Crash ==
  LET created == {i \in DOMAIN records : records[i].status = "created"} IN
  /\ ~crashed /\ crashed' = TRUE
  /\ storage' = Restrict(storage, DOMAIN storage \ created)
  /\ bundleDirs' = bundleDirs \ (created \cap bundles)
  /\ bundles' = bundles \ created
  /\ names' = Restrict(names, DOMAIN names \ {records[i].name : i \in created})
  /\ records' = [i \in DOMAIN records \ created |-> [records[i] EXCEPT !.status = "exited"]]
  /\ work' = [w \in Callers |-> IF Is(w, "idle") THEN work[w] ELSE [work[w] EXCEPT !.pc = "lost"]]
  /\ VolumesCrash /\ ImagesCrash /\ UNCHANGED <<setup, faults>>

CreateStep(w) ==
  \/ CreateName(w) \/ CreateImage(w) \/ CreateConfig(w) \/ CreateStorage(w) \/ CreateMount(w) \/ CreateBundle(w)
  \/ CreateVolumesFrom(w) \/ CreateAsked(w) \/ CreateUncovered(w) \/ CreateEnsured(w) \/ CreateTarget(w)
  \/ CreateSpec(w) \/ CreateRecord(w) \/ CreateBundlePath(w) \/ CreateUnrecord(w) \/ CreateUndo(w)

RemoveStep(w) == RemoveGet(w) \/ RemoveStorage(w) \/ RemoveBundle(w) \/ RemoveRecord(w)

ImageStep(w) ==
  \/ RemoveResolve(w) \/ RemoveOrUntag(w, UsedImages) \/ TagResolve(w) \/ TagName(w, Request(w).name)
  \/ PruneImages(w) \/ PruneImage(w, UsedImages) \/ PullImage(w)
  \/ CommitCheck(w, work[w].id \in DOMAIN storage, work[w].image) \/ CommitCreate(w) \/ CommitData(w)

Step(w) ==
  /\ \/ ContainerRequest(w) \/ VolumeRequest(w) \/ VolumeAnswer(w) \/ ImageRequest(w) \/ CommitRequest(w) \/ ImageAnswer(w)
     \/ CreateStep(w) \/ RemoveStep(w)
     \/ VolumeStep(w) /\ UNCHANGED <<imgVars, conVars, work, faults>>
     \/ ImageStep(w) /\ UNCHANGED <<volVars, conVars, work, faults>>
  /\ UNCHANGED <<setup, crashed>>

Fault(w) ==
  /\ \/ CreateFault(w)
     \/ MayFail /\ VolumeFault(w) /\ UNCHANGED <<imgVars, conVars, work>>
     \/ MayFail /\ ImageFault(w) /\ UNCHANGED <<volVars, conVars, work>>
  /\ UNCHANGED <<setup, crashed>>

Next == Crash \/ \E w \in Callers : Step(w) \/ Fault(w)

Spec == Init /\ [][Next]_vars

\* Every request goes on while nothing fails; Go's mutex is fair.
FairSpec == Spec /\ \A w \in Callers : WF_vars(Step(w))
-----------------------------------------------------------------------------
(* Properties *)

Over == {"done", "failed", "lost"}
Removing(i) == \E w \in Callers : Request(w).op = "remove" /\ work[w].id = i /\ work[w].pc \in {"unmount", "rmbundle", "delete"}

Whole(i) ==
  /\ i \in DOMAIN storage /\ storage[i].mounted /\ images[storage[i].image].present
  /\ records[i].image = storage[i].image
  /\ i \in bundles /\ i \in bundleDirs

Nowhere(i) ==
  i \notin DOMAIN records \cup DOMAIN storage \cup bundles \cup bundleDirs \cup {names[n] : n \in DOMAIN names}

\* A creation that reports a container has made it whole, down to the image it
\* stands on, which no removal or prune of images takes away, and it stays so
\* until somebody removes it; one that reports an error, at whichever step and
\* beside whatever other request, leaves nothing in the store, the storage or on
\* disk (volumes apart).
AllOrNothing ==
  \A w \in Callers : Request(w).op = "create" =>
    /\ Is(w, "done") /\ w \in DOMAIN records => Removing(w) \/ Whole(w)
    /\ Is(w, "failed") => Nowhere(w)

\* What was asked for with --volumes-from other:ro is mounted read-only,
\* whatever the options of the other's bind are and whatever became of the other
\* since, unless something asked for later has the same destination.
InheritedReadOnly ==
  \A w \in Callers : Request(w).op = "create" /\ Is(w, "record") =>
    \A d \in work[w].inherited :
      (\E m \in ToSet(Request(w).mounts) : Clean(m.target) = d) \/ (d \in DOMAIN work[w].seen /\ ~work[w].seen[d].rw)

\* Every request comes to an end: no step that fails leaves the lock behind.
RequestsEnd == <>(\A w \in Callers : work[w].pc \in Over)

\* "Prune removes volumes not referenced by any container" (manager.go:153): what
\* a container of the store mounts is still there after it.
PruneSparesUsed ==
  [][\A c \in Callers : At(c, "unrecord") /\ volCall[c].pruning /\ Name(c) \in volumes \ volumes' =>
       \A i \in DOMAIN records : \A d \in DOMAIN records[i].mounts : records[i].mounts[d].name # Name(c)]_vars
=============================================================================
