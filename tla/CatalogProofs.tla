---------------------------- MODULE CatalogProofs ----------------------------
(***************************************************************************)
(* For any number of requests of every kind that race, whatever steps fail *)
(* and wherever the daemon dies: a creation makes a container whole or     *)
(* leaves nothing, what happens to volumes is what the volume manager      *)
(* allows, and what is inherited read-only stays so.                       *)
(***************************************************************************)
EXTENDS Catalog, VolumesProofs, SequenceTheorems, TLAPS

Creator(w) == Request(w).op = "create"

\* The labels of a creation, by what it has made so far.
Nothing == {"idle", "create", "image", "config", "storage", "failed"}
Late == {"from", "volumes", "ensuring", "spec", "record"}
Mounted == {"bundle"} \cup Late
Stored == {"mount"} \cup Mounted
Recorded == {"path", "unrecord", "done", "lost"}
RemoveLabels == {"unmount", "rmbundle", "delete"}

WorkFields == {"pc", "id", "name", "image", "config", "binds", "asked", "seen", "from", "inherited"}
ImageFields == {"present", "names", "data", "config"}

Shape ==
  /\ DOMAIN work = Callers /\ \A w \in Callers : DOMAIN work[w] = WorkFields
  /\ DOMAIN images = ImageIds /\ \A i \in ImageIds : DOMAIN images[i] = ImageFields
  /\ \A w \in Callers \cap DOMAIN storage : DOMAIN storage[w] = {"image", "mounted"}

\* Who creates is at the labels of a creation, and who does not is never.
Roles ==
  \A w \in Callers :
    /\ Creator(w) => work[w].pc \in Nothing \cup Stored \cup Recorded \cup {"undo"}
    /\ work[w].pc \in Stored \cup {"create", "image", "config", "storage", "path", "unrecord", "undo"} => Creator(w)
    /\ work[w].pc \in RemoveLabels \cup {"remove"} => Request(w).op = "remove"

\* A removal has only what was in the store when it looked.
Targets ==
  \A v, w \in Callers :
    work[v].pc \in RemoveLabels /\ work[v].id = w /\ Creator(w) => work[w].pc \in Recorded \cup {"undo", "failed"}

\* A container made here has no name but the one its creation drew.
NamesOwn ==
  \A w \in Callers : Creator(w) => \A n \in DOMAIN names : names[n] = w => n = work[w].name

\* What a container stands on is there.
StoredImages ==
  \A w \in Callers \cap DOMAIN storage : storage[w].image \in ImageIds /\ images[storage[w].image].present

Absent(w) == w \notin DOMAIN records /\ w \notin bundles /\ \A n \in DOMAIN names : names[n] # w

Kept(w) ==
  /\ w \in DOMAIN storage /\ storage[w].mounted /\ records[w].image = storage[w].image
  /\ w \in bundleDirs /\ (work[w].pc = "done" => w \in bundles)

\* What there is of a container, by how far its creation is.
Placed(w) ==
  /\ work[w].pc \in {"config", "storage"} => work[w].image \in ImageIds
  /\ work[w].pc \in Nothing => Nowhere(w)
  /\ work[w].pc \in Stored \cup {"undo"} => Absent(w)
  /\ work[w].pc \in Stored => w \in DOMAIN storage /\ storage[w].image = work[w].image
  /\ work[w].pc \in Mounted => storage[w].mounted
  /\ work[w].pc \in Late => w \in bundleDirs
  /\ work[w].pc \in {"path", "done"} /\ w \in DOMAIN records => Removing(w) \/ Kept(w)

AllPlaced == \A w \in Callers : Creator(w) => Placed(w)

CatalogInv == Shape /\ Roles /\ Targets /\ NamesOwn /\ StoredImages /\ AllPlaced

\* What other requests see of one turn of a: the others' work is as it was.
Turn(a) ==
  /\ setup' = setup
  /\ DOMAIN work' = Callers /\ \A v \in Callers : DOMAIN work'[v] = WorkFields
  /\ \A v \in Callers \ {a} : work'[v] = work[v]

Keeping(a) == work'[a].id = work[a].id /\ work'[a].name = work[a].name /\ work'[a].image = work[a].image

\* Nothing of the container w is new, and nothing of it has changed.
Less(w) ==
  /\ w \in DOMAIN records' => w \in DOMAIN records /\ records'[w] = records[w]
  /\ w \in DOMAIN storage' => w \in DOMAIN storage /\ storage'[w] = storage[w]
  /\ w \in bundles' => w \in bundles
  /\ w \in bundleDirs' => w \in bundleDirs
  /\ \A n \in DOMAIN names' : names'[n] = w => n \in DOMAIN names /\ names[n] = w

SameFor(w) ==
  /\ Less(w)
  /\ w \in DOMAIN storage => w \in DOMAIN storage'
  /\ w \in bundles => w \in bundles'
  /\ w \in bundleDirs => w \in bundleDirs'

Targeted == Recorded \cup {"undo", "failed"}
CreatorLabels == Nothing \cup Stored \cup Recorded \cup {"undo"}
CreatorsOnly == Stored \cup {"create", "image", "config", "storage", "path", "unrecord", "undo"}
-----------------------------------------------------------------------------
(* Labels *)

LEMMA MoveTurn ==
  ASSUME NEW a \in Callers, NEW label, Shape, setup' = setup, Move(a, label)
  PROVE  Turn(a) /\ Keeping(a) /\ work'[a].pc = label
BY DEF Shape, Move, Turn, Keeping, WorkFields

\* What is still being removed is, as long as whoever removes it goes on.
LEMMA StillRemoving ==
  ASSUME NEW a \in Callers, NEW w, Turn(a), Removing(w),
         Request(a).op = "remove" /\ work[a].id = w /\ work[a].pc \in RemoveLabels =>
           work'[a].id = w /\ work'[a].pc \in RemoveLabels
  PROVE  Removing(w)'
<1>1. PICK v \in Callers : Request(v).op = "remove" /\ work[v].id = w /\ work[v].pc \in RemoveLabels
  BY DEF Removing, RemoveLabels
<1>2. Request(v)' = Request(v)
  BY DEF Turn, Request
<1>3. work'[v].id = w /\ work'[v].pc \in RemoveLabels
  BY <1>1 DEF Turn
<1> QED
  BY <1>1, <1>2, <1>3 DEF Removing, RemoveLabels

\* A creation that has nothing of it touched is where it was.
LEMMA SamePlaced ==
  ASSUME NEW w \in Callers, Placed(w), SameFor(w), work'[w] = work[w], Removing(w) => Removing(w)'
  PROVE  Placed(w)'
<1>1. Nowhere(w) => Nowhere(w)'
  BY DEF Nowhere, SameFor, Less
<1>2. Absent(w) => Absent(w)'
  BY DEF Absent, SameFor, Less
<1>3. Kept(w) /\ w \in DOMAIN records' => Kept(w)'
  BY DEF Kept, SameFor, Less
<1>4. w \in DOMAIN storage => w \in DOMAIN storage' /\ storage'[w] = storage[w]
  BY DEF SameFor, Less
<1>5. (w \in DOMAIN records' => w \in DOMAIN records) /\ (w \in bundleDirs => w \in bundleDirs')
  BY DEF SameFor, Less
<1>6. work[w].pc \in Mounted => work[w].pc \in Stored
  BY DEF Stored
<1> QED
  BY <1>1, <1>2, <1>3, <1>4, <1>5, <1>6 DEF Placed

\* What a removal takes away is not missed.
LEMMA TakenPlaced ==
  ASSUME NEW w \in Callers, Placed(w), Less(w), work'[w] = work[w], work[w].pc \in Targeted,
         w \in DOMAIN records' => Removing(w)'
  PROVE  Placed(w)'
<1>1. Nowhere(w) => Nowhere(w)'
  BY DEF Nowhere, Less
<1>2. Absent(w) => Absent(w)'
  BY DEF Absent, Less
<1>3. work[w].pc \notin Stored \cup {"config", "storage"}
  BY DEF Targeted, Recorded, Stored, Mounted, Late
<1>4. work[w].pc \notin Mounted \cup Late
  BY <1>3 DEF Stored, Mounted
<1> QED
  BY <1>1, <1>2, <1>3, <1>4 DEF Placed
-----------------------------------------------------------------------------
(* One turn of one request *)

LEMMA CreatorTurn ==
  ASSUME CatalogInv, NEW a \in Callers, Creator(a), Turn(a), images' = images,
         \A w \in Callers \ {a} : SameFor(w),
         work'[a].pc \in CreatorLabels,
         work[a].pc \in Targeted => work'[a].pc \in Targeted,
         a \in DOMAIN storage' =>
           DOMAIN storage'[a] = {"image", "mounted"} /\ storage'[a].image \in ImageIds /\ images[storage'[a].image].present,
         \A n \in DOMAIN names' : names'[n] = a => n = work'[a].name,
         Placed(a)'
  PROVE  CatalogInv'
<1>1. \A w \in Callers : Creator(w)' <=> Creator(w)
  BY DEF Turn, Creator, Request
<1>2. Shape'
  BY DEF CatalogInv, Shape, Turn, SameFor, Less
<1>3. work'[a].pc \notin RemoveLabels \cup {"remove"}
  BY DEF CreatorLabels, RemoveLabels, Nothing, Stored, Mounted, Late, Recorded
<1>4. Roles'
  <2> SUFFICES ASSUME NEW w \in Callers
               PROVE  /\ Creator(w) => work'[w].pc \in CreatorLabels
                      /\ work'[w].pc \in CreatorsOnly => Creator(w)
                      /\ work'[w].pc \in RemoveLabels \cup {"remove"} => Request(w).op = "remove"
    BY <1>1 DEF Roles, CreatorLabels, CreatorsOnly, Turn, Request
  <2>1. CASE w = a
    BY <1>3, <2>1
  <2>2. CASE w # a
    BY <2>2 DEF CatalogInv, Roles, Turn, CreatorLabels, CreatorsOnly
  <2> QED
    BY <2>1, <2>2
<1>5. Targets'
  <2> SUFFICES ASSUME NEW v \in Callers, NEW w \in Callers, work'[v].pc \in RemoveLabels, work'[v].id = w, Creator(w)
               PROVE  work'[w].pc \in Targeted
    BY <1>1 DEF Targets, Targeted
  <2>1. v # a /\ work'[v] = work[v]
    BY <1>3 DEF Turn
  <2>2. work[w].pc \in Targeted
    BY <2>1 DEF CatalogInv, Targets, Targeted
  <2> QED
    BY <2>2 DEF Turn
<1>6. NamesOwn'
  <2> SUFFICES ASSUME NEW w \in Callers, Creator(w), NEW n \in DOMAIN names', names'[n] = w
               PROVE  n = work'[w].name
    BY <1>1 DEF NamesOwn
  <2>1. CASE w # a
    BY <2>1 DEF CatalogInv, NamesOwn, Turn, SameFor, Less
  <2> QED
    BY <2>1
<1>7. StoredImages'
  BY DEF CatalogInv, StoredImages, SameFor, Less
<1>8. AllPlaced'
  <2> SUFFICES ASSUME NEW w \in Callers, Creator(w), w # a
               PROVE  Placed(w)'
    BY <1>1 DEF AllPlaced
  <2>1. Removing(w) => Removing(w)'
    BY StillRemoving DEF Creator
  <2> QED
    BY <2>1, SamePlaced DEF CatalogInv, AllPlaced, Turn
<1> QED
  BY <1>2, <1>4, <1>5, <1>6, <1>7, <1>8 DEF CatalogInv

LEMMA OtherTurn ==
  ASSUME CatalogInv, NEW a \in Callers, ~Creator(a), Turn(a), images' = images,
         work'[a].pc \notin CreatorsOnly,
         work'[a].pc \in RemoveLabels \cup {"remove"} => Request(a).op = "remove",
         \A w \in Callers : Less(w),
         \A w \in Callers : Creator(w) /\ work'[a].pc \in RemoveLabels /\ work'[a].id = w => work[w].pc \in Targeted,
         \A w \in Callers : Creator(w) => Placed(w)'
  PROVE  CatalogInv'
<1>1. \A w \in Callers : Creator(w)' <=> Creator(w)
  BY DEF Turn, Creator, Request
<1>2. Shape'
  BY DEF CatalogInv, Shape, Turn, Less
<1>4. Roles'
  <2> SUFFICES ASSUME NEW w \in Callers
               PROVE  /\ Creator(w) => work'[w].pc \in CreatorLabels
                      /\ work'[w].pc \in CreatorsOnly => Creator(w)
                      /\ work'[w].pc \in RemoveLabels \cup {"remove"} => Request(w).op = "remove"
    BY <1>1 DEF Roles, CreatorLabels, CreatorsOnly, Turn, Request
  <2>2. CASE w # a
    BY <2>2 DEF CatalogInv, Roles, Turn, CreatorLabels, CreatorsOnly
  <2> QED
    BY <2>2
<1>5. Targets'
  <2> SUFFICES ASSUME NEW v \in Callers, NEW w \in Callers, work'[v].pc \in RemoveLabels, work'[v].id = w, Creator(w)
               PROVE  work'[w].pc \in Targeted
    BY <1>1 DEF Targets, Targeted
  <2>1. work[w].pc \in Targeted
    BY DEF CatalogInv, Targets, Targeted, Turn
  <2> QED
    BY <2>1 DEF Turn
<1>6. NamesOwn'
  BY <1>1 DEF CatalogInv, NamesOwn, Turn, Less
<1>7. StoredImages'
  BY DEF CatalogInv, StoredImages, Less
<1>8. AllPlaced'
  BY <1>1 DEF AllPlaced
<1> QED
  BY <1>2, <1>4, <1>5, <1>6, <1>7, <1>8 DEF CatalogInv

-----------------------------------------------------------------------------
(* Turns that make and take nothing *)

LEMMA SameForAll == ASSUME UNCHANGED conVars PROVE \A w : SameFor(w)
BY DEF conVars, SameFor, Less

\* Before the storage container there is nothing to have in mind.
LEMMA EarlyTurn ==
  ASSUME CatalogInv, NEW a \in Callers, Creator(a), Turn(a), UNCHANGED <<conVars, images>>,
         work[a].pc \in Nothing \ {"failed"}, work'[a].pc \in Nothing,
         work'[a].pc \in {"config", "storage"} => work'[a].image \in ImageIds
  PROVE  CatalogInv'
<1>1. Nowhere(a) /\ Nowhere(a)'
  BY DEF CatalogInv, AllPlaced, Placed, Nowhere, conVars
<1>2. work'[a].pc \notin Stored \cup {"undo", "path", "done"} \cup Mounted \cup Late
  BY DEF Nothing, Stored, Mounted, Late
<1>3. Placed(a)'
  BY <1>1, <1>2 DEF Placed
<1>4. a \notin DOMAIN storage' /\ \A n \in DOMAIN names' : names'[n] # a
  BY <1>1 DEF Nowhere
<1>5. work'[a].pc \in CreatorLabels /\ work[a].pc \notin Targeted
  BY DEF CreatorLabels, Targeted, Nothing, Recorded
<1> QED
  BY <1>3, <1>4, <1>5, SameForAll, CreatorTurn

\* From then on a creation keeps its image and its name, and goes on or undoes.
LEMMA LateTurn ==
  ASSUME CatalogInv, NEW a \in Callers, Creator(a), Turn(a), Keeping(a), UNCHANGED <<conVars, images>>,
         \/ work[a].pc \in Late /\ work'[a].pc \in Late \cup {"undo"}
         \/ work[a].pc \in Stored /\ work'[a].pc = "undo"
         \/ work[a].pc = "path" /\ work'[a].pc = "unrecord"
  PROVE  CatalogInv'
<1>1. work[a].pc \in Stored => Absent(a) /\ Absent(a)' /\ a \in DOMAIN storage /\ storage[a].image = work[a].image
  BY DEF CatalogInv, AllPlaced, Placed, Absent, conVars
<1>2. work[a].pc \in Late => work[a].pc \in Stored \cap Mounted /\ storage[a].mounted /\ a \in bundleDirs
  BY DEF CatalogInv, AllPlaced, Placed, Stored, Mounted
<1>3. work'[a].pc \notin Nothing \cup {"path", "done"}
  BY DEF Nothing, Late
<1>4. Placed(a)'
  <2>1. CASE work[a].pc \in Late /\ work'[a].pc \in Late
    <3>1. work'[a].pc \notin Nothing \cup {"undo", "path", "done"}
      BY <1>3, <2>1 DEF Late
    <3> QED
      BY <1>1, <1>2, <2>1, <3>1 DEF Placed, conVars, Keeping, Nothing
  <2>2. CASE work[a].pc \in Stored /\ work'[a].pc = "undo"
    BY <1>1, <1>3, <2>2 DEF Placed, Stored, Mounted, Late, Nothing
  <2>3. CASE work'[a].pc = "unrecord"
    BY <2>3 DEF Placed, Stored, Mounted, Late, Nothing
  <2> QED
    BY <1>2, <2>1, <2>2, <2>3
<1>5. work'[a].pc \in CreatorLabels
  BY DEF CreatorLabels, Recorded, Stored, Mounted
<1>6. work[a].pc \in Targeted => work'[a].pc \in Targeted
  BY DEF Targeted, Recorded, Stored, Mounted, Late
<1>7. a \in DOMAIN storage' =>
        DOMAIN storage'[a] = {"image", "mounted"} /\ storage'[a].image \in ImageIds /\ images[storage'[a].image].present
  BY DEF CatalogInv, Shape, StoredImages, conVars
<1>8. \A n \in DOMAIN names' : names'[n] = a => n = work'[a].name
  BY DEF CatalogInv, NamesOwn, conVars, Keeping
<1> QED
  BY <1>4, <1>5, <1>6, <1>7, <1>8, SameForAll, CreatorTurn

\* Who does not create has no turn that a creation minds, if it takes nothing.
LEMMA PlainTurn ==
  ASSUME CatalogInv, NEW a \in Callers, ~Creator(a), Turn(a), UNCHANGED <<conVars, images>>,
         work[a].pc \notin RemoveLabels,
         work'[a].pc \notin CreatorsOnly,
         work'[a].pc \in RemoveLabels \cup {"remove"} => Request(a).op = "remove",
         work'[a].pc \in RemoveLabels => work'[a].id \in DOMAIN records
  PROVE  CatalogInv'
<1>1. \A w \in Callers : SameFor(w)
  BY SameForAll
<1>2. ASSUME NEW w \in Callers, Creator(w) PROVE Placed(w)'
  <2>1. Removing(w) => Removing(w)'
    BY StillRemoving
  <2> QED
    BY <1>1, <1>2, <2>1, SamePlaced DEF CatalogInv, AllPlaced, Turn
<1>3. ASSUME NEW w \in Callers, Creator(w), w \in DOMAIN records PROVE work[w].pc \in Targeted
  <2>1. work[w].pc \in CreatorLabels
    BY <1>3 DEF CatalogInv, Roles, CreatorLabels
  <2>2. ~Nowhere(w) /\ ~Absent(w)
    BY <1>3 DEF Nowhere, Absent
  <2> QED
    BY <1>3, <2>1, <2>2 DEF CatalogInv, AllPlaced, Placed, CreatorLabels, Targeted
<1> QED
  BY <1>1, <1>2, <1>3, OtherTurn DEF SameFor
-----------------------------------------------------------------------------
(* The steps of a creation *)

LEMMA CreateEarly ==
  ASSUME CatalogInv, NEW a \in Callers, setup' = setup, CreateName(a) \/ CreateImage(a) \/ CreateConfig(a)
  PROVE  CatalogInv'
<1>1. work[a].pc \in {"create", "image", "config"} /\ Creator(a) /\ UNCHANGED <<conVars, images>>
  BY DEF CatalogInv, Roles, CreateName, CreateImage, CreateConfig, Is, imgVars
<1>2. Shape /\ work[a].pc \in Nothing \ {"failed"}
  BY <1>1 DEF CatalogInv, Nothing
<1>3. ASSUME CreateName(a) PROVE Turn(a) /\ work'[a].pc = "image"
  <2>1. PICK n : work' = [work EXCEPT ![a].pc = "image", ![a].name = n]
    BY <1>3 DEF CreateName
  <2> QED
    BY <1>2, <2>1 DEF Shape, Turn, WorkFields
<1>4. ASSUME CreateImage(a)
      PROVE  Turn(a) /\ (work'[a].pc = "failed" \/ (work'[a].pc = "config" /\ work'[a].image \in ImageIds))
  <2>1. ResolveAny(Request(a).image) \subseteq ImageIds
    BY DEF ResolveAny, Resolve
  <2>2. CASE Move(a, "failed")
    BY <1>2, <2>2, MoveTurn
  <2>3. CASE ~Move(a, "failed")
    <3>1. PICK i \in ImageIds : work' = [work EXCEPT ![a].pc = "config", ![a].image = i]
      BY <1>4, <2>1, <2>3 DEF CreateImage
    <3> QED
      BY <1>2, <3>1 DEF Shape, Turn, WorkFields
  <2> QED
    BY <2>2, <2>3
<1>5. ASSUME CreateConfig(a)
      PROVE  Turn(a) /\ (work'[a].pc = "failed" \/ (work'[a].pc = "storage" /\ work'[a].image \in ImageIds))
  <2>1. work[a].image \in ImageIds
    BY <1>1, <1>5 DEF CatalogInv, AllPlaced, Placed, CreateConfig, Is
  <2>2. CASE Move(a, "failed")
    BY <1>2, <2>2, MoveTurn
  <2>3. CASE ~Move(a, "failed")
    <3>1. PICK i : work' = [work EXCEPT ![a].pc = "storage", ![a].config = images[i].config]
      BY <1>5, <2>3 DEF CreateConfig
    <3> QED
      BY <1>2, <2>1, <3>1 DEF Shape, Turn, WorkFields
  <2> QED
    BY <2>2, <2>3
<1> QED
  BY <1>1, <1>2, <1>3, <1>4, <1>5, EarlyTurn DEF Nothing

LEMMA CreateResolves ==
  ASSUME CatalogInv, NEW a \in Callers, setup' = setup,
         CreateVolumesFrom(a) \/ CreateAsked(a) \/ CreateUncovered(a) \/ CreateEnsured(a) \/ CreateTarget(a) \/ CreateSpec(a)
  PROVE  CatalogInv'
<1>1. work[a].pc \in Late /\ Creator(a) /\ UNCHANGED <<conVars, images>>
  <2>1. work[a].pc \in Late /\ UNCHANGED <<conVars, images>>
    BY DEF CreateVolumesFrom, CreateAsked, CreateUncovered, CreateEnsured, CreateTarget, CreateSpec, Is, Late, imgVars
  <2> QED
    BY <2>1 DEF CatalogInv, Roles, Stored, Mounted
<1>2. Shape
  BY DEF CatalogInv
<1>3. ASSUME NEW d, NEW m, NEW rest, See(a, d, m, rest) PROVE Turn(a) /\ Keeping(a) /\ work'[a].pc = "volumes"
  BY <1>2, <1>3 DEF See, Shape, Turn, Keeping, WorkFields
<1>4. ASSUME NEW label, Move(a, label) PROVE Turn(a) /\ Keeping(a) /\ work'[a].pc = label
  BY <1>2, <1>4, MoveTurn
<1>5. ASSUME CreateVolumesFrom(a) PROVE Turn(a) /\ Keeping(a) /\ work'[a].pc \in Late \cup {"undo"}
  <2>1. CASE work[a].from = <<>>
    <3>1. work' = [work EXCEPT ![a].pc = "volumes", ![a].asked = Asked(work[a].binds, Request(a).mounts)]
      BY <1>5, <2>1 DEF CreateVolumesFrom
    <3> QED
      BY <1>2, <3>1 DEF Shape, Turn, Keeping, WorkFields, Late
  <2>2. CASE Move(a, "undo")
    BY <1>4, <2>2
  <2>3. CASE work[a].from # <<>> /\ ~Move(a, "undo")
    <3>1. PICK binds, dests : work' = [work EXCEPT ![a].binds = binds, ![a].from = Tail(work[a].from), ![a].inherited = dests]
      BY <1>5, <2>3 DEF CreateVolumesFrom
    <3> QED
      BY <1>1, <1>2, <3>1 DEF Shape, Turn, Keeping, WorkFields
  <2> QED
    BY <2>1, <2>2, <2>3
<1>6. ASSUME CreateAsked(a) PROVE Turn(a) /\ Keeping(a) /\ work'[a].pc \in Late \cup {"undo"}
  <2> DEFINE m == Head(work[a].asked)
  <2>1. Move(a, "undo") \/ Move(a, "ensuring") \/ See(a, m.dest, [name |-> "", rw |-> m.rw], Tail(work[a].asked))
    BY <1>6 DEF CreateAsked
  <2> QED
    BY <1>3, <1>4, <2>1 DEF Late
<1>7. ASSUME CreateUncovered(a) PROVE Turn(a) /\ Keeping(a) /\ work'[a].pc \in Late \cup {"undo"}
  BY <1>1, <1>2, <1>7 DEF CreateUncovered, Shape, Turn, Keeping, WorkFields
<1>8. ASSUME CreateEnsured(a) PROVE Turn(a) /\ Keeping(a) /\ work'[a].pc \in Late \cup {"undo"}
  BY <1>3, <1>4, <1>8 DEF CreateEnsured, Late
<1>9. ASSUME CreateTarget(a) \/ CreateSpec(a) PROVE Turn(a) /\ Keeping(a) /\ work'[a].pc \in Late \cup {"undo"}
  BY <1>4, <1>9 DEF CreateTarget, CreateSpec, Late
<1> QED
  BY <1>1, <1>5, <1>6, <1>7, <1>8, <1>9, LateTurn

LEMMA CreateStops ==
  ASSUME CatalogInv, NEW a \in Callers, setup' = setup, CreateFault(a)
  PROVE  CatalogInv'
<1>1. Shape /\ UNCHANGED <<conVars, images>> /\ Turn(a) /\ Keeping(a)
  <2>1. Shape /\ UNCHANGED <<conVars, images>>
    BY DEF CatalogInv, CreateFault, imgVars
  <2>2. PICK label : Move(a, label)
    BY DEF CreateFault
  <2> QED
    BY <2>1, <2>2, MoveTurn
<1>2. Creator(a)
  BY DEF CatalogInv, Roles, CreateFault, Stored, Mounted, Late
<1>3. CASE Is(a, "storage")
  <2>1. work[a].pc = "storage" /\ work'[a].pc = "failed"
    BY <1>1, <1>3, MoveTurn DEF CreateFault, Is, Turn
  <2> QED
    BY <1>1, <1>2, <2>1, EarlyTurn DEF Nothing
<1>4. CASE Is(a, "path")
  <2>1. work[a].pc = "path" /\ work'[a].pc = "unrecord"
    BY <1>1, <1>4, MoveTurn DEF CreateFault, Is, Turn
  <2> QED
    BY <1>1, <1>2, <2>1, LateTurn
<1>5. CASE ~Is(a, "storage") /\ ~Is(a, "path")
  <2>1. work[a].pc \in Stored /\ work'[a].pc = "undo"
    BY <1>1, <1>5, MoveTurn DEF CreateFault, Is, Turn, Stored, Mounted, Late
  <2> QED
    BY <1>1, <1>2, <2>1, LateTurn
<1> QED
  BY <1>3, <1>4, <1>5

\* What a moves is its own: nothing of another container is touched.
LEMMA OwnOnly ==
  ASSUME NEW a \in Callers, NEW w, w # a,
         UNCHANGED records \/ \E rec : records' = Put(records, a, rec) \/ records' = Without(records, a),
         UNCHANGED storage \/ \E c : storage' = Put(storage, a, c)
           \/ storage' = [storage EXCEPT ![a].mounted = TRUE] \/ storage' = Without(storage, a),
         bundles' \in {bundles, bundles \cup {a}, bundles \ {a}},
         bundleDirs' \in {bundleDirs, bundleDirs \cup {a}, bundleDirs \ {a}},
         \A n \in DOMAIN names' : names'[n] = w => n \in DOMAIN names /\ names[n] = w
  PROVE  SameFor(w)
<1>1. (w \in DOMAIN records' => w \in DOMAIN records /\ records'[w] = records[w])
  BY DEF Put, Without, Restrict
<1>2. (w \in DOMAIN storage' <=> w \in DOMAIN storage) /\ (w \in DOMAIN storage => storage'[w] = storage[w])
  BY DEF Put, Without, Restrict
<1> QED
  BY <1>1, <1>2 DEF SameFor, Less

LEMMA CreateStorageStep ==
  ASSUME CatalogInv, NEW a \in Callers, setup' = setup, CreateStorage(a)
  PROVE  CatalogInv'
<1>1. Shape /\ Creator(a) /\ work[a].pc = "storage" /\ images' = images
  BY DEF CatalogInv, Roles, CreateStorage, Is, imgVars
<1>2. work[a].image \in ImageIds /\ Nowhere(a)
  BY <1>1 DEF CatalogInv, AllPlaced, Placed, Nothing
<1>3. CASE ~images[work[a].image].present
  <2>1. Turn(a) /\ work'[a].pc = "failed" /\ UNCHANGED conVars
    BY <1>1, <1>3, MoveTurn DEF CreateStorage, conVars
  <2> QED
    BY <1>1, <2>1, EarlyTurn DEF Nothing
<1>4. CASE images[work[a].image].present
  <2>1. Turn(a) /\ Keeping(a) /\ work'[a].pc = "mount"
    BY <1>1, <1>4, MoveTurn DEF CreateStorage
  <2>2. storage' = Put(storage, a, [image |-> work[a].image, mounted |-> FALSE])
    BY <1>4 DEF CreateStorage
  <2>3. a \in DOMAIN storage' /\ storage'[a] = [image |-> work[a].image, mounted |-> FALSE]
    BY <2>2 DEF Put
  <2>4. \A w \in Callers \ {a} : SameFor(w)
    BY <2>2, OwnOnly DEF CreateStorage
  <2>5. Absent(a)'
    BY <1>2 DEF Nowhere, Absent, CreateStorage
  <2>6. Placed(a)'
    BY <2>1, <2>3, <2>5 DEF Placed, Nothing, Mounted, Late, Keeping
  <2> QED
    BY <1>1, <1>2, <1>4, <2>1, <2>3, <2>4, <2>5, <2>6, CreatorTurn
    DEF Absent, CreatorLabels, Stored, Targeted, Recorded
<1> QED
  BY <1>3, <1>4

\* A step of a creation between the storage container and the record.
LEMMA BuildStep ==
  ASSUME CatalogInv, NEW a \in Callers, setup' = setup, CreateMount(a) \/ CreateBundle(a)
  PROVE  CatalogInv'
<1>1. Shape /\ Creator(a) /\ work[a].pc \in {"mount", "bundle"} /\ images' = images
  BY DEF CatalogInv, Roles, CreateMount, CreateBundle, Is, imgVars, Stored, Mounted
<1>2. Absent(a) /\ a \in DOMAIN storage /\ storage[a].image = work[a].image /\ DOMAIN storage[a] = {"image", "mounted"}
      /\ (work[a].pc = "bundle" => storage[a].mounted)
  BY <1>1 DEF CatalogInv, AllPlaced, Placed, Stored, Mounted, Shape
<1>3. Absent(a)'
  BY <1>2 DEF Absent, CreateMount, CreateBundle
<1>4. \A w \in Callers \ {a} : SameFor(w)
  BY OwnOnly DEF CreateMount, CreateBundle
<1>5. a \in DOMAIN storage' /\ DOMAIN storage'[a] = {"image", "mounted"} /\ storage'[a].image = work[a].image
      /\ storage'[a].mounted
  BY <1>2 DEF CreateMount, CreateBundle, Is
<1>6. Turn(a) /\ Keeping(a) /\ work'[a].pc \in {"bundle", "from"} /\ (work'[a].pc = "from" => a \in bundleDirs')
  <2>1. CASE CreateMount(a)
    BY <1>1, <2>1, MoveTurn DEF CreateMount
  <2>2. CASE CreateBundle(a)
    BY <1>1, <2>2 DEF CreateBundle, Shape, Turn, Keeping, WorkFields
  <2> QED
    BY <2>1, <2>2
<1>7. Placed(a)'
  BY <1>3, <1>5, <1>6 DEF Placed, Nothing, Late, Keeping
<1>8. storage'[a].image \in ImageIds /\ images[storage'[a].image].present
  BY <1>2, <1>5 DEF CatalogInv, StoredImages
<1> QED
  BY <1>1, <1>3, <1>4, <1>5, <1>6, <1>7, <1>8, CreatorTurn
  DEF Absent, CreatorLabels, Stored, Mounted, Late, Targeted, Recorded

LEMMA CreateRecordStep ==
  ASSUME CatalogInv, NEW a \in Callers, setup' = setup, CreateRecord(a)
  PROVE  CatalogInv'
<1>1. Shape /\ Creator(a) /\ work[a].pc = "record" /\ images' = images
  BY DEF CatalogInv, Roles, CreateRecord, Is, imgVars, Stored, Mounted, Late
<1>2. Absent(a) /\ a \in DOMAIN storage /\ storage[a].image = work[a].image /\ storage[a].mounted /\ a \in bundleDirs
  BY <1>1 DEF CatalogInv, AllPlaced, Placed, Stored, Mounted, Late
<1>3. CASE work[a].name \in DOMAIN names
  <2>1. Turn(a) /\ Keeping(a) /\ work'[a].pc = "undo" /\ UNCHANGED conVars
    BY <1>1, <1>3, MoveTurn DEF CreateRecord, conVars
  <2> QED
    BY <1>1, <2>1, LateTurn DEF Late
<1>4. CASE work[a].name \notin DOMAIN names
  <2> DEFINE rec == [name |-> work[a].name, image |-> work[a].image, status |-> "created",
                     binds |-> work[a].binds, mounts |-> work[a].seen]
  <2>1. Turn(a) /\ Keeping(a) /\ work'[a].pc = "path"
    BY <1>1, <1>4, MoveTurn DEF CreateRecord
  <2>2. StoreContainer(a, rec) /\ UNCHANGED <<bundles, storage, bundleDirs>>
    BY <1>4 DEF CreateRecord
  <2>3. records' = Put(records, a, rec) /\ names' = Put(names, work[a].name, a)
    BY <2>2 DEF StoreContainer
  <2>4. a \in DOMAIN records' /\ records'[a].image = work[a].image
    BY <2>3 DEF Put
  <2>5. \A n \in DOMAIN names' : \A w : names'[n] = w => (w = a /\ n = work[a].name) \/ (n \in DOMAIN names /\ names[n] = w)
    BY <2>3 DEF Put
  <2>6. \A w \in Callers \ {a} : SameFor(w)
    BY <2>2, <2>3, <2>5, OwnOnly
  <2>7. \A n \in DOMAIN names' : names'[n] = a => n = work'[a].name
    BY <1>2, <2>1, <2>5 DEF Absent, Keeping
  <2>8. Kept(a)'
    BY <1>2, <2>1, <2>2, <2>4 DEF Kept
  <2>9. Placed(a)'
    BY <2>1, <2>8 DEF Placed, Nothing, Stored, Mounted, Late
  <2>10. DOMAIN storage'[a] = {"image", "mounted"} /\ storage'[a].image \in ImageIds /\ images[storage'[a].image].present
    BY <1>1, <1>2, <2>2 DEF Shape, CatalogInv, StoredImages
  <2> QED
    BY <1>1, <2>1, <2>6, <2>7, <2>9, <2>10, CreatorTurn DEF CreatorLabels, Targeted, Recorded
<1> QED
  BY <1>3, <1>4

LEMMA CreateBundlePathStep ==
  ASSUME CatalogInv, NEW a \in Callers, setup' = setup, CreateBundlePath(a)
  PROVE  CatalogInv'
<1>1. Shape /\ Creator(a) /\ work[a].pc = "path" /\ images' = images
  BY DEF CatalogInv, Roles, CreateBundlePath, Is, imgVars
<1>2. Turn(a) /\ Keeping(a) /\ work'[a].pc = "done"
  BY <1>1, MoveTurn DEF CreateBundlePath
<1>3. UNCHANGED <<records, names, storage, bundleDirs>> /\ bundles' = bundles \cup {a}
  BY DEF CreateBundlePath
<1>4. \A w \in Callers \ {a} : SameFor(w)
  BY <1>3 DEF SameFor, Less
<1>5. Removing(a) => Removing(a)'
  BY <1>1, <1>2, StillRemoving DEF RemoveLabels
<1>6. Kept(a) => Kept(a)'
  BY <1>2, <1>3 DEF Kept
<1>7. a \in DOMAIN records => Removing(a)' \/ Kept(a)'
  BY <1>1, <1>5, <1>6 DEF CatalogInv, AllPlaced, Placed
<1>8. Placed(a)'
  BY <1>2, <1>3, <1>7 DEF Placed, Nothing, Stored, Mounted, Late
<1>9. a \in DOMAIN storage' =>
        DOMAIN storage'[a] = {"image", "mounted"} /\ storage'[a].image \in ImageIds /\ images[storage'[a].image].present
  BY <1>1, <1>3 DEF Shape, CatalogInv, StoredImages
<1>10. \A n \in DOMAIN names' : names'[n] = a => n = work'[a].name
  BY <1>1, <1>2, <1>3 DEF CatalogInv, NamesOwn, Keeping
<1> QED
  BY <1>1, <1>2, <1>4, <1>8, <1>9, <1>10, CreatorTurn DEF CreatorLabels, Targeted, Recorded

LEMMA CreateUnrecordStep ==
  ASSUME CatalogInv, NEW a \in Callers, setup' = setup, CreateUnrecord(a)
  PROVE  CatalogInv'
<1>1. Shape /\ Creator(a) /\ work[a].pc = "unrecord" /\ images' = images
  BY DEF CatalogInv, Roles, CreateUnrecord, Is, imgVars
<1>2. Turn(a) /\ Keeping(a) /\ work'[a].pc = "undo"
  BY <1>1, MoveTurn DEF CreateUnrecord
<1>3. /\ records' = Without(records, a) /\ names' = Without(names, work[a].name) /\ bundles' = bundles \ {a}
      /\ UNCHANGED <<storage, bundleDirs>>
  BY DEF CreateUnrecord, DeleteContainer
<1>4. \A n \in DOMAIN names' : n # work[a].name /\ n \in DOMAIN names /\ names'[n] = names[n]
  BY <1>3 DEF Without, Restrict
<1>5. \A w \in Callers \ {a} : SameFor(w)
  BY <1>3, <1>4, OwnOnly
<1>6. Absent(a)'
  BY <1>1, <1>3, <1>4 DEF Absent, Without, Restrict, CatalogInv, NamesOwn
<1>7. Placed(a)'
  BY <1>2, <1>6 DEF Placed, Nothing, Stored, Mounted, Late
<1>8. a \in DOMAIN storage' =>
        DOMAIN storage'[a] = {"image", "mounted"} /\ storage'[a].image \in ImageIds /\ images[storage'[a].image].present
  BY <1>1, <1>3 DEF Shape, CatalogInv, StoredImages
<1> QED
  BY <1>1, <1>2, <1>5, <1>6, <1>7, <1>8, CreatorTurn DEF CreatorLabels, Targeted, Recorded, Absent

LEMMA CreateUndoStep ==
  ASSUME CatalogInv, NEW a \in Callers, setup' = setup, CreateUndo(a)
  PROVE  CatalogInv'
<1>1. Shape /\ Creator(a) /\ work[a].pc = "undo" /\ images' = images
  BY DEF CatalogInv, Roles, CreateUndo, Is, imgVars
<1>2. Turn(a) /\ Keeping(a) /\ work'[a].pc = "failed"
  BY <1>1, MoveTurn DEF CreateUndo
<1>3. UNCHANGED <<records, names, bundles>> /\ storage' = Without(storage, a) /\ bundleDirs' = bundleDirs \ {a}
  BY DEF CreateUndo
<1>4. \A w \in Callers \ {a} : SameFor(w)
  BY <1>3, OwnOnly
<1>5. Absent(a)
  BY <1>1 DEF CatalogInv, AllPlaced, Placed
<1>6. a \notin DOMAIN storage'
  BY <1>3 DEF Without, Restrict
<1>7. Nowhere(a)'
  BY <1>3, <1>5, <1>6 DEF Absent, Nowhere
<1>8. Placed(a)'
  BY <1>2, <1>7 DEF Placed, Nothing, Stored, Mounted, Late
<1> QED
  BY <1>1, <1>2, <1>3, <1>4, <1>5, <1>6, <1>8, CreatorTurn DEF CreatorLabels, Nothing, Targeted, Recorded, Absent
-----------------------------------------------------------------------------
(* The steps of a removal, and the other requests *)

\* A removal takes from a container whose creation is past its record.
LEMMA TakeTurn ==
  ASSUME CatalogInv, NEW a \in Callers, Turn(a), Keeping(a), images' = images,
         work[a].pc \in RemoveLabels, work'[a].pc \in RemoveLabels \cup {"done"},
         \A w \in Callers : Less(w),
         \A w \in Callers : w # work[a].id => SameFor(w),
         work'[a].pc = "done" => work[a].id \notin DOMAIN records'
  PROVE  CatalogInv'
<1>1. Request(a).op = "remove" /\ ~Creator(a)
  BY DEF CatalogInv, Roles, Creator
<1>2. ASSUME NEW w \in Callers, Creator(w) PROVE Placed(w)'
  <2>1. Placed(w) /\ w # a /\ work'[w] = work[w]
    BY <1>1, <1>2 DEF CatalogInv, AllPlaced, Turn
  <2>2. CASE w = work[a].id
    <3>1. work[w].pc \in Targeted
      BY <1>2, <2>2 DEF CatalogInv, Targets, Targeted
    <3>2. w \in DOMAIN records' => Removing(w)'
      BY <1>1, <2>2 DEF Keeping, Removing, RemoveLabels, Turn, Request
    <3> QED
      BY <2>1, <3>1, <3>2, TakenPlaced
  <2>3. CASE w # work[a].id
    <3>1. Removing(w) => Removing(w)'
      BY <2>3, StillRemoving
    <3> QED
      BY <2>1, <2>3, <3>1, SamePlaced
  <2> QED
    BY <2>2, <2>3
<1>3. \A w \in Callers : Creator(w) /\ work'[a].pc \in RemoveLabels /\ work'[a].id = w => work[w].pc \in Targeted
  BY DEF CatalogInv, Targets, Targeted, Keeping
<1>4. work'[a].pc \notin CreatorsOnly
  BY DEF RemoveLabels, CreatorsOnly, Stored, Mounted, Late
<1> QED
  BY <1>1, <1>2, <1>3, <1>4, OtherTurn DEF RemoveLabels

LEMMA RemoveTakes ==
  ASSUME CatalogInv, NEW a \in Callers, setup' = setup, RemoveStorage(a) \/ RemoveBundle(a) \/ RemoveRecord(a)
  PROVE  CatalogInv'
<1> DEFINE i == work[a].id
<1>1. Shape /\ images' = images /\ work[a].pc \in RemoveLabels
  BY DEF CatalogInv, RemoveStorage, RemoveBundle, RemoveRecord, Is, imgVars, RemoveLabels
<1>2. Turn(a) /\ Keeping(a) /\ work'[a].pc \in {"rmbundle", "delete", "done"}
      /\ (work'[a].pc = "done" => RemoveRecord(a))
  BY <1>1, MoveTurn DEF RemoveStorage, RemoveBundle, RemoveRecord
<1>3. /\ records' = records \/ records' = Without(records, i)
      /\ storage' = storage \/ storage' = Without(storage, i)
      /\ names' = names \/ names' = Without(names, work[a].name)
      /\ bundles' \in {bundles, bundles \ {i}} /\ bundleDirs' \in {bundleDirs, bundleDirs \ {i}}
  BY DEF RemoveStorage, RemoveBundle, RemoveRecord, DeleteContainer
<1>4. \A w : Less(w)
  BY <1>3 DEF Less, Without, Restrict
<1>5. \A w : w # i => SameFor(w)
  BY <1>3, <1>4 DEF SameFor, Without, Restrict
<1>6. RemoveRecord(a) => i \notin DOMAIN records'
  BY DEF RemoveRecord, DeleteContainer, Without, Restrict
<1> QED
  BY <1>1, <1>2, <1>4, <1>5, <1>6, TakeTurn DEF RemoveLabels

LEMMA LookupFinds == \A ref : Lookup(ref) \subseteq DOMAIN records
BY DEF Lookup

LEMMA RemoveLooks ==
  ASSUME CatalogInv, NEW a \in Callers, setup' = setup, RemoveGet(a)
  PROVE  CatalogInv'
<1>1. Shape /\ work[a].pc = "remove" /\ Request(a).op = "remove" /\ UNCHANGED <<conVars, images>>
  BY DEF CatalogInv, Roles, RemoveGet, Is, imgVars
<1>2. CASE Move(a, "failed")
  <2>1. Turn(a) /\ work'[a].pc = "failed"
    BY <1>1, <1>2, MoveTurn
  <2> QED
    BY <1>1, <2>1, PlainTurn DEF Creator, RemoveLabels, CreatorsOnly, Stored, Mounted, Late
<1>3. CASE ~Move(a, "failed")
  <2>1. PICK i \in Lookup(Request(a).ref) :
          work' = [work EXCEPT ![a].pc = "unmount", ![a].id = i, ![a].name = records[i].name]
    BY <1>3 DEF RemoveGet
  <2>2. i \in DOMAIN records
    BY LookupFinds
  <2>3. Turn(a) /\ work'[a].pc = "unmount" /\ work'[a].id \in DOMAIN records
    BY <1>1, <2>1, <2>2 DEF Shape, Turn, WorkFields
  <2> QED
    BY <1>1, <2>3, PlainTurn DEF Creator, RemoveLabels, CreatorsOnly, Stored, Mounted, Late
<1> QED
  BY <1>2, <1>3

LEMMA RequestStarts ==
  ASSUME CatalogInv, NEW a \in Callers, setup' = setup, ContainerRequest(a)
  PROVE  CatalogInv'
<1>1. Shape /\ work[a].pc = "idle" /\ UNCHANGED <<conVars, images>>
  BY DEF CatalogInv, ContainerRequest, Is, imgVars
<1>2. Turn(a) /\ work'[a].pc = Request(a).op /\ Request(a).op \in {"create", "remove"}
  BY <1>1, MoveTurn DEF ContainerRequest
<1>3. CASE Creator(a)
  BY <1>1, <1>2, <1>3, EarlyTurn DEF Nothing, Creator
<1>4. CASE ~Creator(a)
  BY <1>1, <1>2, <1>4, PlainTurn DEF Creator, RemoveLabels, CreatorsOnly, Stored, Mounted, Late
<1> QED
  BY <1>3, <1>4

LEMMA OtherRequests ==
  ASSUME CatalogInv, NEW a \in Callers, setup' = setup,
         VolumeRequest(a) \/ VolumeAnswer(a) \/ ImageRequest(a) \/ CommitRequest(a) \/ ImageAnswer(a)
  PROVE  CatalogInv'
<1>1. Shape /\ UNCHANGED <<conVars, images>> /\ work[a].pc \in {"idle", "asked", "images"}
  BY DEF CatalogInv, VolumeRequest, VolumeAnswer, ImageRequest, CommitRequest, ImageAnswer, Is, imgVars, ImgStart
<1>2. ~Creator(a)
  <2>1. work[a].pc = "idle" => Request(a).op \in {"volume create", "volume rm", "volume prune", "commit"} \cup DOMAIN ImageOps
    BY DEF VolumeRequest, VolumeAnswer, ImageRequest, CommitRequest, ImageAnswer, Is
  <2>2. "create" \notin DOMAIN ImageOps
    BY DEF ImageOps
  <2>3. work[a].pc # "idle" => ~Creator(a)
    BY <1>1 DEF CatalogInv, Roles, Nothing, Stored, Mounted, Late, Recorded
  <2> QED
    BY <2>1, <2>2, <2>3 DEF Creator
<1>3. Turn(a) /\ work'[a].pc \in {"asked", "images", "done", "failed"}
  <2>1. CASE CommitRequest(a) /\ ~Move(a, "failed")
    <3>1. PICK i : work' = [work EXCEPT ![a].pc = "images", ![a].id = i, ![a].image = records[i].image]
      BY <2>1 DEF CommitRequest
    <3> QED
      BY <1>1, <3>1 DEF Shape, Turn, WorkFields
  <2>2. CASE Move(a, "failed") \/ ~CommitRequest(a)
    BY <1>1, <2>2, MoveTurn DEF VolumeRequest, VolumeAnswer, ImageRequest, ImageAnswer
  <2> QED
    BY <2>1, <2>2
<1> QED
  BY <1>1, <1>2, <1>3, PlainTurn DEF RemoveLabels, CreatorsOnly, Stored, Mounted, Late
-----------------------------------------------------------------------------
(* Images, the crash, and all steps *)

\* No step of the image store takes away an image that a container stands on.
LEMMA ImagesStay ==
  ASSUME CatalogInv, NEW a \in Callers, ImageStep(a)
  PROVE  /\ DOMAIN images' = ImageIds /\ \A i \in ImageIds : DOMAIN images'[i] = ImageFields
         /\ \A i \in ImageIds : i \in UsedImages /\ images[i].present => images'[i].present
<1> DEFINE Stay == /\ DOMAIN images' = ImageIds /\ \A i \in ImageIds : DOMAIN images'[i] = ImageFields
                   /\ \A i \in ImageIds : i \in UsedImages /\ images[i].present => images'[i].present
<1>1. DOMAIN images = ImageIds /\ \A i \in ImageIds : DOMAIN images[i] = ImageFields
  BY DEF CatalogInv, Shape
<1>2. CASE UNCHANGED images
  BY <1>1, <1>2
<1>3. ASSUME NEW i, DeleteImage(i, UsedImages) PROVE Stay
  <2>1. CASE ~(images[i].present /\ i \notin UsedImages)
    BY <1>1, <1>3, <2>1 DEF DeleteImage
  <2>2. CASE images[i].present /\ i \notin UsedImages
    <3>1. images' = [images EXCEPT ![i].present = FALSE, ![i].names = {}, ![i].data = "none"]
      BY <1>3, <2>2 DEF DeleteImage
    <3> QED
      BY <1>1, <2>2, <3>1 DEF ImageFields
  <2> QED
    BY <2>1, <2>2
<1>4. ASSUME NEW i, NEW ns, images' = [images EXCEPT ![i].names = ns] PROVE Stay
  BY <1>1, <1>4 DEF ImageFields
<1>5. ASSUME NEW i, NEW n PROVE /\ DOMAIN Renamed(i, n) = ImageIds
                                /\ \A j \in ImageIds : DOMAIN Renamed(i, n)[j] = ImageFields /\ Renamed(i, n)[j].present = images[j].present
  BY <1>1 DEF Renamed, ImageFields
<1>6. CASE RemoveOrUntag(a, UsedImages)
  BY <1>3, <1>4, <1>6 DEF RemoveOrUntag
<1>7. CASE TagName(a, Request(a).name)
  BY <1>1, <1>5, <1>7 DEF TagName
<1>8. CASE PruneImage(a, UsedImages)
  BY <1>2, <1>3, <1>8 DEF PruneImage
<1>9. CASE PullImage(a) /\ ~UNCHANGED images
  <2>1. PICK i \in ImageIds : images' = [Renamed(i, Full[imgCall[a].ref]) EXCEPT ![i].present = TRUE, ![i].data = "whole"]
    BY <1>9 DEF PullImage
  <2> QED
    BY <1>5, <2>1 DEF ImageFields
<1>10. CASE CommitCreate(a)
  <2>1. PICK i \in ImageIds :
          images' = [j \in ImageIds |->
            IF j = i THEN [present |-> TRUE, names |-> imgCall[a].names, data |-> "none", config |-> images[Picked(a)].config]
            ELSE [images[j] EXCEPT !.names = @ \ imgCall[a].names]]
    BY <1>10 DEF CommitCreate
  <2> QED
    BY <1>1, <2>1 DEF ImageFields
<1>11. CASE CommitData(a)
  <2>1. ASSUME NEW d, images' = [images EXCEPT ![Picked(a)].data = d] PROVE Stay
    BY <1>1, <2>1 DEF ImageFields
  <2> QED
    BY <1>2, <1>11, <2>1 DEF CommitData
<1>12. CASE RemoveResolve(a) \/ TagResolve(a) \/ PruneImages(a) \/ CommitCheck(a, work[a].id \in DOMAIN storage, work[a].image)
  BY <1>2, <1>12 DEF RemoveResolve, TagResolve, PruneImages, CommitCheck
<1> QED
  BY <1>2, <1>6, <1>7, <1>8, <1>9, <1>10, <1>11, <1>12 DEF ImageStep

LEMMA SameCatalog ==
  ASSUME CatalogInv, UNCHANGED <<setup, work, conVars>>, DOMAIN images' = ImageIds,
         \A i \in ImageIds : DOMAIN images'[i] = ImageFields,
         \A i \in ImageIds : i \in UsedImages /\ images[i].present => images'[i].present
  PROVE  CatalogInv'
<1>1. Shape' /\ Roles' /\ Targets' /\ NamesOwn'
  BY DEF CatalogInv, Shape, Roles, Targets, NamesOwn, conVars, Creator, Request
<1>2. StoredImages'
  BY DEF CatalogInv, StoredImages, UsedImages, conVars
<1>3. AllPlaced'
  BY DEF CatalogInv, AllPlaced, Placed, Nowhere, Absent, Kept, Removing, conVars, Creator, Request
<1> QED
  BY <1>1, <1>2, <1>3 DEF CatalogInv

\* The crash ends every request under way: what it had made is RecoverOrphans'.
LEMMA CrashCatalog ==
  ASSUME CatalogInv, Crash
  PROVE  CatalogInv'
<1> DEFINE created == {i \in DOMAIN records : records[i].status = "created"}
<1>1. /\ setup' = setup /\ images' = images
      /\ work' = [w \in Callers |-> IF Is(w, "idle") THEN work[w] ELSE [work[w] EXCEPT !.pc = "lost"]]
      /\ storage' = Restrict(storage, DOMAIN storage \ created)
      /\ bundles' \subseteq bundles /\ bundleDirs' \subseteq bundleDirs
      /\ names' = Restrict(names, DOMAIN names \ {records[i].name : i \in created})
      /\ records' = [i \in DOMAIN records \ created |-> [records[i] EXCEPT !.status = "exited"]]
  BY DEF Crash, ImagesCrash
<1>2. /\ DOMAIN storage' \subseteq DOMAIN storage /\ \A w \in DOMAIN storage' : storage'[w] = storage[w]
      /\ \A n \in DOMAIN names' : n \in DOMAIN names /\ names'[n] = names[n]
      /\ DOMAIN records' \subseteq DOMAIN records
  BY <1>1 DEF Restrict
<1>3. Shape
  BY DEF CatalogInv
<1>4. \A w \in Callers : /\ DOMAIN work'[w] = WorkFields /\ work'[w].name = work[w].name
                         /\ IF work[w].pc = "idle" THEN work'[w] = work[w] ELSE work'[w].pc = "lost"
  BY <1>1, <1>3 DEF Shape, WorkFields, Is
<1>5. \A w \in Callers : work'[w].pc \in {"idle", "lost"}
  BY <1>4
<1>6. \A w \in Callers : Creator(w)' <=> Creator(w)
  BY <1>1 DEF Creator, Request
<1>7. Shape'
  BY <1>1, <1>2, <1>3, <1>4 DEF Shape
<1>8. Roles' /\ Targets'
  BY <1>5 DEF Roles, Targets, RemoveLabels, Nothing, Stored, Mounted, Late, Recorded
<1>9. NamesOwn'
  BY <1>2, <1>4, <1>6 DEF CatalogInv, NamesOwn
<1>10. StoredImages'
  BY <1>1, <1>2 DEF CatalogInv, StoredImages
<1>11. ASSUME NEW w \in Callers, Creator(w) PROVE Placed(w)'
  <2>1. work'[w].pc = "idle" => Nowhere(w)
    BY <1>4, <1>11 DEF CatalogInv, AllPlaced, Placed, Nothing
  <2>2. Nowhere(w) => Nowhere(w)'
    BY <1>1, <1>2 DEF Nowhere
  <2> QED
    BY <1>5, <2>1, <2>2 DEF Placed, Nothing, Stored, Mounted, Late
<1>12. AllPlaced'
  BY <1>6, <1>11 DEF AllPlaced
<1> QED
  BY <1>7, <1>8, <1>9, <1>10, <1>12 DEF CatalogInv

LEMMA InitCatalog == Init => CatalogInv
<1> SUFFICES ASSUME Init PROVE CatalogInv
  OBVIOUS
<1>1. /\ records = World.records /\ images = World.images /\ bundles = DOMAIN records /\ bundleDirs = DOMAIN records
      /\ names = [n \in {records[i].name : i \in DOMAIN records} |-> CHOOSE i \in DOMAIN records : records[i].name = n]
      /\ storage = [i \in DOMAIN records |-> [image |-> records[i].image, mounted |-> TRUE]]
      /\ work = [w \in Callers |-> Idle(w)]
  BY DEF Init
<1>2. \A w \in Callers : DOMAIN work[w] = WorkFields /\ work[w].pc = "idle"
  BY <1>1 DEF Idle, WorkFields
<1>3. \A w \in Callers : w \notin DOMAIN records
  BY <1>1, WorldAssumption
<1>4. \A n \in DOMAIN names : names[n] \in DOMAIN records
  BY <1>1
<1>5. \A w \in Callers : Nowhere(w)
  <2>1. DOMAIN storage = DOMAIN records /\ bundles = DOMAIN records /\ bundleDirs = DOMAIN records
    BY <1>1
  <2> QED
    BY <1>3, <1>4, <2>1 DEF Nowhere
<1>6. Shape
  BY <1>1, <1>2, <1>3, WorldAssumption DEF Shape, ImageFields
<1>7. Roles /\ Targets
  BY <1>2 DEF Roles, Targets, RemoveLabels, Nothing, Stored, Mounted, Late
<1>8. NamesOwn /\ StoredImages
  BY <1>5 DEF Nowhere, NamesOwn, StoredImages
<1>9. AllPlaced
  BY <1>2, <1>5 DEF AllPlaced, Placed, Nothing, Stored, Mounted, Late
<1> QED
  BY <1>6, <1>7, <1>8, <1>9 DEF CatalogInv

LEMMA NextCatalog == CatalogInv /\ [Next]_vars => CatalogInv'
<1> SUFFICES ASSUME CatalogInv, [Next]_vars PROVE CatalogInv'
  OBVIOUS
<1>1. ASSUME UNCHANGED <<setup, work, conVars, images>> PROVE CatalogInv'
  BY <1>1, SameCatalog DEF CatalogInv, Shape
<1>2. CASE UNCHANGED vars
  BY <1>1, <1>2 DEF vars, imgVars
<1>3. CASE Crash
  BY <1>3, CrashCatalog
<1>4. ASSUME NEW a \in Callers, Step(a) PROVE CatalogInv'
  <2>1. setup' = setup
    BY <1>4 DEF Step
  <2>2. CASE VolumeStep(a) /\ UNCHANGED <<imgVars, conVars, work, faults>>
    BY <1>1, <2>1, <2>2 DEF imgVars
  <2>3. CASE ImageStep(a) /\ UNCHANGED <<volVars, conVars, work, faults>>
    BY <2>1, <2>3, ImagesStay, SameCatalog
  <2>4. CASE CreateStep(a)
    BY <2>1, <2>4, CreateEarly, CreateResolves, CreateStorageStep, BuildStep, CreateRecordStep, CreateBundlePathStep,
       CreateUnrecordStep, CreateUndoStep DEF CreateStep
  <2>5. CASE RemoveStep(a)
    BY <2>1, <2>5, RemoveLooks, RemoveTakes DEF RemoveStep
  <2> QED
    BY <1>4, <2>1, <2>2, <2>3, <2>4, <2>5, RequestStarts, OtherRequests DEF Step
<1>5. ASSUME NEW a \in Callers, Fault(a) PROVE CatalogInv'
  <2>1. setup' = setup
    BY <1>5 DEF Fault
  <2>2. CASE ImageFault(a) /\ UNCHANGED <<volVars, conVars, work>>
    BY <1>1, <2>1, <2>2 DEF ImageFault, CommitFails
  <2>3. CASE UNCHANGED <<imgVars, conVars, work>>
    BY <1>1, <2>1, <2>3 DEF imgVars
  <2> QED
    BY <1>5, <2>1, <2>2, <2>3, CreateStops DEF Fault
<1> QED
  BY <1>2, <1>3, <1>4, <1>5 DEF Next

LEMMA CatalogAllOrNothing == CatalogInv => AllOrNothing
<1> SUFFICES ASSUME CatalogInv, NEW w \in Callers, Creator(w)
             PROVE  /\ work[w].pc = "done" /\ w \in DOMAIN records => Removing(w) \/ Whole(w)
                    /\ work[w].pc = "failed" => Nowhere(w)
  BY DEF AllOrNothing, Creator, Is
<1>1. Kept(w) /\ work[w].pc = "done" => Whole(w)
  BY DEF CatalogInv, StoredImages, Kept, Whole
<1> QED
  BY <1>1 DEF CatalogInv, AllPlaced, Placed, Nothing

\* A creation that reports a container has made it whole, on an image that no
\* request takes away, and one that reports an error has left nothing: for any
\* number of creations, removals, commits, prunes and pulls at once, any number
\* of failing steps, and a crash wherever it comes.
THEOREM CreationIsAllOrNothing == Spec => []AllOrNothing
<1>1. Spec => []CatalogInv
  BY InitCatalog, NextCatalog, PTL DEF Spec
<1> QED
  BY <1>1, CatalogAllOrNothing, PTL

-----------------------------------------------------------------------------
(* The volume manager inside the catalog *)

\* Every mount that a container of the store, or a creation under way, has of a
\* volume has a volume's name.
SeenNamed == \A w \in Callers : \A d \in DOMAIN work[w].seen : work[w].seen[d].name \in {""} \cup AllNames
RecordsNamed ==
  \A i \in DOMAIN records :
    /\ DOMAIN records[i] = {"name", "image", "status", "binds", "mounts"}
    /\ \A d \in DOMAIN records[i].mounts : records[i].mounts[d].name \in {""} \cup AllNames

ComposedInv == setup \in Setups /\ CatalogInv /\ SeenNamed /\ RecordsNamed /\ VolumesInv

\* The steps that neither see a mount nor write a record.
SeesNothing == records' = records /\ \A w \in Callers : work'[w].seen = work[w].seen

LEMMA SeesNothingNamed == ASSUME SeenNamed, RecordsNamed, SeesNothing PROVE SeenNamed' /\ RecordsNamed'
BY DEF SeenNamed, RecordsNamed, SeesNothing

LEMMA MoveSeesNothing ==
  ASSUME NEW a \in Callers, NEW label, Shape, records' = records, Move(a, label)
  PROVE  SeesNothing
BY DEF Shape, Move, SeesNothing, WorkFields

LEMMA RefsNamed == ASSUME RecordsNamed PROVE AllVolumeRefs \subseteq AllNames
<1>1. BindRefs \subseteq AllNames
  BY NamesAssumption DEF BindRefs, AllNames
<1>2. ASSUME NEW n \in MountRefs, n # "" PROVE n \in AllNames
  <2>1. PICK i \in DOMAIN records : \E d \in DOMAIN records[i].mounts : n = records[i].mounts[d].name
    BY DEF MountRefs
  <2> QED
    BY <1>2, <2>1 DEF RecordsNamed
<1> QED
  BY <1>1, <1>2 DEF AllVolumeRefs

LEMMA SeeNamed ==
  ASSUME NEW a \in Callers, NEW dest, NEW mount, NEW rest, Shape, SeenNamed, RecordsNamed, records' = records,
         See(a, dest, mount, rest), mount.name \in {""} \cup AllNames
  PROVE  SeenNamed' /\ RecordsNamed'
<1>1. work'[a].seen = Put(work[a].seen, dest, mount)
  BY DEF See, Shape, WorkFields
<1>2. \A w \in Callers \ {a} : work'[w] = work[w]
  BY DEF See, Shape
<1>3. \A d \in DOMAIN work'[a].seen : work'[a].seen[d].name \in {""} \cup AllNames
  BY <1>1 DEF Put, SeenNamed
<1> QED
  BY <1>2, <1>3 DEF SeenNamed, RecordsNamed

LEMMA NamedTurn ==
  ASSUME ComposedInv, NEW a \in Callers, CreateStep(a)
  PROVE  SeenNamed' /\ RecordsNamed'
<1>1. Shape
  BY DEF ComposedInv, CatalogInv
<1>2. CASE CreateName(a) \/ CreateImage(a) \/ CreateConfig(a) \/ CreateBundle(a) \/ CreateVolumesFrom(a) \/ CreateUncovered(a)
  <2>1. records' = records
    BY <1>2 DEF CreateName, CreateImage, CreateConfig, CreateBundle, CreateVolumesFrom, CreateUncovered, conVars
  <2>2. CASE Move(a, "failed") \/ Move(a, "undo")
    BY <1>1, <2>1, <2>2, MoveSeesNothing, SeesNothingNamed DEF ComposedInv
  <2>3. CASE ~Move(a, "failed") /\ ~Move(a, "undo")
    <3>1. SeesNothing
      <4>1. CASE CreateName(a)
        <5>1. PICK n : work' = [work EXCEPT ![a].pc = "image", ![a].name = n]
          BY <4>1 DEF CreateName
        <5> QED
          BY <1>1, <2>1, <5>1 DEF Shape, SeesNothing, WorkFields
      <4>2. CASE CreateImage(a) \/ CreateConfig(a)
        BY <1>1, <2>1, <2>3, <4>2 DEF CreateImage, CreateConfig, Shape, SeesNothing, WorkFields
      <4>3. CASE CreateBundle(a)
        BY <1>1, <2>1, <4>3 DEF CreateBundle, Shape, SeesNothing, WorkFields
      <4>4. CASE CreateUncovered(a)
        <5>1. PICK d : work' = [work EXCEPT ![a].asked = <<[kind |-> "volume", src |-> "", dest |-> d, rw |-> TRUE]>>]
          BY <4>4 DEF CreateUncovered
        <5> QED
          BY <1>1, <2>1, <5>1 DEF Shape, SeesNothing, WorkFields
      <4>5. CASE CreateVolumesFrom(a)
        <5>1. CASE work[a].from = <<>>
          BY <1>1, <2>1, <4>5, <5>1 DEF CreateVolumesFrom, Shape, SeesNothing, WorkFields
        <5>2. CASE work[a].from # <<>>
          <6>1. PICK bs, ds : work' = [work EXCEPT ![a].binds = bs, ![a].from = Tail(work[a].from), ![a].inherited = ds]
            BY <1>1, <2>3, <4>5, <5>2 DEF CreateVolumesFrom
          <6> QED
            BY <1>1, <2>1, <6>1 DEF Shape, SeesNothing, WorkFields
        <5> QED
          BY <5>1, <5>2
      <4> QED
        BY <1>2, <4>1, <4>2, <4>3, <4>4, <4>5
    <3> QED
      BY <3>1, SeesNothingNamed DEF ComposedInv
  <2> QED
    BY <2>2, <2>3
<1>3. CASE CreateStorage(a) \/ CreateMount(a) \/ CreateTarget(a) \/ CreateSpec(a) \/ CreateBundlePath(a) \/ CreateUndo(a)
  <2>1. records' = records /\ \E label : Move(a, label)
    BY <1>3 DEF CreateStorage, CreateMount, CreateTarget, CreateSpec, CreateBundlePath, CreateUndo, conVars
  <2> QED
    BY <1>1, <2>1, MoveSeesNothing, SeesNothingNamed DEF ComposedInv
<1>4. CASE CreateAsked(a)
  <2>1. records' = records
    BY <1>4 DEF CreateAsked, conVars
  <2>2. CASE \E label : Move(a, label)
    BY <1>1, <2>1, <2>2, MoveSeesNothing, SeesNothingNamed DEF ComposedInv
  <2>3. CASE ~\E label : Move(a, label)
    <3>1. PICK m : See(a, m.dest, [name |-> "", rw |-> m.rw], Tail(work[a].asked))
      BY <1>4, <2>3 DEF CreateAsked
    <3> DEFINE mount == [name |-> "", rw |-> m.rw]
    <3>2. See(a, m.dest, mount, Tail(work[a].asked)) /\ mount.name = ""
      BY <3>1
    <3> HIDE DEF mount
    <3> QED
      BY <1>1, <2>1, <3>2, SeeNamed DEF ComposedInv
  <2> QED
    BY <2>2, <2>3
<1>5. CASE CreateEnsured(a)
  <2>1. records' = records
    BY <1>5 DEF CreateEnsured, conVars
  <2>2. CASE Move(a, "undo")
    BY <1>1, <2>1, <2>2, MoveSeesNothing, SeesNothingNamed DEF ComposedInv
  <2>3. CASE ~Move(a, "undo")
    <3>1. PICK dest, mount, rest : See(a, dest, mount, rest) /\ mount.name = Name(a)
      BY <1>5, <2>3 DEF CreateEnsured
    <3>2. Name(a) \in {""} \cup AllNames
      BY DEF ComposedInv, VolumesInv, VolumesTypeOK, Name, AllNames
    <3> QED
      BY <1>1, <2>1, <3>1, <3>2, SeeNamed DEF ComposedInv
  <2> QED
    BY <2>2, <2>3
<1>6. CASE CreateRecord(a)
  <2>1. CASE records' = records
    <3>1. \E label : Move(a, label)
      BY <1>6 DEF CreateRecord
    <3> QED
      BY <1>1, <2>1, <3>1, MoveSeesNothing, SeesNothingNamed DEF ComposedInv
  <2>2. CASE records' # records
    <3>1. /\ Move(a, "path")
          /\ records' = Put(records, a, [name |-> work[a].name, image |-> work[a].image, status |-> "created",
                                         binds |-> work[a].binds, mounts |-> work[a].seen])
      BY <1>6, <2>2 DEF CreateRecord, StoreContainer
    <3>2. \A w \in Callers : work'[w].seen = work[w].seen
      BY <1>1, <3>1 DEF Shape, Move, WorkFields
    <3>3. /\ DOMAIN records'[a] = {"name", "image", "status", "binds", "mounts"} /\ records'[a].mounts = work[a].seen
          /\ \A i \in DOMAIN records' \ {a} : i \in DOMAIN records /\ records'[i] = records[i]
      BY <3>1 DEF Put
    <3> QED
      BY <3>2, <3>3 DEF ComposedInv, SeenNamed, RecordsNamed
  <2> QED
    BY <2>1, <2>2
<1>7. CASE CreateUnrecord(a)
  <2>1. \A w \in Callers : work'[w].seen = work[w].seen
    BY <1>1, <1>7 DEF CreateUnrecord, Shape, Move, WorkFields
  <2>2. \A i \in DOMAIN records' : i \in DOMAIN records /\ records'[i] = records[i]
    BY <1>7 DEF CreateUnrecord, DeleteContainer, Without, Restrict
  <2> QED
    BY <2>1, <2>2 DEF ComposedInv, SeenNamed, RecordsNamed
<1> QED
  BY <1>2, <1>3, <1>4, <1>5, <1>6, <1>7 DEF CreateStep

LEMMA NamedOthers ==
  ASSUME ComposedInv, [Next]_vars, ~\E a \in Callers : CreateStep(a)
  PROVE  SeenNamed' /\ RecordsNamed'
<1>1. Shape
  BY DEF ComposedInv, CatalogInv
<1>2. ASSUME UNCHANGED work, records' = records PROVE SeenNamed' /\ RecordsNamed'
  BY <1>2, SeesNothingNamed DEF SeesNothing, ComposedInv
<1>3. ASSUME NEW a \in Callers, NEW label, Move(a, label), records' = records PROVE SeenNamed' /\ RecordsNamed'
  BY <1>1, <1>3, MoveSeesNothing, SeesNothingNamed DEF ComposedInv
<1>4. CASE UNCHANGED vars
  BY <1>2, <1>4 DEF vars, conVars
<1>5. CASE Crash
  <2>1. /\ work' = [w \in Callers |-> IF Is(w, "idle") THEN work[w] ELSE [work[w] EXCEPT !.pc = "lost"]]
        /\ \E dead : records' = [i \in DOMAIN records \ dead |-> [records[i] EXCEPT !.status = "exited"]]
    BY <1>5 DEF Crash
  <2>2. \A w \in Callers : work'[w].seen = work[w].seen
    BY <1>1, <2>1 DEF Shape, WorkFields
  <2>3. PICK dead : records' = [i \in DOMAIN records \ dead |-> [records[i] EXCEPT !.status = "exited"]]
    BY <2>1
  <2>4. \A i \in DOMAIN records' :
          /\ i \in DOMAIN records /\ DOMAIN records'[i] = DOMAIN records[i]
          /\ DOMAIN records[i] = {"name", "image", "status", "binds", "mounts"} => records'[i].mounts = records[i].mounts
    BY <2>3
  <2> QED
    BY <2>2, <2>4 DEF ComposedInv, SeenNamed, RecordsNamed
<1>6. ASSUME NEW a \in Callers, Step(a) PROVE SeenNamed' /\ RecordsNamed'
  <2>1. CASE UNCHANGED <<conVars, work>>
    BY <1>2, <2>1 DEF conVars
  <2>2. CASE ContainerRequest(a) \/ VolumeRequest(a) \/ VolumeAnswer(a) \/ ImageRequest(a) \/ ImageAnswer(a)
    BY <1>3, <2>2 DEF ContainerRequest, VolumeRequest, VolumeAnswer, ImageRequest, ImageAnswer, conVars
  <2>3. CASE CommitRequest(a)
    <3>1. records' = records
      BY <2>3 DEF CommitRequest, conVars
    <3>2. CASE Move(a, "failed")
      BY <1>3, <3>1, <3>2
    <3>3. CASE ~Move(a, "failed")
      <4>1. PICK i : work' = [work EXCEPT ![a].pc = "images", ![a].id = i, ![a].image = records[i].image]
        BY <2>3, <3>3 DEF CommitRequest
      <4>2. \A w \in Callers : work'[w].seen = work[w].seen
        BY <1>1, <4>1 DEF Shape, WorkFields
      <4> QED
        BY <3>1, <4>2, SeesNothingNamed DEF SeesNothing, ComposedInv
    <3> QED
      BY <3>2, <3>3
  <2>4. CASE RemoveGet(a)
    <3>1. records' = records
      BY <2>4 DEF RemoveGet, conVars
    <3>2. CASE Move(a, "failed")
      BY <1>3, <3>1, <3>2
    <3>3. CASE ~Move(a, "failed")
      <4>1. PICK i : work' = [work EXCEPT ![a].pc = "unmount", ![a].id = i, ![a].name = records[i].name]
        BY <2>4, <3>3 DEF RemoveGet
      <4>2. \A w \in Callers : work'[w].seen = work[w].seen
        BY <1>1, <4>1 DEF Shape, WorkFields
      <4> QED
        BY <3>1, <4>2, SeesNothingNamed DEF SeesNothing, ComposedInv
    <3> QED
      BY <3>2, <3>3
  <2>5. CASE RemoveStorage(a) \/ RemoveBundle(a)
    BY <1>3, <2>5 DEF RemoveStorage, RemoveBundle
  <2>6. CASE RemoveRecord(a)
    <3>1. \A w \in Callers : work'[w].seen = work[w].seen
      BY <1>1, <2>6 DEF RemoveRecord, Shape, Move, WorkFields
    <3>2. \A i \in DOMAIN records' : i \in DOMAIN records /\ records'[i] = records[i]
      BY <2>6 DEF RemoveRecord, DeleteContainer, Without, Restrict
    <3> QED
      BY <3>1, <3>2 DEF ComposedInv, SeenNamed, RecordsNamed
  <2> QED
    BY <1>6, <2>1, <2>2, <2>3, <2>4, <2>5, <2>6 DEF Step, RemoveStep
<1>7. ASSUME NEW a \in Callers, Fault(a) PROVE SeenNamed' /\ RecordsNamed'
  <2>1. CASE UNCHANGED <<conVars, work>>
    BY <1>2, <2>1 DEF conVars
  <2>2. CASE CreateFault(a)
    BY <1>3, <2>2 DEF CreateFault, conVars
  <2> QED
    BY <1>7, <2>1, <2>2 DEF Fault
<1> QED
  BY <1>4, <1>5, <1>6, <1>7 DEF Next

\* No step of the catalog does anything with the volumes that the volume
\* manager's own specification does not allow.
LEMMA VolumesRefined ==
  ASSUME ComposedInv, [Next]_vars
  PROVE  [VolumesNext]_volVars
<1>1. CASE UNCHANGED volVars
  BY <1>1
<1>2. CASE Crash
  BY <1>2 DEF Crash, VolumesNext
<1>3. ASSUME NEW a \in Callers, VolumeStep(a) \/ VolumeFault(a) \/ Return(a) PROVE VolumesNext
  BY <1>3 DEF VolumesNext
<1>4. ASSUME NEW a \in Callers, NEW n \in AllNames, EnsureVolume(a, n) \/ CreateVolume(a, n) \/ RemoveVolume(a, n)
      PROVE  VolumesNext
  BY <1>4 DEF VolumesNext, AllNames
<1>5. ASSUME NEW a \in Callers, NEW refs \in SUBSET AllNames, PruneVolumes(a, refs) PROVE VolumesNext
  BY <1>5 DEF VolumesNext, AllNames
<1>6. ASSUME NEW a \in Callers, CreateAsked(a) PROVE [VolumesNext]_volVars
  <2>1. CASE \E n \in AnonymousNames : CreateVolume(a, n)
    BY <1>4, <2>1 DEF AllNames
  <2>2. ASSUME NEW n, EnsureVolume(a, n) PROVE VolumesNext
    BY <1>4, <2>2 DEF EnsureVolume, AllNames
  <2> QED
    BY <1>6, <2>1, <2>2 DEF CreateAsked
<1>7. ASSUME NEW a \in Callers, VolumeRequest(a) PROVE VolumesNext
  <2>1. CASE CreateVolume(a, Request(a).ref)
    BY <1>4, <2>1 DEF CreateVolume, AllNames
  <2>2. CASE Request(a).op = "volume rm" /\ RemoveVolume(a, Request(a).ref)
    <3>1. setup[a].ref \in AllNames
      BY <2>2, NamesAssumption DEF ComposedInv, Request, AllNames
    <3> QED
      BY <1>4, <2>2, <3>1 DEF Request
  <2>3. CASE PruneVolumes(a, AllVolumeRefs)
    BY <1>5, <2>3, RefsNamed DEF ComposedInv
  <2> QED
    BY <1>7, <2>1, <2>2, <2>3 DEF VolumeRequest
<1>8. ASSUME NEW a \in Callers, Step(a) PROVE [VolumesNext]_volVars
  <2>1. CASE ContainerRequest(a) \/ ImageRequest(a) \/ CommitRequest(a) \/ ImageAnswer(a)
    BY <2>1 DEF ContainerRequest, ImageRequest, CommitRequest, ImageAnswer
  <2>2. CASE VolumeAnswer(a) \/ CreateEnsured(a)
    BY <1>3, <2>2 DEF VolumeAnswer, CreateEnsured
  <2>3. CASE CreateStep(a) /\ ~CreateAsked(a) /\ ~CreateEnsured(a)
    BY <2>3 DEF CreateStep, CreateName, CreateImage, CreateConfig, CreateStorage, CreateMount, CreateBundle,
       CreateVolumesFrom, CreateUncovered, CreateTarget, CreateSpec, CreateRecord, CreateBundlePath, CreateUnrecord, CreateUndo
  <2>4. CASE RemoveStep(a)
    BY <2>4 DEF RemoveStep, RemoveGet, RemoveStorage, RemoveBundle, RemoveRecord
  <2> QED
    BY <1>3, <1>6, <1>7, <1>8, <2>1, <2>2, <2>3, <2>4 DEF Step
<1>9. ASSUME NEW a \in Callers, Fault(a) PROVE [VolumesNext]_volVars
  BY <1>3, <1>9 DEF Fault, CreateFault
<1> QED
  BY <1>1, <1>2, <1>8, <1>9 DEF Next, vars

LEMMA InitComposed == Init => ComposedInv
<1> SUFFICES ASSUME Init PROVE ComposedInv
  OBVIOUS
<1>1. setup \in Setups /\ VolumesInit /\ records = World.records /\ \A w \in Callers : work[w].seen = <<>>
  BY DEF Init, Idle
<1>2. RecordsNamed
  BY <1>1, WorldAssumption, NamesAssumption DEF RecordsNamed, AllNames
<1>3. SeenNamed
  <2>1. DOMAIN <<>> = {}
    OBVIOUS
  <2> QED
    BY <1>1, <2>1 DEF SeenNamed
<1> QED
  BY <1>1, <1>2, <1>3, InitCatalog, VolumesInitInv DEF ComposedInv

LEMMA NextComposed == ComposedInv /\ [Next]_vars => ComposedInv'
<1> SUFFICES ASSUME ComposedInv, [Next]_vars PROVE ComposedInv'
  OBVIOUS
<1>1. setup' = setup
  BY DEF Next, Crash, Step, Fault, vars
<1>2. CatalogInv'
  BY NextCatalog DEF ComposedInv
<1>3. SeenNamed' /\ RecordsNamed'
  BY NamedTurn, NamedOthers
<1>4. VolumesInv'
  BY VolumesRefined, NextInv DEF ComposedInv
<1> QED
  BY <1>1, <1>2, <1>3, <1>4 DEF ComposedInv

\* The catalog implements the volume manager's own specification: a volume that
\* a creation or a prune asks for is one the manager could have been asked for,
\* and nothing but the manager's steps changes what there is of volumes.
THEOREM CatalogKeepsVolumes == Spec => VolumesSpec
<1>1. Init => VolumesInit
  BY DEF Init
<1>2. ComposedInv /\ [Next]_vars => [VolumesNext]_volVars
  BY VolumesRefined
<1>3. Spec => []ComposedInv
  BY InitComposed, NextComposed, PTL DEF Spec
<1> QED
  BY <1>1, <1>2, <1>3, PTL DEF Spec, VolumesSpec

\* So a volume of the store has its directory beside whatever creations,
\* removals and prunes race, whatever steps fail and wherever the daemon dies.
THEOREM CatalogHasDirs == Spec => []VolumeHasDir
BY CatalogKeepsVolumes, VolumesHaveDirs, PTL

-----------------------------------------------------------------------------
(* What --volumes-from other:ro brings *)

LEMMA SeqOfItself == ASSUME NEW S, NEW q \in Seq(S) PROVE q \in Seq(ToSet(q))
<1>1. \A i \in 1..Len(q) : q[i] \in ToSet(q)
  BY DEF ToSet
<1> QED
  BY <1>1

\* Whatever options a bind has, forced read-only it is, to the same destination.
LEMMA ForcedReadOnly ==
  ASSUME NEW b, IsBind(b)
  PROVE  /\ IsBind(ForceReadOnly(b)) /\ ~ParseBind(ForceReadOnly(b)).rw
         /\ ParseBind(ForceReadOnly(b)).dest = ParseBind(b).dest
         /\ ParseBind(ForceReadOnly(b)).kind = ParseBind(b).kind
<1>1. CASE Len(b) < 2
  BY <1>1 DEF ForceReadOnly, ParseBind, Bad, IsBind
<1>2. ASSUME NEW opts, opts \in Seq(ToSet(opts)), \A i \in DOMAIN opts : opts[i] # "rw", "ro" \in ToSet(opts), Len(b) \in Nat, Len(b) >= 2
      PROVE  LET f == <<b[1], b[2], opts>> IN
             IsBind(f) /\ ~ParseBind(f).rw /\ ParseBind(f).dest = ParseBind(b).dest /\ ParseBind(f).kind = ParseBind(b).kind
  <2> DEFINE f == <<b[1], b[2], opts>>
  <2>1. Len(f) = 3 /\ f[1] = b[1] /\ f[2] = b[2] /\ f[3] = opts
    OBVIOUS
  <2>2. ~ReadWrite(opts)
    BY <1>2 DEF ReadWrite, ToSet
  <2> HIDE DEF f
  <2>3. IsBind(f)
    BY <1>2, <2>1 DEF IsBind
  <2> DEFINE kind == IF b[1] \in NamedSources THEN "volume" ELSE "host"
  <2>4. ParseBind(f) = [kind |-> kind, src |-> b[1], dest |-> Clean(b[2]), rw |-> Len(f) = 2 \/ ReadWrite(opts)]
    BY <2>1 DEF ParseBind
  <2>5. ParseBind(b) = [kind |-> kind, src |-> b[1], dest |-> Clean(b[2]), rw |-> Len(b) = 2 \/ ReadWrite(b[3])]
    BY <1>2 DEF ParseBind
  <2>6. ~(Len(f) = 2 \/ ReadWrite(opts))
    BY <2>1, <2>2
  <2>7. ParseBind(f).rw = (Len(f) = 2 \/ ReadWrite(opts)) /\ ParseBind(f).dest = Clean(b[2]) /\ ParseBind(f).kind = kind
    BY <2>4
  <2>8. ParseBind(b).dest = Clean(b[2]) /\ ParseBind(b).kind = kind
    BY <2>5
  <2> QED
    BY <2>3, <2>6, <2>7, <2>8 DEF f
<1>3. CASE Len(b) = 2
  <2> DEFINE opts == <<"ro">>
  <2>1. Len(opts) = 1 /\ opts[1] = "ro" /\ opts \in Seq({"ro"})
    OBVIOUS
  <2>3. (\A i \in DOMAIN opts : opts[i] # "rw") /\ 1 \in DOMAIN opts
    OBVIOUS
  <2>4. "ro" \in ToSet(opts)
    BY <2>1, <2>3 DEF ToSet
  <2>2. ForceReadOnly(b) = <<b[1], b[2], opts>>
    BY <1>3 DEF ForceReadOnly
  <2> HIDE DEF opts
  <2> QED
    BY <1>2, <1>3, <2>1, <2>2, <2>3, <2>4, SeqOfItself
<1>4. CASE Len(b) > 2
  <2> DEFINE set == [i \in DOMAIN b[3] |-> IF b[3][i] = "rw" THEN "ro" ELSE b[3][i]]
  <2> DEFINE opts == IF "ro" \in ToSet(set) THEN set ELSE Append(set, "ro")
  <2> DEFINE Opts == ToSet(b[3]) \cup {"ro"}
  <2>0. b[3] \in Seq(ToSet(b[3])) /\ Len(b) \in Nat
    BY <1>4 DEF IsBind
  <2>1. set \in Seq(Opts) /\ Len(set) = Len(b[3]) /\ (\A i \in DOMAIN set : set[i] # "rw")
    <3>1. DOMAIN b[3] = 1..Len(b[3]) /\ Len(b[3]) \in Nat /\ \A i \in DOMAIN b[3] : b[3][i] \in Opts
      BY <2>0 DEF ToSet
    <3>2. \A i \in DOMAIN b[3] : set[i] \in Opts /\ set[i] # "rw"
      BY <3>1
    <3>3. set \in [1..Len(b[3]) -> Opts]
      BY <3>1, <3>2
    <3> HIDE DEF set
    <3> QED
      BY <3>1, <3>2, <3>3
  <2>2. ForceReadOnly(b) = <<b[1], b[2], opts>>
    <3>1. ~(Len(b) < 2) /\ ~(Len(b) = 2)
      BY <1>4, <2>0
    <3> QED
      BY <3>1, Zenon DEF ForceReadOnly
  <2> HIDE DEF set, Opts
  <2>3. CASE "ro" \in ToSet(set)
    BY <1>2, <1>4, <2>0, <2>1, <2>2, <2>3, SeqOfItself
  <2>4. CASE "ro" \notin ToSet(set)
    <3>1. opts = Append(set, "ro")
      BY <2>4
    <3>2. opts \in Seq(Opts) /\ \A i \in DOMAIN opts : opts[i] # "rw"
      <4>1. Append(set, "ro") \in Seq(Opts) /\ \A i \in DOMAIN Append(set, "ro") : Append(set, "ro")[i] # "rw"
        BY <2>1 DEF Opts
      <4> QED
        BY <3>1, <4>1
    <3>3. "ro" \in ToSet(opts)
      <4>1. Len(set) + 1 \in DOMAIN opts /\ opts[Len(set) + 1] = "ro"
        BY <2>1, <3>1
      <4> QED
        BY <4>1 DEF ToSet
    <3> HIDE DEF opts
    <3> QED
      BY <1>2, <1>4, <2>0, <2>2, <3>2, <3>3, SeqOfItself
  <2> QED
    BY <2>3, <2>4
<1>5. Len(b) < 2 \/ Len(b) = 2 \/ Len(b) > 2
  BY DEF IsBind
<1> QED
  BY <1>1, <1>3, <1>4, <1>5

LEMMA Concatenated ==
  ASSUME NEW p, NEW q, p \in Seq(ToSet(p)), q \in Seq(ToSet(q))
  PROVE  /\ p \o q \in Seq(ToSet(p \o q)) /\ Len(p \o q) = Len(p) + Len(q) /\ Len(p) \in Nat /\ Len(q) \in Nat
         /\ \A i \in 1..Len(p) : (p \o q)[i] = p[i]
         /\ \A i \in 1..Len(q) : (p \o q)[Len(p) + i] = q[i]
         /\ \A i \in DOMAIN (p \o q) : i \in 1..Len(p) \/ (i - Len(p) \in 1..Len(q) /\ (p \o q)[i] = q[i - Len(p)])
<1> DEFINE S == ToSet(p) \cup ToSet(q)
<1>1. p \in Seq(S) /\ q \in Seq(S)
  OBVIOUS
<1> HIDE DEF S
<1>2. p \o q \in Seq(S)
  BY <1>1
<1>3. p \o q \in Seq(ToSet(p \o q))
  BY <1>2, SeqOfItself
<1> QED
  BY <1>1, <1>2, <1>3

\* A list of requests that cannot be met, and one that leaves d read-only.
Fails(q) == \E j \in DOMAIN q : q[j].kind = "bad"
WantsReadOnly(q, i, d) == i \in DOMAIN q /\ q[i].dest = d /\ ~q[i].rw
EndsReadOnly(q, d) ==
  /\ \E i \in DOMAIN q : WantsReadOnly(q, i, d)
  /\ \A i \in DOMAIN q : q[i].dest = d /\ q[i].rw => \E j \in DOMAIN q : i < j /\ WantsReadOnly(q, j, d)

Parsed(binds) == [i \in DOMAIN binds |-> ParseBind(binds[i])]
ParsedMounts(mounts) == [i \in DOMAIN mounts |-> ParseMount(mounts[i])]
Replaced(w, d) == \E m \in ToSet(Request(w).mounts) : Clean(m.target) = d
SeenReadOnly(w, d) == d \in DOMAIN work[w].seen /\ ~work[w].seen[d].rw

Before == {"idle", "create", "image", "config", "storage", "mount", "bundle"}

\* Every destination inherited read-only is, in what the creation has collected
\* so far, and after that in what is left of it or else in what it has seen.
Inherits(w) ==
  /\ AreBinds(work[w].binds) /\ work[w].asked \in Seq(ToSet(work[w].asked))
  /\ work[w].pc \in Before => work[w].inherited = {}
  /\ work[w].pc = "from" =>
       Fails(Parsed(work[w].binds)) \/ \A d \in work[w].inherited : EndsReadOnly(Parsed(work[w].binds), d)
  /\ work[w].pc = "ensuring" => work[w].asked # <<>> /\ Head(work[w].asked).kind # "bad"
  /\ work[w].pc \in {"volumes", "ensuring"} =>
       \/ Fails(work[w].asked)
       \/ \A d \in work[w].inherited :
            \/ Replaced(w, d) \/ EndsReadOnly(work[w].asked, d)
            \/ (\A j \in DOMAIN work[w].asked : work[w].asked[j].dest # d) /\ SeenReadOnly(w, d)
  /\ work[w].pc \in {"spec", "record"} => \A d \in work[w].inherited : Replaced(w, d) \/ SeenReadOnly(w, d)

RecordedBinds == \A i \in DOMAIN records : AreBinds(records[i].binds)
InheritInv == RecordedBinds /\ \A w \in Callers : Inherits(w)

\* What a request does outside of what it collects.
Passes(w) ==
  /\ work'[w].binds = work[w].binds /\ work'[w].asked = work[w].asked /\ work'[w].inherited = work[w].inherited
  /\ work'[w].pc \notin {"from", "volumes", "ensuring", "spec", "record"}
  /\ work'[w].pc \in Before => work[w].pc \in Before

LEMMA PassesInherits ==
  ASSUME NEW w \in Callers, Inherits(w), setup' = setup, Passes(w) \/ work'[w] = work[w]
  PROVE  Inherits(w)'
<1>1. CASE work'[w] = work[w]
  BY <1>1 DEF Inherits, Replaced, SeenReadOnly, Request
<1>2. CASE Passes(w)
  BY <1>2 DEF Inherits, Passes
<1> QED
  BY <1>1, <1>2

\* With more to come the end is that of what comes, or of what there was.
LEMMA Joined ==
  ASSUME NEW p, NEW q, p \in Seq(ToSet(p)), q \in Seq(ToSet(q)), ~Fails(p \o q)
  PROVE  /\ ~Fails(p) /\ ~Fails(q)
         /\ \A d : EndsReadOnly(q, d) => EndsReadOnly(p \o q, d)
         /\ \A d : EndsReadOnly(p, d) /\ (\A j \in DOMAIN q : q[j].dest # d) => EndsReadOnly(p \o q, d)
<1> DEFINE r == p \o q
<1>1. /\ Len(r) = Len(p) + Len(q) /\ Len(p) \in Nat /\ Len(q) \in Nat
      /\ DOMAIN p = 1..Len(p) /\ DOMAIN q = 1..Len(q) /\ DOMAIN r = 1..Len(r)
      /\ \A i \in 1..Len(p) : r[i] = p[i]
      /\ \A i \in 1..Len(q) : r[Len(p) + i] = q[i]
      /\ \A i \in DOMAIN r : i \in 1..Len(p) \/ (i - Len(p) \in 1..Len(q) /\ r[i] = q[i - Len(p)])
  BY Concatenated
<1> HIDE DEF r
<1>2. ~Fails(p)
  <2> SUFFICES ASSUME NEW j \in DOMAIN p, p[j].kind = "bad" PROVE FALSE
    BY DEF Fails
  <2>1. j \in DOMAIN r /\ r[j].kind = "bad"
    BY <1>1
  <2> QED
    BY <2>1 DEF Fails, r
<1>3. ~Fails(q)
  <2> SUFFICES ASSUME NEW j \in DOMAIN q, q[j].kind = "bad" PROVE FALSE
    BY DEF Fails
  <2>1. Len(p) + j \in DOMAIN r /\ r[Len(p) + j].kind = "bad"
    BY <1>1
  <2> QED
    BY <2>1 DEF Fails, r
<1>4. ASSUME NEW d, EndsReadOnly(q, d) PROVE EndsReadOnly(r, d)
  <2>1. ASSUME NEW i \in DOMAIN q, WantsReadOnly(q, i, d) PROVE WantsReadOnly(r, Len(p) + i, d)
    BY <1>1, <2>1 DEF WantsReadOnly
  <2>2. PICK i \in DOMAIN q : WantsReadOnly(q, i, d)
    BY <1>4 DEF EndsReadOnly
  <2>3. WantsReadOnly(r, Len(p) + i, d) /\ Len(p) + i \in DOMAIN r
    BY <1>1, <2>1, <2>2
  <2>4. ASSUME NEW k \in DOMAIN r, r[k].dest = d, r[k].rw PROVE \E j \in DOMAIN r : k < j /\ WantsReadOnly(r, j, d)
    <3>1. CASE k \in 1..Len(p)
      BY <1>1, <2>3, <3>1
    <3>2. CASE k - Len(p) \in 1..Len(q) /\ r[k] = q[k - Len(p)]
      <4>1. PICK j \in DOMAIN q : k - Len(p) < j /\ WantsReadOnly(q, j, d)
        BY <1>1, <1>4, <2>4, <3>2 DEF EndsReadOnly
      <4>2. Len(p) + j \in DOMAIN r /\ k < Len(p) + j /\ WantsReadOnly(r, Len(p) + j, d)
        BY <1>1, <2>1, <4>1
      <4> QED
        BY <4>2
    <3> QED
      BY <1>1, <3>1, <3>2
  <2> QED
    BY <2>3, <2>4 DEF EndsReadOnly
<1>5. ASSUME NEW d, EndsReadOnly(p, d), \A j \in DOMAIN q : q[j].dest # d PROVE EndsReadOnly(r, d)
  <2>1. \A i \in DOMAIN p : i \in DOMAIN r /\ r[i] = p[i]
    BY <1>1
  <2>2. \A k \in DOMAIN r : r[k].dest = d => k \in DOMAIN p
    BY <1>1, <1>5
  <2> QED
    BY <1>5, <2>1, <2>2 DEF EndsReadOnly, WantsReadOnly
<1> QED
  BY <1>2, <1>3, <1>4, <1>5 DEF r

LEMMA ParsedIsSeq ==
  ASSUME NEW binds, AreBinds(binds)
  PROVE  /\ Parsed(binds) \in Seq(ToSet(Parsed(binds))) /\ Len(Parsed(binds)) = Len(binds) /\ Len(binds) \in Nat
         /\ DOMAIN Parsed(binds) = 1..Len(binds) /\ \A i \in 1..Len(binds) : Parsed(binds)[i] = ParseBind(binds[i])
<1>1. Len(binds) \in Nat /\ DOMAIN binds = 1..Len(binds)
  BY DEF AreBinds
<1>2. DOMAIN Parsed(binds) = 1..Len(binds) /\ \A i \in 1..Len(binds) : Parsed(binds)[i] = ParseBind(binds[i])
  BY <1>1 DEF Parsed
<1>3. Parsed(binds) \in [1..Len(binds) -> ToSet(Parsed(binds))]
  BY <1>1, <1>2 DEF Parsed, ToSet
<1> QED
  BY <1>1, <1>2, <1>3

LEMMA ParsedMountsIsSeq ==
  ASSUME NEW mounts, mounts \in Seq(ToSet(mounts))
  PROVE  /\ ParsedMounts(mounts) \in Seq(ToSet(ParsedMounts(mounts)))
         /\ DOMAIN ParsedMounts(mounts) = DOMAIN mounts
         /\ \A i \in DOMAIN mounts : ParsedMounts(mounts)[i] = ParseMount(mounts[i])
<1>1. Len(mounts) \in Nat /\ DOMAIN mounts = 1..Len(mounts)
  OBVIOUS
<1>2. DOMAIN ParsedMounts(mounts) = 1..Len(mounts) /\ \A i \in DOMAIN mounts : ParsedMounts(mounts)[i] = ParseMount(mounts[i])
  BY <1>1 DEF ParsedMounts
<1>3. ParsedMounts(mounts) \in [1..Len(mounts) -> ToSet(ParsedMounts(mounts))]
  BY <1>1, <1>2 DEF ParsedMounts, ToSet
<1> QED
  BY <1>1, <1>2, <1>3

LEMMA ParsedJoined ==
  ASSUME NEW p, NEW q, AreBinds(p), AreBinds(q)
  PROVE  AreBinds(p \o q) /\ Parsed(p \o q) = Parsed(p) \o Parsed(q)
<1>1. /\ p \o q \in Seq(ToSet(p \o q)) /\ Len(p \o q) = Len(p) + Len(q) /\ Len(p) \in Nat /\ Len(q) \in Nat
      /\ \A i \in 1..Len(p) : (p \o q)[i] = p[i]
      /\ \A i \in 1..Len(q) : (p \o q)[Len(p) + i] = q[i]
      /\ \A i \in DOMAIN (p \o q) : i \in 1..Len(p) \/ (i - Len(p) \in 1..Len(q) /\ (p \o q)[i] = q[i - Len(p)])
  BY Concatenated DEF AreBinds
<1> DEFINE r == p \o q
<1>2. DOMAIN p = 1..Len(p) /\ DOMAIN q = 1..Len(q) /\ DOMAIN r = 1..Len(r)
  BY <1>1 DEF AreBinds
<1> HIDE DEF r
<1>3. AreBinds(r)
  <2>1. ASSUME NEW i \in DOMAIN r PROVE IsBind(r[i])
    BY <1>1, <1>2 DEF AreBinds, r
  <2> QED
    BY <1>1, <2>1 DEF AreBinds, r
<1>4. Parsed(r) = Parsed(p) \o Parsed(q)
  <2> DEFINE a == Parsed(p)
             b == Parsed(q)
             c == Parsed(r)
  <2>1. /\ a \in Seq(ToSet(a)) /\ b \in Seq(ToSet(b)) /\ c \in Seq(ToSet(c))
        /\ Len(a) = Len(p) /\ Len(b) = Len(q) /\ Len(c) = Len(p) + Len(q)
        /\ \A i \in 1..Len(p) : a[i] = ParseBind(p[i])
        /\ \A i \in 1..Len(q) : b[i] = ParseBind(q[i])
        /\ \A i \in 1..Len(r) : c[i] = ParseBind(r[i])
    BY <1>1, <1>3, ParsedIsSeq DEF r
  <2> HIDE DEF a, b, c
  <2>2. /\ a \o b \in Seq(ToSet(a \o b)) /\ Len(a \o b) = Len(a) + Len(b)
        /\ \A i \in 1..Len(a) : (a \o b)[i] = a[i]
        /\ \A i \in 1..Len(b) : (a \o b)[Len(a) + i] = b[i]
        /\ \A i \in DOMAIN (a \o b) : i \in 1..Len(a) \/ (i - Len(a) \in 1..Len(b) /\ (a \o b)[i] = b[i - Len(a)])
    <3>1. a \in Seq(ToSet(a)) /\ b \in Seq(ToSet(b))
      BY <2>1
    <3> QED
      BY <3>1, Concatenated
  <2>3. Len(c) = Len(a \o b)
    BY <2>1, <2>2
  <2>4. ASSUME NEW i \in 1..Len(c) PROVE c[i] = (a \o b)[i]
    <3>1. i \in DOMAIN r /\ i \in 1..Len(r) /\ i \in DOMAIN (a \o b)
      BY <1>1, <1>2, <2>1, <2>2, <2>3 DEF r
    <3>2. CASE i \in 1..Len(p)
      BY <1>1, <2>1, <2>2, <3>1, <3>2 DEF r
    <3>3. CASE i - Len(p) \in 1..Len(q) /\ r[i] = q[i - Len(p)]
      <4>1. c[i] = ParseBind(q[i - Len(p)]) /\ b[i - Len(p)] = ParseBind(q[i - Len(p)])
        BY <2>1, <3>1, <3>3
      <4>2. (a \o b)[Len(a) + (i - Len(p))] = b[i - Len(p)] /\ Len(a) + (i - Len(p)) = i
        BY <1>1, <2>1, <2>2, <3>1, <3>3
      <4> QED
        BY <4>1, <4>2
    <3> QED
      BY <1>1, <3>1, <3>2, <3>3 DEF r
  <2> DEFINE S == ToSet(c) \cup ToSet(a \o b)
  <2>5. c \in Seq(S) /\ a \o b \in Seq(S)
    BY <2>1, <2>2
  <2> HIDE DEF S
  <2>6. c = a \o b
    BY <2>3, <2>4, <2>5, SeqEqual
  <2> QED
    BY <2>6 DEF a, b, c
<1> QED
  BY <1>3, <1>4 DEF r

\* The binds of another container, with the destinations they have.
LEMMA FromOther ==
  ASSUME NEW from, NEW binds, AreBinds(binds)
  PROVE  LET more == VolumesFrom(from, binds) IN
         /\ AreBinds(more) /\ DOMAIN Parsed(more) = DOMAIN binds
         /\ \A i \in DOMAIN binds : /\ Parsed(more)[i].dest = ParseBind(binds[i]).dest
                                    /\ Parsed(more)[i].kind = ParseBind(binds[i]).kind
                                    /\ from.mode = "ro" => ~Parsed(more)[i].rw
<1> DEFINE more == VolumesFrom(from, binds)
<1>1. Len(binds) \in Nat /\ DOMAIN binds = 1..Len(binds)
  BY DEF AreBinds
<1>2. DOMAIN more = 1..Len(binds) /\ \A i \in 1..Len(binds) : more[i] = IF from.mode = "ro" THEN ForceReadOnly(binds[i]) ELSE binds[i]
  BY <1>1 DEF VolumesFrom
<1>3. more \in [1..Len(binds) -> ToSet(more)]
  BY <1>1, <1>2 DEF VolumesFrom, ToSet
<1>4. \A i \in DOMAIN binds : IsBind(binds[i])
  BY DEF AreBinds
<1>5. AreBinds(more)
  <2>1. \A i \in DOMAIN more : IsBind(more[i])
    BY <1>1, <1>2, <1>4, ForcedReadOnly
  <2> HIDE DEF more
  <2> QED
    BY <1>1, <1>3, <2>1 DEF AreBinds
<1> HIDE DEF more
<1>6. DOMAIN Parsed(more) = DOMAIN binds /\ \A i \in DOMAIN binds : Parsed(more)[i] = ParseBind(more[i])
  <2>1. Len(more) = Len(binds)
    BY <1>1, <1>2, <1>3
  <2> QED
    BY <1>1, <1>5, <2>1, ParsedIsSeq
<1> QED
  BY <1>1, <1>2, <1>4, <1>5, <1>6, ForcedReadOnly DEF more

LEMMA ParsedDest ==
  ASSUME NEW b, IsBind(b)
  PROVE  (ParseBind(b).kind # "bad" => Len(b) > 1) /\ (Len(b) > 1 => ParseBind(b).dest = Clean(b[2]))
<1>1. CASE Len(b) < 2
  BY <1>1 DEF ParseBind, Bad, IsBind
<1>2. CASE Len(b) >= 2
  <2>1. ~(Len(b) < 2) /\ Len(b) > 1
    BY <1>2 DEF IsBind
  <2>2. ParseBind(b).dest = Clean(b[2])
    BY <2>1 DEF ParseBind
  <2> QED
    BY <2>1, <2>2
<1> QED
  BY <1>1, <1>2 DEF IsBind

\* One --volumes-from more.
LEMMA MoreInherited ==
  ASSUME NEW a \in Callers, Inherits(a), RecordedBinds, Shape, setup' = setup, work[a].pc = "from",
         NEW from, NEW i \in DOMAIN records, NEW rest,
         LET Dests == {Clean(b[2]) : b \in {c \in ToSet(records[i].binds) : Len(c) > 1}} IN
         work' = [work EXCEPT
           ![a].binds = @ \o VolumesFrom(from, records[i].binds), ![a].from = rest,
           ![a].inherited = IF from.mode = "ro" THEN @ \cup Dests ELSE @ \ Dests]
  PROVE  Inherits(a)'
<1> DEFINE theirs == records[i].binds
           Dests == {Clean(b[2]) : b \in {c \in ToSet(theirs) : Len(c) > 1}}
           more == VolumesFrom(from, theirs)
           p == Parsed(work[a].binds)
           q == Parsed(more)
<1>1. AreBinds(theirs) /\ AreBinds(work[a].binds)
  BY DEF Inherits, RecordedBinds
<1>2. /\ work'[a].binds = work[a].binds \o more /\ work'[a].pc = "from" /\ work'[a].asked = work[a].asked
      /\ work'[a].inherited = IF from.mode = "ro" THEN work[a].inherited \cup Dests ELSE work[a].inherited \ Dests
  BY DEF Shape, WorkFields
<1>3. /\ AreBinds(more) /\ DOMAIN q = DOMAIN theirs
      /\ \A j \in DOMAIN theirs : /\ q[j].dest = ParseBind(theirs[j]).dest
                                  /\ q[j].kind = ParseBind(theirs[j]).kind
                                  /\ from.mode = "ro" => ~q[j].rw
  BY <1>1, FromOther
<1> HIDE DEF more
<1>4. AreBinds(work'[a].binds) /\ Parsed(work'[a].binds) = p \o q
  <2>1. AreBinds(work[a].binds \o more) /\ Parsed(work[a].binds \o more) = p \o q
    BY <1>1, <1>3, ParsedJoined
  <2>2. work'[a].binds = work[a].binds \o more
    BY <1>2
  <2> HIDE DEF p, q
  <2> QED
    BY <2>1, <2>2
<1>5. p \in Seq(ToSet(p)) /\ q \in Seq(ToSet(q))
  BY <1>1, <1>3, ParsedIsSeq
<1> DEFINE r == p \o q
<1>6. ASSUME ~Fails(r), NEW d \in work'[a].inherited PROVE EndsReadOnly(r, d)
  <2>1. /\ ~Fails(p) /\ ~Fails(q) /\ (EndsReadOnly(q, d) => EndsReadOnly(r, d))
        /\ EndsReadOnly(p, d) /\ (\A j \in DOMAIN q : q[j].dest # d) => EndsReadOnly(r, d)
    BY <1>5, <1>6, Joined
  <2> HIDE DEF p, q, r
  <2>2. ASSUME NEW j \in DOMAIN q PROVE q[j].dest \in Dests
    <3>1. Len(theirs[j]) > 1 /\ q[j].dest = Clean(theirs[j][2])
      <4>1. q[j].kind # "bad" /\ IsBind(theirs[j]) /\ j \in DOMAIN theirs
        BY <1>1, <1>3, <2>1 DEF Fails, AreBinds
      <4> QED
        BY <1>3, <4>1, ParsedDest
    <3>2. theirs[j] \in ToSet(theirs)
      BY <1>3 DEF ToSet
    <3> QED
      BY <3>1, <3>2
  <2>3. CASE d \in Dests
    <3>1. from.mode = "ro"
      BY <1>2, <1>6, <2>3
    <3>2. PICK j \in DOMAIN theirs : Len(theirs[j]) > 1 /\ Clean(theirs[j][2]) = d
      BY <2>3 DEF ToSet
    <3>3. WantsReadOnly(q, j, d)
      <4>1. IsBind(theirs[j]) /\ ~q[j].rw /\ j \in DOMAIN q
        BY <1>1, <1>3, <3>1, <3>2 DEF AreBinds
      <4> QED
        BY <1>3, <3>2, <4>1, ParsedDest DEF WantsReadOnly
    <3>4. EndsReadOnly(q, d)
      BY <1>3, <3>1, <3>3 DEF EndsReadOnly, WantsReadOnly
    <3> QED
      BY <2>1, <3>4
  <2>4. CASE d \notin Dests
    <3>1. d \in work[a].inherited
      BY <1>2, <1>6, <2>4
    <3>2. EndsReadOnly(p, d)
      BY <2>1, <3>1 DEF Inherits, p
    <3> QED
      BY <2>1, <2>2, <2>4, <3>2
  <2> QED
    BY <2>3, <2>4
<1> HIDE DEF p, q, r, theirs, Dests
<1>7. Fails(Parsed(work'[a].binds)) \/ \A d \in work'[a].inherited : EndsReadOnly(Parsed(work'[a].binds), d)
  BY <1>4, <1>6 DEF r
<1>8. work[a].asked \in Seq(ToSet(work[a].asked))
  BY DEF Inherits
<1> QED
  BY <1>2, <1>4, <1>7, <1>8 DEF Inherits, Before

LEMMA FromInherits ==
  ASSUME ComposedInv, NEW a \in Callers, Inherits(a), RecordedBinds, setup' = setup, CreateVolumesFrom(a)
  PROVE  Inherits(a)'
<1>1. Shape /\ work[a].pc = "from"
  BY DEF ComposedInv, CatalogInv, CreateVolumesFrom, Is
<1>2. CASE Move(a, "undo")
  <2>1. Passes(a)
    BY <1>1, <1>2 DEF Move, Shape, WorkFields, Passes, Before
  <2> QED
    BY <2>1, PassesInherits
<1>3. CASE work[a].from # <<>> /\ ~Move(a, "undo")
  <2> DEFINE from == work[a].from[1]
             Dests(i) == {Clean(b[2]) : b \in {c \in ToSet(records[i].binds) : Len(c) > 1}}
  <2>1. PICK i \in Lookup(from.name) :
          work' = [work EXCEPT
            ![a].binds = @ \o VolumesFrom(from, records[i].binds), ![a].from = Tail(work[a].from),
            ![a].inherited = IF from.mode = "ro" THEN @ \cup Dests(i) ELSE @ \ Dests(i)]
    BY <1>3 DEF CreateVolumesFrom
  <2>2. i \in DOMAIN records
    BY LookupFinds
  <2> DEFINE rest == Tail(work[a].from)
  <2> HIDE DEF from, rest
  <2> QED
    BY <1>1, <2>1, <2>2, MoreInherited DEF rest
<1>4. CASE work[a].from = <<>>
  <2> DEFINE mounts == Request(a).mounts
             p == Parsed(work[a].binds)
             q == ParsedMounts(mounts)
             r == p \o q
  <2>1. work' = [work EXCEPT ![a].pc = "volumes", ![a].asked = r]
    BY <1>4 DEF CreateVolumesFrom, Asked, Parsed, ParsedMounts
  <2>2. /\ work'[a].pc = "volumes" /\ work'[a].asked = r /\ work'[a].binds = work[a].binds
        /\ work'[a].inherited = work[a].inherited /\ work'[a].seen = work[a].seen
    BY <1>1, <2>1 DEF Shape, WorkFields
  <2>3. AreBinds(work[a].binds) /\ mounts \in Seq(ToSet(mounts))
    <3>1. setup[a].op = "create" /\ setup \in Setups
      BY <1>1 DEF ComposedInv, CatalogInv, Roles, Stored, Mounted, Late, Creator, Request
    <3> QED
      BY <3>1, BindsAssumption DEF Inherits, Request
  <2>4. p \in Seq(ToSet(p)) /\ q \in Seq(ToSet(q)) /\ DOMAIN q = DOMAIN mounts /\ \A j \in DOMAIN mounts : q[j] = ParseMount(mounts[j])
    BY <2>3, ParsedIsSeq, ParsedMountsIsSeq
  <2>5. r \in Seq(ToSet(r))
    BY <2>4, Concatenated
  <2>6. ASSUME ~Fails(r), NEW d \in work[a].inherited PROVE Replaced(a, d) \/ EndsReadOnly(r, d)
    <3>1. /\ ~Fails(p) /\ ~Fails(q)
          /\ EndsReadOnly(p, d) /\ (\A j \in DOMAIN q : q[j].dest # d) => EndsReadOnly(r, d)
      BY <2>4, <2>6, Joined
    <3>2. EndsReadOnly(p, d)
      BY <1>1, <2>6, <3>1 DEF Inherits
    <3>3. ASSUME NEW j \in DOMAIN q, q[j].dest = d PROVE Replaced(a, d)
      <4>1. j \in DOMAIN mounts /\ q[j] = ParseMount(mounts[j]) /\ q[j].kind # "bad"
        BY <2>4, <3>1, <3>3 DEF Fails
      <4>2. Clean(mounts[j].target) = d
        <5> DEFINE m == mounts[j]
        <5>1. ParseMount(m).kind # "bad" /\ ParseMount(m).dest = d
          BY <3>3, <4>1
        <5> HIDE DEF m
        <5>2. ParseMount(m).dest = Clean(m.target)
          <6>1. m.type \in {"host", "volume", "tmpfs"}
            BY <5>1 DEF ParseMount, Bad
          <6>2. ParseMount(m) = [kind |-> m.type, src |-> m.source, dest |-> Clean(m.target), rw |-> ~m.readOnly]
            BY <6>1 DEF ParseMount
          <6> QED
            BY <6>2
        <5> QED
          BY <5>1, <5>2 DEF m
      <4>3. mounts[j] \in ToSet(mounts)
        BY <4>1 DEF ToSet
      <4> QED
        BY <4>2, <4>3 DEF Replaced
    <3> HIDE DEF p, q, r
    <3> QED
      BY <3>1, <3>2, <3>3
  <2>7. \A d : Replaced(a, d)' <=> Replaced(a, d)
    BY DEF Replaced, Request
  <2> HIDE DEF r, p, q
  <2> QED
    BY <2>2, <2>3, <2>5, <2>6, <2>7 DEF Inherits, Before
<1> QED
  BY <1>2, <1>3, <1>4

LEMMA TailOf ==
  ASSUME NEW q, q \in Seq(ToSet(q)), q # <<>>
  PROVE  /\ Tail(q) \in Seq(ToSet(Tail(q)))
         /\ Fails(q) => Head(q).kind = "bad" \/ Fails(Tail(q))
         /\ \A d : EndsReadOnly(q, d) =>
              \/ EndsReadOnly(Tail(q), d)
              \/ Head(q).dest = d /\ ~Head(q).rw /\ \A j \in DOMAIN Tail(q) : Tail(q)[j].dest # d
         /\ \A d : (\A j \in DOMAIN q : q[j].dest # d) => Head(q).dest # d /\ \A j \in DOMAIN Tail(q) : Tail(q)[j].dest # d
<1> DEFINE t == Tail(q)
<1>1. /\ Len(q) \in Nat /\ Len(q) > 0 /\ Len(t) = Len(q) - 1 /\ DOMAIN q = 1..Len(q) /\ DOMAIN t = 1..Len(t)
      /\ Head(q) = q[1] /\ \A j \in 1..Len(t) : t[j] = q[j + 1]
  OBVIOUS
<1>2. t \in Seq(ToSet(t))
  <2>1. t \in Seq(ToSet(q))
    OBVIOUS
  <2> HIDE DEF t
  <2> QED
    BY <2>1, SeqOfItself
<1> HIDE DEF t
<1>3. \A i \in DOMAIN q : i = 1 \/ (i - 1 \in DOMAIN t /\ t[i - 1] = q[i])
  BY <1>1
<1>4. Fails(q) => Head(q).kind = "bad" \/ Fails(t)
  BY <1>1, <1>3 DEF Fails
<1>5. ASSUME NEW d, EndsReadOnly(q, d)
      PROVE  \/ EndsReadOnly(t, d)
             \/ Head(q).dest = d /\ ~Head(q).rw /\ \A j \in DOMAIN t : t[j].dest # d
  <2>1. ASSUME NEW i \in DOMAIN q, WantsReadOnly(q, i, d), i # 1 PROVE WantsReadOnly(t, i - 1, d) /\ i - 1 \in DOMAIN t
    BY <1>3, <2>1 DEF WantsReadOnly
  <2>2. CASE \E i \in DOMAIN q : WantsReadOnly(q, i, d) /\ i # 1
    <3>1. \E i \in DOMAIN t : WantsReadOnly(t, i, d)
      BY <2>1, <2>2
    <3>2. ASSUME NEW k \in DOMAIN t, t[k].dest = d, t[k].rw PROVE \E j \in DOMAIN t : k < j /\ WantsReadOnly(t, j, d)
      <4>1. k + 1 \in DOMAIN q /\ q[k + 1].dest = d /\ q[k + 1].rw
        BY <1>1, <3>2
      <4>2. PICK j \in DOMAIN q : k + 1 < j /\ WantsReadOnly(q, j, d)
        BY <1>5, <4>1 DEF EndsReadOnly
      <4>3. j # 1 /\ k < j - 1
        BY <1>1, <4>2
      <4> QED
        BY <2>1, <4>2, <4>3
    <3> QED
      BY <3>1, <3>2 DEF EndsReadOnly
  <2>3. CASE \A i \in DOMAIN q : WantsReadOnly(q, i, d) => i = 1
    <3>1. WantsReadOnly(q, 1, d)
      BY <1>5, <2>3 DEF EndsReadOnly
    <3>2. ASSUME NEW j \in DOMAIN t, t[j].dest = d PROVE FALSE
      <4>1. j + 1 \in DOMAIN q /\ q[j + 1].dest = d /\ j + 1 # 1
        BY <1>1, <3>2
      <4>2. ~WantsReadOnly(q, j + 1, d)
        BY <2>3, <4>1
      <4>3. q[j + 1].rw
        BY <4>1, <4>2 DEF WantsReadOnly
      <4>4. PICK k \in DOMAIN q : j + 1 < k /\ WantsReadOnly(q, k, d)
        BY <1>5, <4>1, <4>3 DEF EndsReadOnly
      <4> QED
        BY <1>1, <2>3, <4>4
    <3> QED
      BY <1>1, <3>1, <3>2 DEF WantsReadOnly
  <2> QED
    BY <2>2, <2>3
<1>6. ASSUME NEW d, \A j \in DOMAIN q : q[j].dest # d PROVE Head(q).dest # d /\ \A j \in DOMAIN t : t[j].dest # d
  <2>1. 1 \in DOMAIN q /\ \A j \in DOMAIN t : j + 1 \in DOMAIN q /\ t[j] = q[j + 1]
    BY <1>1
  <2>2. Head(q).dest # d
    BY <1>1, <1>6, <2>1
  <2>3. \A j \in DOMAIN t : t[j].dest # d
    BY <1>6, <2>1
  <2> QED
    BY <2>2, <2>3
<1> QED
  BY <1>2, <1>4, <1>5, <1>6 DEF t

\* One of the requests is met, and the mount is seen.
LEMMA SeenInherits ==
  ASSUME NEW a \in Callers, Inherits(a), Shape, setup' = setup,
         work[a].pc \in {"volumes", "ensuring"}, work[a].asked # <<>>, Head(work[a].asked).kind # "bad",
         NEW name, LET m == Head(work[a].asked) IN See(a, m.dest, [name |-> name, rw |-> m.rw], Tail(work[a].asked))
  PROVE  Inherits(a)'
<1> DEFINE q == work[a].asked
           t == Tail(q)
           m == Head(q)
<1>1. /\ work'[a].pc = "volumes" /\ work'[a].asked = t /\ work'[a].binds = work[a].binds
      /\ work'[a].inherited = work[a].inherited /\ work'[a].seen = Put(work[a].seen, m.dest, [name |-> name, rw |-> m.rw])
  BY DEF See, Shape, WorkFields
<1>2. /\ work'[a].seen[m.dest].rw = m.rw /\ m.dest \in DOMAIN work'[a].seen
      /\ \A d \in DOMAIN work[a].seen : d \in DOMAIN work'[a].seen /\ (d # m.dest => work'[a].seen[d] = work[a].seen[d])
  BY <1>1 DEF Put
<1>3. AreBinds(work[a].binds) /\ q \in Seq(ToSet(q))
  BY DEF Inherits
<1> HIDE DEF q
<1>4. /\ t \in Seq(ToSet(t)) /\ (Fails(q) => m.kind = "bad" \/ Fails(t))
      /\ \A d : EndsReadOnly(q, d) => EndsReadOnly(t, d) \/ (m.dest = d /\ ~m.rw /\ \A j \in DOMAIN t : t[j].dest # d)
      /\ \A d : (\A j \in DOMAIN q : q[j].dest # d) => m.dest # d /\ \A j \in DOMAIN t : t[j].dest # d
  BY <1>3, TailOf DEF q
<1> HIDE DEF t, m
<1>5. \A d : Replaced(a, d)' <=> Replaced(a, d)
  BY DEF Replaced, Request
<1>6. ASSUME ~Fails(t), NEW d \in work[a].inherited, ~Replaced(a, d), ~EndsReadOnly(t, d)
      PROVE  (\A j \in DOMAIN t : t[j].dest # d) /\ SeenReadOnly(a, d)'
  <2>1. ~Fails(q)
    BY <1>4, <1>6 DEF q, m
  <2>2. EndsReadOnly(q, d) \/ ((\A j \in DOMAIN q : q[j].dest # d) /\ SeenReadOnly(a, d))
    BY <1>6, <2>1 DEF Inherits, q
  <2>3. CASE EndsReadOnly(q, d)
    BY <1>2, <1>4, <1>6, <2>3 DEF SeenReadOnly
  <2>4. CASE (\A j \in DOMAIN q : q[j].dest # d) /\ SeenReadOnly(a, d)
    BY <1>2, <1>4, <2>4 DEF SeenReadOnly
  <2> QED
    BY <2>2, <2>3, <2>4
<1> QED
  BY <1>1, <1>3, <1>4, <1>5, <1>6 DEF Inherits, Before

\* The rest of what a creation asks for.
LEMMA AskedInherits ==
  ASSUME ComposedInv, NEW a \in Callers, Inherits(a), setup' = setup,
         CreateAsked(a) \/ CreateUncovered(a) \/ CreateEnsured(a)
  PROVE  Inherits(a)'
<1>1. Shape
  BY DEF ComposedInv, CatalogInv
<1>2. CASE Move(a, "undo")
  <2>1. Passes(a)
    BY <1>1, <1>2 DEF Move, Shape, WorkFields, Passes, Before
  <2> QED
    BY <2>1, PassesInherits
<1>3. CASE CreateAsked(a) /\ ~Move(a, "undo")
  <2>1. work[a].pc = "volumes" /\ work[a].asked # <<>> /\ Head(work[a].asked).kind # "bad"
    BY <1>3 DEF CreateAsked, Is
  <2>2. CASE Move(a, "ensuring")
    <3>1. /\ work'[a].pc = "ensuring" /\ work'[a].asked = work[a].asked /\ work'[a].binds = work[a].binds
          /\ work'[a].inherited = work[a].inherited /\ work'[a].seen = work[a].seen
      BY <1>1, <2>2 DEF Move, Shape, WorkFields
    <3>2. \A d : (Replaced(a, d)' <=> Replaced(a, d)) /\ (SeenReadOnly(a, d)' <=> SeenReadOnly(a, d))
      BY <3>1 DEF Replaced, Request, SeenReadOnly
    <3> QED
      BY <2>1, <3>1, <3>2 DEF Inherits, Before
  <2>3. CASE ~Move(a, "ensuring")
    <3>1. LET m == Head(work[a].asked) IN See(a, m.dest, [name |-> "", rw |-> m.rw], Tail(work[a].asked))
      BY <1>3, <2>3 DEF CreateAsked
    <3> QED
      BY <1>1, <2>1, <3>1, SeenInherits
  <2> QED
    BY <2>2, <2>3
<1>4. CASE CreateEnsured(a) /\ ~Move(a, "undo")
  <2>1. /\ work[a].pc = "ensuring"
        /\ LET m == Head(work[a].asked) IN See(a, m.dest, [name |-> Name(a), rw |-> m.rw], Tail(work[a].asked))
    BY <1>4 DEF CreateEnsured, Is
  <2>2. work[a].asked # <<>> /\ Head(work[a].asked).kind # "bad"
    BY <2>1 DEF Inherits
  <2> QED
    BY <1>1, <2>1, <2>2, SeenInherits
<1>5. CASE CreateUncovered(a)
  <2>1. PICK d \in Uncovered(Request(a).volumes, work[a].seen) :
          work' = [work EXCEPT ![a].asked = <<[kind |-> "volume", src |-> "", dest |-> d, rw |-> TRUE]>>]
    BY <1>5 DEF CreateUncovered
  <2> DEFINE m == [kind |-> "volume", src |-> "", dest |-> d, rw |-> TRUE]
             q == <<m>>
  <2>2. work[a].pc = "volumes" /\ work[a].asked = <<>>
    BY <1>5 DEF CreateUncovered, Is
  <2>3. /\ work'[a].pc = "volumes" /\ work'[a].asked = q /\ work'[a].binds = work[a].binds
        /\ work'[a].inherited = work[a].inherited /\ work'[a].seen = work[a].seen
    BY <1>1, <2>1, <2>2 DEF Shape, WorkFields
  <2>4. q \in Seq({m}) /\ (\A j \in DOMAIN q : q[j].dest = d)
    <3>1. m.dest = d
      OBVIOUS
    <3> HIDE DEF m
    <3>2. q \in Seq({m}) /\ \A j \in DOMAIN q : q[j] = m
      OBVIOUS
    <3> QED
      BY <3>1, <3>2
  <2>5. d \notin DOMAIN work[a].seen
    BY <2>1 DEF Uncovered
  <2>6. DOMAIN work[a].asked = {}
    BY <2>2
  <2>7. \A c : (Replaced(a, c)' <=> Replaced(a, c)) /\ (SeenReadOnly(a, c)' <=> SeenReadOnly(a, c))
    BY <2>3 DEF Replaced, Request, SeenReadOnly
  <2>8. \A c \in work[a].inherited : Replaced(a, c) \/ SeenReadOnly(a, c)
    BY <2>2, <2>6 DEF Inherits, Fails, EndsReadOnly
  <2> HIDE DEF q
  <2>9. \A c \in work[a].inherited : Replaced(a, c) \/ ((\A j \in DOMAIN q : q[j].dest # c) /\ SeenReadOnly(a, c))
    BY <2>4, <2>5, <2>8 DEF SeenReadOnly
  <2>10. q \in Seq(ToSet(q)) /\ AreBinds(work[a].binds)
    BY <2>4, SeqOfItself DEF Inherits
  <2> QED
    BY <2>3, <2>7, <2>9, <2>10 DEF Inherits, Before
<1> QED
  BY <1>2, <1>3, <1>4, <1>5

\* Every other turn of a request leaves what it has collected alone, or is one
\* in which it has collected nothing or has everything in what it has seen.
LEMMA CreationInherits ==
  ASSUME ComposedInv, NEW a \in Callers, Inherits(a), RecordedBinds, setup' = setup, CreateStep(a)
  PROVE  Inherits(a)'
<1>1. Shape
  BY DEF ComposedInv, CatalogInv
<1>2. ASSUME NEW label, Move(a, label), label \notin {"from", "volumes", "ensuring", "spec", "record"},
             label \in Before => work[a].pc \in Before
      PROVE  Inherits(a)'
  <2>1. Passes(a)
    BY <1>1, <1>2 DEF Move, Shape, WorkFields, Passes
  <2> QED
    BY <2>1, PassesInherits
<1>3. CASE CreateName(a) \/ CreateImage(a) \/ CreateConfig(a)
  <2>1. work[a].pc \in Before
    BY <1>3 DEF CreateName, CreateImage, CreateConfig, Is, Before
  <2>2. CASE Move(a, "failed")
    BY <1>2, <2>2 DEF Before
  <2>3. CASE ~Move(a, "failed")
    <3>1. Passes(a)
      <4>1. CASE CreateName(a)
        <5>1. PICK n : work' = [work EXCEPT ![a].pc = "image", ![a].name = n]
          BY <4>1 DEF CreateName
        <5> QED
          BY <1>1, <2>1, <5>1 DEF Shape, Passes, WorkFields, Before
      <4>2. CASE CreateImage(a)
        <5>1. PICK i : work' = [work EXCEPT ![a].pc = "config", ![a].image = i]
          BY <2>3, <4>2 DEF CreateImage
        <5> QED
          BY <1>1, <2>1, <5>1 DEF Shape, Passes, WorkFields, Before
      <4>3. CASE CreateConfig(a)
        <5>1. PICK c : work' = [work EXCEPT ![a].pc = "storage", ![a].config = c]
          BY <2>3, <4>3 DEF CreateConfig
        <5> QED
          BY <1>1, <2>1, <5>1 DEF Shape, Passes, WorkFields, Before
      <4> QED
        BY <1>3, <4>1, <4>2, <4>3
    <3> QED
      BY <3>1, PassesInherits
  <2> QED
    BY <2>2, <2>3
<1>4. CASE CreateStorage(a) \/ CreateMount(a)
  <2>1. work[a].pc \in Before /\ \E label \in {"mount", "failed", "bundle"} : Move(a, label)
    BY <1>4 DEF CreateStorage, CreateMount, Is, Before
  <2> QED
    BY <1>2, <2>1
<1>5. CASE CreateBundle(a)
  <2>1. work[a].pc = "bundle" /\ work[a].inherited = {}
    BY <1>5 DEF CreateBundle, Is, Inherits, Before
  <2>2. /\ work'[a].pc = "from" /\ work'[a].binds = Request(a).binds /\ work'[a].asked = work[a].asked
        /\ work'[a].inherited = work[a].inherited
    BY <1>1, <1>5 DEF CreateBundle, Shape, WorkFields
  <2>3. AreBinds(Request(a).binds)
    <3>1. setup[a].op = "create" /\ setup \in Setups
      BY <2>1 DEF ComposedInv, CatalogInv, Roles, Stored, Mounted, Creator, Request
    <3> QED
      BY <3>1, BindsAssumption DEF Request
  <2> QED
    BY <2>1, <2>2, <2>3 DEF Inherits, Before
<1>6. CASE CreateVolumesFrom(a)
  BY <1>6, FromInherits
<1>7. CASE CreateAsked(a) \/ CreateUncovered(a) \/ CreateEnsured(a)
  BY <1>7, AskedInherits
<1>8. CASE CreateTarget(a) \/ CreateSpec(a)
  <2>1. CASE Move(a, "undo")
    BY <1>2, <2>1 DEF Before
  <2>2. CASE ~Move(a, "undo")
    <3>1. \/ work[a].pc = "volumes" /\ work[a].asked = <<>> /\ Move(a, "spec")
          \/ work[a].pc = "spec" /\ Move(a, "record")
      BY <1>8, <2>2 DEF CreateTarget, CreateSpec, Is
    <3>2. /\ work'[a].pc \in {"spec", "record"} /\ work'[a].asked = work[a].asked /\ work'[a].binds = work[a].binds
          /\ work'[a].inherited = work[a].inherited /\ work'[a].seen = work[a].seen
      BY <1>1, <3>1 DEF Move, Shape, WorkFields
    <3>3. \A c : (Replaced(a, c)' <=> Replaced(a, c)) /\ (SeenReadOnly(a, c)' <=> SeenReadOnly(a, c))
      BY <3>2 DEF Replaced, Request, SeenReadOnly
    <3>4. work[a].asked = <<>> => DOMAIN work[a].asked = {}
      OBVIOUS
    <3>5. \A c \in work[a].inherited : Replaced(a, c) \/ SeenReadOnly(a, c)
      BY <3>1, <3>4 DEF Inherits, Fails, EndsReadOnly
    <3> QED
      BY <3>2, <3>3, <3>5 DEF Inherits, Before
  <2> QED
    BY <2>1, <2>2
<1>9. CASE CreateRecord(a) \/ CreateBundlePath(a) \/ CreateUnrecord(a) \/ CreateUndo(a)
  <2>1. \E label \in {"undo", "path", "done", "failed"} : Move(a, label)
    BY <1>9 DEF CreateRecord, CreateBundlePath, CreateUnrecord, CreateUndo
  <2> QED
    BY <1>2, <2>1 DEF Before
<1> QED
  BY <1>3, <1>4, <1>5, <1>6, <1>7, <1>8, <1>9 DEF CreateStep

\* What a creation records are binds, and nobody changes those of a record.
LEMMA RecordedStay ==
  ASSUME ComposedInv, InheritInv, [Next]_vars
  PROVE  RecordedBinds'
<1>1. ASSUME \A i \in DOMAIN records' : i \in DOMAIN records /\ records'[i].binds = records[i].binds PROVE RecordedBinds'
  BY <1>1 DEF InheritInv, RecordedBinds
<1>2. CASE records' = records
  BY <1>1, <1>2
<1>3. CASE Crash
  <2>1. PICK dead : records' = [i \in DOMAIN records \ dead |-> [records[i] EXCEPT !.status = "exited"]]
    BY <1>3 DEF Crash
  <2>2. \A i \in DOMAIN records' : i \in DOMAIN records /\ records'[i].binds = records[i].binds
    BY <2>1 DEF ComposedInv, RecordsNamed
  <2> QED
    BY <1>1, <2>2
<1>4. ASSUME NEW a \in Callers, CreateUnrecord(a) \/ RemoveRecord(a) PROVE RecordedBinds'
  <2>1. \A i \in DOMAIN records' : i \in DOMAIN records /\ records'[i] = records[i]
    BY <1>4 DEF CreateUnrecord, RemoveRecord, DeleteContainer, Without, Restrict
  <2> QED
    BY <1>1, <2>1
<1>5. ASSUME NEW a \in Callers, CreateRecord(a), records' # records PROVE RecordedBinds'
  <2>1. records' = Put(records, a, [name |-> work[a].name, image |-> work[a].image, status |-> "created",
                                    binds |-> work[a].binds, mounts |-> work[a].seen])
    BY <1>5 DEF CreateRecord, StoreContainer
  <2>2. records'[a].binds = work[a].binds /\ \A i \in DOMAIN records' \ {a} : i \in DOMAIN records /\ records'[i] = records[i]
    BY <2>1 DEF Put
  <2>3. AreBinds(work[a].binds)
    BY DEF InheritInv, Inherits
  <2> QED
    BY <2>2, <2>3 DEF InheritInv, RecordedBinds
<1>6. CASE \A a \in Callers : ~CreateUnrecord(a) /\ ~RemoveRecord(a) /\ ~CreateRecord(a)
  <2>1. ASSUME NEW a \in Callers, Step(a) PROVE records' = records
    <3>1. CASE CreateStep(a)
      BY <1>6, <3>1 DEF CreateStep, CreateName, CreateImage, CreateConfig, CreateStorage, CreateMount, CreateBundle,
         CreateVolumesFrom, CreateAsked, CreateUncovered, CreateEnsured, CreateTarget, CreateSpec, CreateBundlePath, CreateUndo, conVars
    <3>2. CASE RemoveStep(a)
      BY <1>6, <3>2 DEF RemoveStep, RemoveGet, RemoveStorage, RemoveBundle, conVars
    <3>3. CASE ContainerRequest(a) \/ VolumeRequest(a) \/ VolumeAnswer(a) \/ ImageRequest(a) \/ CommitRequest(a) \/ ImageAnswer(a)
      BY <3>3 DEF ContainerRequest, VolumeRequest, VolumeAnswer, ImageRequest, CommitRequest, ImageAnswer, conVars
    <3> QED
      BY <2>1, <3>1, <3>2, <3>3 DEF Step, conVars
  <2>2. ASSUME NEW a \in Callers, Fault(a) PROVE records' = records
    BY <2>2 DEF Fault, CreateFault, conVars
  <2>3. UNCHANGED vars => records' = records
    BY DEF vars, conVars
  <2> QED
    BY <1>2, <1>3, <2>1, <2>2, <2>3 DEF Next
<1> QED
  BY <1>2, <1>4, <1>5, <1>6

LEMMA NextInherits ==
  ASSUME ComposedInv, InheritInv, [Next]_vars
  PROVE  InheritInv'
<1>1. Shape /\ setup' = setup
  BY DEF ComposedInv, CatalogInv, Next, Crash, Step, Fault, vars
<1>2. ASSUME NEW w \in Callers, Passes(w) \/ work'[w] = work[w] PROVE Inherits(w)'
  BY <1>1, <1>2, PassesInherits DEF InheritInv
<1>3. ASSUME NEW w \in Callers PROVE Inherits(w)'
  <2>1. CASE UNCHANGED work
    BY <1>2, <2>1
  <2>2. CASE Crash
    <3>1. work'[w] = work[w] \/ work'[w] = [work[w] EXCEPT !.pc = "lost"]
      BY <2>2 DEF Crash
    <3> QED
      BY <1>1, <1>2, <3>1 DEF Passes, Shape, WorkFields, Before
  <2>3. ASSUME NEW a \in Callers, a # w, \E f : work' = [work EXCEPT ![a] = f] PROVE work'[w] = work[w]
    BY <1>1, <2>3 DEF Shape
  <2>4. ASSUME NEW a \in Callers, CreateStep(a) PROVE Inherits(w)'
    <3>1. CASE a = w
      BY <1>1, <2>4, <3>1, CreationInherits DEF InheritInv
    <3>2. CASE a # w
      <4>1. work'[w] = work[w]
        BY <1>1, <2>4, <3>2 DEF CreateStep, CreateName, CreateImage, CreateConfig, CreateStorage, CreateMount, CreateBundle,
           CreateVolumesFrom, CreateAsked, CreateUncovered, CreateEnsured, CreateTarget, CreateSpec, CreateRecord,
           CreateBundlePath, CreateUnrecord, CreateUndo, Move, See, Shape
      <4> QED
        BY <1>2, <4>1
    <3> QED
      BY <3>1, <3>2
  <2>5. ASSUME NEW a \in Callers, NEW label, Move(a, label), label \notin {"from", "volumes", "ensuring", "spec", "record"} \cup Before
        PROVE  Inherits(w)'
    <3>1. Passes(w) \/ work'[w] = work[w]
      BY <1>1, <2>5 DEF Move, Shape, WorkFields, Passes
    <3> QED
      BY <1>2, <3>1
  <2>6. ASSUME NEW a \in Callers, ContainerRequest(a) PROVE Inherits(w)'
    <3>1. work[a].pc = "idle" /\ (Move(a, "create") \/ Move(a, "remove"))
      BY <2>6 DEF ContainerRequest, Is
    <3>2. Passes(w) \/ work'[w] = work[w]
      BY <1>1, <3>1 DEF Move, Shape, WorkFields, Passes, Before
    <3> QED
      BY <1>2, <3>2
  <2>7. ASSUME NEW a \in Callers, RemoveGet(a) \/ CommitRequest(a) PROVE Inherits(w)'
    <3>1. CASE Move(a, "failed")
      BY <2>5, <3>1 DEF Before
    <3>2. CASE ~Move(a, "failed")
      <4>1. Passes(w) \/ work'[w] = work[w]
        <5>1. CASE RemoveGet(a)
          <6>1. PICK i : work' = [work EXCEPT ![a].pc = "unmount", ![a].id = i, ![a].name = records[i].name]
            BY <3>2, <5>1 DEF RemoveGet
          <6> QED
            BY <1>1, <6>1 DEF Shape, WorkFields, Passes, Before
        <5>2. CASE CommitRequest(a)
          <6>1. PICK i : work' = [work EXCEPT ![a].pc = "images", ![a].id = i, ![a].image = records[i].image]
            BY <3>2, <5>2 DEF CommitRequest
          <6> QED
            BY <1>1, <6>1 DEF Shape, WorkFields, Passes, Before
        <5> QED
          BY <2>7, <5>1, <5>2
      <4> QED
        BY <1>2, <4>1
    <3> QED
      BY <3>1, <3>2
  <2>8. ASSUME NEW a \in Callers, Step(a) PROVE Inherits(w)'
    <3>1. CASE VolumeRequest(a) \/ VolumeAnswer(a) \/ ImageRequest(a) \/ ImageAnswer(a)
      BY <2>5, <3>1 DEF VolumeRequest, VolumeAnswer, ImageRequest, ImageAnswer, Before
    <3>2. CASE RemoveStorage(a) \/ RemoveBundle(a) \/ RemoveRecord(a)
      BY <2>5, <3>2 DEF RemoveStorage, RemoveBundle, RemoveRecord, Before
    <3> QED
      BY <2>1, <2>4, <2>6, <2>7, <2>8, <3>1, <3>2 DEF Step, RemoveStep
  <2>9. ASSUME NEW a \in Callers, Fault(a) PROVE Inherits(w)'
    <3>1. CASE CreateFault(a)
      <4>1. \E label \in {"failed", "unrecord", "undo"} : Move(a, label)
        BY <3>1 DEF CreateFault
      <4> QED
        BY <2>5, <4>1 DEF Before
    <3> QED
      BY <2>1, <2>9, <3>1 DEF Fault
  <2> QED
    BY <2>1, <2>2, <2>8, <2>9 DEF Next, vars
<1> QED
  BY <1>3, RecordedStay DEF InheritInv

LEMMA InitInherits == Init => InheritInv
<1> SUFFICES ASSUME Init PROVE InheritInv
  OBVIOUS
<1>1. /\ records = World.records
      /\ \A w \in Callers : work[w].pc = "idle" /\ work[w].inherited = {} /\ work[w].binds = <<>> /\ work[w].asked = <<>>
  BY DEF Init, Idle
<1>2. RecordedBinds
  BY <1>1, BindsAssumption DEF RecordedBinds
<1>3. DOMAIN <<>> = {} /\ <<>> \in Seq(ToSet(<<>>))
  OBVIOUS
<1>4. AreBinds(<<>>)
  BY <1>3 DEF AreBinds
<1>5. ASSUME NEW w \in Callers PROVE Inherits(w)
  BY <1>1, <1>3, <1>4 DEF Inherits
<1> QED
  BY <1>2, <1>5 DEF InheritInv

\* Whatever --volumes-from other:ro brings is read-only in the container that is
\* recorded, for any binds of the other, any options they have and any list of
\* mounts: while the other is removed, or other creations end and become the
\* other of the next.
THEOREM InheritedStaysReadOnly == Spec => []InheritedReadOnly
<1>1. ComposedInv /\ InheritInv => InheritedReadOnly
  <2> SUFFICES ASSUME InheritInv, NEW w \in Callers, work[w].pc = "record"
               PROVE  \A d \in work[w].inherited : Replaced(w, d) \/ SeenReadOnly(w, d)
    BY DEF InheritedReadOnly, Is, Replaced, SeenReadOnly
  <2> QED
    BY DEF InheritInv, Inherits
<1>2. ComposedInv /\ InheritInv /\ [Next]_vars => (ComposedInv /\ InheritInv)'
  BY NextComposed, NextInherits
<1> QED
  BY <1>1, <1>2, InitComposed, InitInherits, PTL DEF Spec

=============================================================================
