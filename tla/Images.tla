-------------------------------- MODULE Images --------------------------------
(***************************************************************************)
(* internal/image/store.go, commit.go, pull.go and load.go over            *)
(* containers/storage: images, their names and their OCI configuration.    *)
(*                                                                         *)
(* Every method of containers/storage that changes something is one action *)
(* (it locks its store); between two of them other requests go on.  Sizes, *)
(* layers and registries are left out.                                     *)
(***************************************************************************)
EXTENDS Naturals, FiniteSets

CONSTANTS
  Requesters,   \* goroutines that call the image store
  ImageIds,
  Refs,         \* what users call an image: an id, a short or a full name
  Full,         \* Full[r]: the fully qualified name of r
  Tagged        \* the references that name a tag

VARIABLES
  images,    \* images[i]: [present, names, data, config]
  imgCall    \* imgCall[c]: [pc, ref, id, names, todo]

imgVars == <<images, imgCall>>

NoImageCall == [pc |-> "idle", ref |-> "", id |-> {}, names |-> {}, todo |-> {}]

ImgAt(c, label) == imgCall[c].pc = label
ImgEnd(c) == imgCall' = [imgCall EXCEPT ![c] = [NoImageCall EXCEPT !.pc = "over"]]
ImgStart(c, label, ref) == ImgAt(c, "idle") /\ imgCall' = [imgCall EXCEPT ![c].pc = label, ![c].ref = ref] /\ UNCHANGED images
\* The image a call has resolved
Picked(c) == CHOOSE i \in ImageIds : i \in imgCall[c].id
-----------------------------------------------------------------------------
(* containers/storage *)

\* A name belongs to one image: who gets it takes it from the other.
Renamed(i, name) ==
  [j \in ImageIds |-> [images[j] EXCEPT !.names = IF j = i THEN @ \cup {name} ELSE @ \ {name}]]

\* An image that a storage container was made from stays.
DeleteImage(i, used) ==
  images' = IF images[i].present /\ i \notin used
            THEN [images EXCEPT ![i].present = FALSE, ![i].names = {}, ![i].data = "none"] ELSE images

(* Store *)

\* resolve: an id or a full name as it is, then what normalizeRef makes of it.
Resolve(ref) == {i \in ImageIds : images[i].present /\ (i = ref \/ ref \in images[i].names)}
ResolveAny(ref) == IF Resolve(ref) # {} THEN Resolve(ref) ELSE Resolve(Full[ref])

\* readOCIConfig: the manifest names the configuration.
Readable(i) == images[i].present /\ images[i].data = "whole"

RemoveResolve(c) ==
  /\ ImgAt(c, "remove")
  /\ \/ \E i \in ResolveAny(imgCall[c].ref) :
          imgCall' = [imgCall EXCEPT ![c].pc = "delete", ![c].id = {i}, ![c].names = images[i].names]
     \/ ResolveAny(imgCall[c].ref) = {} /\ ImgEnd(c)
  /\ UNCHANGED images

\* What to do was decided on the names the image had when it was looked up.
RemoveOrUntag(c, used) ==
  /\ ImgAt(c, "delete")
  /\ IF imgCall[c].ref \in Tagged /\ Cardinality(imgCall[c].names) > 1
     THEN images' = [images EXCEPT ![Picked(c)].names = @ \ {Full[imgCall[c].ref]}]
     ELSE DeleteImage(Picked(c), used)
  /\ ImgEnd(c)

TagResolve(c) ==
  /\ ImgAt(c, "tag")
  /\ \/ \E i \in ResolveAny(imgCall[c].ref) : imgCall' = [imgCall EXCEPT ![c].pc = "name", ![c].id = {i}]
     \/ ResolveAny(imgCall[c].ref) = {} /\ ImgEnd(c)
  /\ UNCHANGED images

TagName(c, name) ==
  /\ ImgAt(c, "name")
  /\ images' = IF images[Picked(c)].present THEN Renamed(Picked(c), name) ELSE images
  /\ ImgEnd(c)

\* The images without a name at this moment are the ones that go.
PruneImages(c) ==
  /\ ImgAt(c, "prune")
  /\ imgCall' = [imgCall EXCEPT ![c].pc = "dangling", ![c].todo = {i \in ImageIds : images[i].present /\ images[i].names = {}}]
  /\ UNCHANGED images

PruneImage(c, used) ==
  /\ ImgAt(c, "dangling")
  /\ \/ \E i \in imgCall[c].todo : DeleteImage(i, used) /\ imgCall' = [imgCall EXCEPT ![c].todo = @ \ {i}]
     \/ imgCall[c].todo = {} /\ ImgEnd(c) /\ UNCHANGED images

\* Pull, and Load image by image: containers/image writes an image whole and
\* then gives it its name, or fails and leaves none.
PullImage(c) ==
  /\ ImgAt(c, "pull")
  /\ \/ \E i \in ImageIds :
          images' = [Renamed(i, Full[imgCall[c].ref]) EXCEPT ![i].present = TRUE, ![i].data = "whole"]
     \/ UNCHANGED images
  /\ ImgEnd(c)

(* Commit: the handler's container and base image, then three writes.      *)

CommitCheck(c, ctrs, base) ==
  /\ ImgAt(c, "commit")
  /\ IF ctrs /\ base \in ImageIds /\ Readable(base)
     THEN imgCall' = [imgCall EXCEPT ![c].pc = "create", ![c].names = {Full[imgCall[c].ref]}, ![c].id = {base}]
     ELSE ImgEnd(c)
  /\ UNCHANGED images

\* CreateImage: a new id, named and without data; the configuration is the
\* base's (overrides are left out).
CommitCreate(c) ==
  /\ ImgAt(c, "create")
  /\ \E i \in ImageIds :
       /\ ~images[i].present /\ \A d \in Requesters : i \notin imgCall[d].id
       /\ images' = [j \in ImageIds |->
            IF j = i THEN [present |-> TRUE, names |-> imgCall[c].names, data |-> "none", config |-> images[Picked(c)].config]
            ELSE [images[j] EXCEPT !.names = @ \ imgCall[c].names]]
       /\ imgCall' = [imgCall EXCEPT ![c].pc = "manifest", ![c].id = {i}]

CommitData(c) ==
  /\ ImgAt(c, "manifest") \/ ImgAt(c, "config")
  /\ IF ~images[Picked(c)].present THEN ImgEnd(c) /\ UNCHANGED images
     ELSE IF ImgAt(c, "manifest")
     THEN /\ images' = [images EXCEPT ![Picked(c)].data = "manifest"]
          /\ imgCall' = [imgCall EXCEPT ![c].pc = "config"]
     ELSE images' = [images EXCEPT ![Picked(c)].data = "whole"] /\ ImgEnd(c)

\* A commit that fails on its way leaves the image, name and all.
CommitFails(c) ==
  /\ ImgAt(c, "create") \/ ImgAt(c, "manifest") \/ ImgAt(c, "config")
  /\ ImgEnd(c) /\ UNCHANGED images

ImageFault(c) == CommitFails(c)

ImagesCrash == imgCall' = [c \in Requesters |-> NoImageCall] /\ UNCHANGED images
=============================================================================
