------------------------------ MODULE EventBus ------------------------------
(***************************************************************************)
(* internal/events/bus.go and its two users: the handlers that publish     *)
(* after an operation (publishEvent) and GET /events (SystemEvents), which  *)
(* subscribes, copies its channel to the client and closes the             *)
(* subscription when the client is gone.                                   *)
(*                                                                         *)
(* Publish keeps the read lock while it offers the message to every        *)
(* subscriber; Subscribe and Close take the write lock.  A pending writer  *)
(* keeps new readers out, as sync.RWMutex does.  A channel is closed after *)
(* the write lock is released.  Each publisher is one request, each        *)
(* subscriber one GET /events; what they ask for is fixed in Init.         *)
(***************************************************************************)
EXTENDS Naturals, Sequences, FiniteSets, SequencesExt

CONSTANTS
  Publishers,   \* requests whose handler publishes
  Subscribers,  \* requests that listen
  Cap,          \* subscriberBufSize
  MaxEvents,    \* how many messages one handler publishes
  Setups        \* [script, query]: what the handlers publish, the listeners ask for

ASSUME CapAssumption == Cap \in Nat \ {0}
ASSUME SetupsAssumption ==
  /\ MaxEvents \in Nat
  /\ \A x \in Setups : \A p \in Publishers : Len(x.script[p]) \in 0 .. MaxEvents

VARIABLES
  subscribers,  \* Bus.subscribers: id -> the listener that owns it
  nextID,       \* Bus.nextID
  chan,         \* chan[s]: [buf, closed], the subscription's channel
  pub,          \* pub[p]: [pc, n, todo], the handler's loop over subscribers
  reader,       \* reader[s]: [pc, id], the GET /events request
  taken,        \* taken[s]: messages received from the channel, as <<p, n>>
  script,       \* script[p]: the messages p publishes
  query         \* query[s]: the filters query of s, [valid, filters]

vars == <<subscribers, nextID, chan, pub, reader, taken, script, query>>

Event(p) == <<p, pub[p].n>>
Message(e) == script[e[1]][e[2]]
-----------------------------------------------------------------------------
(* Filters. Ids, names and references are sequences of symbols.            *)

NoFilter == [types |-> {}, actions |-> {}, actors |-> [container |-> {}, image |-> {}, network |-> {}, volume |-> {}], labels |-> {}]

\* A query that is absent or no JSON asks for everything.
ParseFilters(raw) == IF raw.valid THEN raw.filters ELSE NoFilter

Attribute(m, k) == IF k \in DOMAIN m.attrs THEN m.attrs[k] ELSE <<>>

MatchesActor(refs, m) ==
  \E r \in refs : IsPrefix(r, m.id) \/ Attribute(m, "name") = r

MatchesActorFilter(m, f) ==
  LET refs == IF m.type \in DOMAIN f.actors THEN f.actors[m.type] ELSE {} IN
  refs = {} \/ MatchesActor(refs, m)

MatchesLabels(labels, attrs) ==
  \A l \in labels : /\ l.key \in DOMAIN attrs
                    /\ l.hasValue => attrs[l.key] = l.value

MatchesFilters(m, f) ==
  /\ f.types = {} \/ m.type \in f.types
  /\ f.actions = {} \/ m.action \in f.actions
  /\ MatchesActorFilter(m, f)
  /\ MatchesLabels(f.labels, m.attrs)
-----------------------------------------------------------------------------
(* What the handlers publish once the operation has succeeded.             *)

Msg(type, action, id, attrs) == [type |-> type, action |-> action, id |-> id, attrs |-> attrs]
NoAttrs == [k \in {} |-> <<>>]

ContainerCreate(id, name, image) == <<Msg("container", "create", id, [name |-> name, image |-> image])>>
ContainerStop(ref) == <<Msg("container", "stop", ref, NoAttrs), Msg("container", "die", ref, NoAttrs)>>
ContainerKill(ref, signal) ==
  <<Msg("container", "kill", ref, [signal |-> signal]), Msg("container", "die", ref, NoAttrs)>>
VolumeDelete(name) == <<Msg("volume", "destroy", name, NoAttrs)>>
ImageTag(name, ref) == <<Msg("image", "tag", name, [name |-> ref])>>
-----------------------------------------------------------------------------
Init ==
  /\ subscribers = [i \in {} |-> {}]
  /\ nextID = 0
  /\ chan = [s \in Subscribers |-> [buf |-> <<>>, closed |-> FALSE]]
  /\ pub = [p \in Publishers |-> [pc |-> "ready", n |-> 0, todo |-> {}]]
  /\ reader = [s \in Subscribers |-> [pc |-> "idle", id |-> 0]]
  /\ taken = [s \in Subscribers |-> <<>>]
  /\ \E x \in Setups : script = x.script /\ query = x.query

(* sync.RWMutex: readers share, a waiting writer stops new readers.        *)
Reading == {p \in Publishers : pub[p].pc = "sending"}
WriterWaits == \E s \in Subscribers : reader[s].pc \in {"subscribing", "closing"}

\* Publish, up to the loop: the map cannot change while the read lock is held.
Publish(p) ==
  /\ pub[p].pc = "ready" /\ pub[p].n < Len(script[p])
  /\ ~WriterWaits
  /\ pub' = [pub EXCEPT ![p] = [pc |-> "sending", n |-> @.n + 1, todo |-> DOMAIN subscribers]]
  /\ UNCHANGED <<subscribers, nextID, chan, reader, taken, script, query>>

\* Mutants of Send: the select without its default; the oldest message makes room.
SendBlocks(p, i) ==
  LET s == subscribers[i]
      wanted == MatchesFilters(Message(Event(p)), ParseFilters(query[s])) IN
  /\ pub[p].pc = "sending" /\ i \in pub[p].todo
  /\ wanted => Len(chan[s].buf) < Cap
  /\ pub' = [pub EXCEPT ![p].todo = @ \ {i}]
  /\ chan' = IF wanted THEN [chan EXCEPT ![s].buf = Append(@, Event(p))] ELSE chan
  /\ UNCHANGED <<subscribers, nextID, reader, taken, script, query>>

SendDropsOldest(p, i) ==
  LET s == subscribers[i] IN
  /\ pub[p].pc = "sending" /\ i \in pub[p].todo
  /\ pub' = [pub EXCEPT ![p].todo = @ \ {i}]
  /\ chan' = IF ~MatchesFilters(Message(Event(p)), ParseFilters(query[s])) THEN chan
             ELSE [chan EXCEPT ![s].buf = Append(IF Len(@) < Cap THEN @ ELSE Tail(@), Event(p))]
  /\ UNCHANGED <<subscribers, nextID, reader, taken, script, query>>

\* One turn of the loop, in the map's order: any.
Send(p, i) ==
  LET s == subscribers[i] IN
  /\ pub[p].pc = "sending" /\ i \in pub[p].todo
  /\ pub' = [pub EXCEPT ![p].todo = @ \ {i}]
  /\ chan' = IF MatchesFilters(Message(Event(p)), ParseFilters(query[s])) /\ Len(chan[s].buf) < Cap
             THEN [chan EXCEPT ![s].buf = Append(@, Event(p))]
             ELSE chan
  /\ UNCHANGED <<subscribers, nextID, reader, taken, script, query>>

PublishEnd(p) ==
  /\ pub[p].pc = "sending" /\ pub[p].todo = {}
  /\ pub' = [pub EXCEPT ![p].pc = "ready"]
  /\ UNCHANGED <<subscribers, nextID, chan, reader, taken, script, query>>

\* SystemEvents calls Subscribe, which waits for the write lock.
Request(s) ==
  /\ reader[s].pc = "idle"
  /\ reader' = [reader EXCEPT ![s].pc = "subscribing"]
  /\ UNCHANGED <<subscribers, nextID, chan, pub, taken, script, query>>

\* Mutant: the id is not consumed.
SubscribeReusesID(s) ==
  /\ reader[s].pc = "subscribing" /\ Reading = {}
  /\ subscribers' = [i \in DOMAIN subscribers \cup {nextID} |-> IF i = nextID THEN s ELSE subscribers[i]]
  /\ reader' = [reader EXCEPT ![s] = [pc |-> "reading", id |-> nextID]]
  /\ UNCHANGED <<nextID, chan, pub, taken, script, query>>

Subscribe(s) ==
  /\ reader[s].pc = "subscribing" /\ Reading = {}
  /\ subscribers' = [i \in DOMAIN subscribers \cup {nextID} |-> IF i = nextID THEN s ELSE subscribers[i]]
  /\ nextID' = nextID + 1
  /\ reader' = [reader EXCEPT ![s] = [pc |-> "reading", id |-> nextID]]
  /\ UNCHANGED <<chan, pub, taken, script, query>>

\* A message goes to the client, or fails to and ends the request.
Read(s) ==
  /\ reader[s].pc = "reading" /\ chan[s].buf # <<>>
  /\ taken' = [taken EXCEPT ![s] = Append(@, Head(chan[s].buf))]
  /\ chan' = [chan EXCEPT ![s].buf = Tail(@)]
  /\ \E pc \in {"reading", "closing"} : reader' = [reader EXCEPT ![s].pc = pc]
  /\ UNCHANGED <<subscribers, nextID, pub, script, query>>

\* The client is gone: the deferred Close waits for the write lock.
Disconnect(s) ==
  /\ reader[s].pc = "reading"
  /\ reader' = [reader EXCEPT ![s].pc = "closing"]
  /\ UNCHANGED <<subscribers, nextID, chan, pub, taken, script, query>>

\* Mutant: the entry is deleted without the lock.
CloseUnlocked(s) ==
  /\ reader[s].pc = "closing"
  /\ subscribers' = [i \in DOMAIN subscribers \ {reader[s].id} |-> subscribers[i]]
  /\ reader' = [reader EXCEPT ![s].pc = "removed"]
  /\ UNCHANGED <<nextID, chan, pub, taken, script, query>>

Close(s) ==
  /\ reader[s].pc = "closing" /\ Reading = {}
  /\ subscribers' = [i \in DOMAIN subscribers \ {reader[s].id} |-> subscribers[i]]
  /\ reader' = [reader EXCEPT ![s].pc = "removed"]
  /\ UNCHANGED <<nextID, chan, pub, taken, script, query>>

CloseChannel(s) ==
  /\ reader[s].pc = "removed"
  /\ chan' = [chan EXCEPT ![s].closed = TRUE]
  /\ reader' = [reader EXCEPT ![s].pc = "done"]
  /\ UNCHANGED <<subscribers, nextID, pub, taken, script, query>>

PublisherStep(p) == Publish(p) \/ PublishEnd(p) \/ \E i \in pub[p].todo : Send(p, i)
ReaderStep(s) == Subscribe(s) \/ Close(s) \/ CloseChannel(s)
Client(s) == Request(s) \/ Read(s) \/ Disconnect(s)

Next ==
  \/ \E p \in Publishers : PublisherStep(p)
  \/ \E s \in Subscribers : ReaderStep(s) \/ Client(s)

Spec == Init /\ [][Next]_vars

\* Goroutines run, and the mutex is handed over; the clients are not fair:
\* one may never read.
Fairness ==
  /\ \A p \in Publishers : WF_vars(PublisherStep(p))
  /\ \A s \in Subscribers : WF_vars(ReaderStep(s))

FairSpec == Spec /\ Fairness
-----------------------------------------------------------------------------
ChanType == [buf : Seq(Publishers \X Nat), closed : BOOLEAN]
PubType == [pc : {"ready", "sending"}, n : Nat, todo : SUBSET Nat]
ReaderType ==
  [pc : {"idle", "subscribing", "reading", "closing", "removed", "done"}, id : Nat]

\* The variables have their types, and what is published and asked for is as
\* Init chose it.
TypeOK ==
  /\ nextID \in Nat
  /\ subscribers \in [DOMAIN subscribers -> Subscribers]
  /\ DOMAIN subscribers \subseteq 0 .. nextID - 1
  /\ chan \in [Subscribers -> ChanType]
  /\ pub \in [Publishers -> PubType]
  /\ reader \in [Subscribers -> ReaderType]
  /\ taken \in [Subscribers -> Seq(Publishers \X Nat)]
  /\ \E x \in Setups : script = x.script /\ query = x.query

\* A publisher in its loop never has a closed channel ahead of it (a send on
\* a closed channel panics), and no channel of the map is closed (closing it
\* again would panic too): bus.go:76 and bus.go:106.
NeverSendsOnClosed ==
  /\ \A p \in Publishers : \A i \in pub[p].todo : i \in DOMAIN subscribers
  /\ \A i \in DOMAIN subscribers : ~chan[subscribers[i]].closed

\* Every reader between Subscribe and Close is in the map under its own id,
\* and nobody else is: a listener is never replaced nor left behind.
MapTruth ==
  /\ \A s \in Subscribers : reader[s].pc \in {"reading", "closing"} =>
       reader[s].id \in DOMAIN subscribers /\ subscribers[reader[s].id] = s
  /\ \A i \in DOMAIN subscribers :
       reader[subscribers[i]].id = i /\ reader[subscribers[i]].pc \in {"reading", "closing"}

\* The bus is the lossy, ordered, once-only feed of EventFeed: with the lock,
\* the loop and the channels hidden, every step is one of the feed's or none.
Published(p) == IF pub[p].pc = "ready" THEN pub[p].n ELSE pub[p].n - 1
Occurrences == Publishers \X (1 .. MaxEvents)
Asked(s) == {e \in Occurrences : e[2] <= Len(script[e[1]]) /\ MatchesFilters(Message(e), ParseFilters(query[s]))}
Phase(s) == CASE reader[s].pc \in {"idle", "subscribing"} -> "none"
              [] reader[s].pc \in {"reading", "closing"} -> "open"
              [] reader[s].pc \in {"removed", "done"} -> "shut"
Offering(p, s) == pub[p].pc = "sending" /\ \E i \in pub[p].todo : subscribers[i] = s
Owed(e, s) == e = Event(e[1]) /\ e \in Asked(s) /\ Offering(e[1], s)

Feed == INSTANCE EventFeed WITH
  Feeds <- Subscribers,
  Events <- Occurrences,
  begun <- {e \in Occurrences : e[2] <= pub[e[1]].n},
  ended <- {e \in Occurrences : e[2] <= Published(e[1])},
  owed <- {o \in Occurrences \X Subscribers : Owed(o[1], o[2])},
  phase <- [s \in Subscribers |-> Phase(s)],
  wanted <- [s \in Subscribers |-> Asked(s)],
  stream <- [s \in Subscribers |-> taken[s] \o chan[s].buf],
  waiting <- [s \in Subscribers |-> Len(chan[s].buf)]
ImplementsFeed == Feed!Spec

\* However slow the listeners, a handler that publishes goes on, and a listener
\* whose client left is let go: bus.go:76 drops instead of waiting.
NobodyBlocks ==
  /\ \A p \in Publishers : pub[p].pc = "sending" ~> pub[p].pc = "ready"
  /\ \A s \in Subscribers : reader[s].pc = "closing" ~> reader[s].pc = "done"
=============================================================================
