--------------------------- MODULE EventBusProofs ---------------------------
(***************************************************************************)
(* For any number of handlers, listeners, messages and filters, and any    *)
(* buffer size: no send on a closed channel, a map that tells the truth,   *)
(* and the bus as an implementation of EventFeed.                          *)
(***************************************************************************)
EXTENDS EventBus, TLAPS, SequenceTheorems

(* Nobody outside Subscribe..Close has an open loop or a map entry, buffers *)
(* hold at most Cap messages, loops only hold ids of the map, and only a    *)
(* listener that has left has a closed channel.                             *)
Bounded == \A s \in Subscribers : Len(chan[s].buf) <= Cap
ClosedLast == \A s \in Subscribers : chan[s].closed => reader[s].pc = "done"
LoopFresh == \A p \in Publishers :
  /\ pub[p].pc = "ready" => pub[p].todo = {}
  /\ pub[p].todo \subseteq DOMAIN subscribers
InScript == \A p \in Publishers :
  /\ pub[p].n <= Len(script[p])
  /\ pub[p].pc = "sending" => pub[p].n > 0
IInv == TypeOK /\ MapTruth /\ Bounded /\ ClosedLast /\ LoopFresh /\ InScript

LEMMA InitIInv == Init => IInv
<1> SUFFICES ASSUME Init PROVE IInv
  OBVIOUS
<1>0. DOMAIN subscribers = {} /\ subscribers \in [{} -> Subscribers]
  BY DEF Init
<1>1. TypeOK
  BY <1>0 DEF Init, TypeOK, ChanType, PubType, ReaderType
<1>2. MapTruth /\ ClosedLast /\ LoopFresh
  BY <1>0 DEF Init, MapTruth, ClosedLast, LoopFresh
<1>3. Bounded
  BY CapAssumption DEF Init, Bounded
<1>4. InScript
  <2>1. \A p \in Publishers : 0 <= Len(script[p])
    BY SetupsAssumption DEF Init
  <2> QED BY <2>1 DEF Init, InScript
<1> QED BY <1>1, <1>2, <1>3, <1>4 DEF IInv

LEMMA PubTypes ==
  ASSUME NEW p \in Publishers, pub \in [Publishers -> PubType]
  PROVE  /\ \A t \in SUBSET Nat : [pub EXCEPT ![p].todo = t] \in [Publishers -> PubType]
         /\ [pub EXCEPT ![p].pc = "ready"] \in [Publishers -> PubType]
         /\ \A t \in SUBSET Nat : [pub EXCEPT ![p] = [pc |-> "sending", n |-> @.n + 1, todo |-> t]]
                                     \in [Publishers -> PubType]
BY DEF PubType

LEMMA ReaderTypes ==
  ASSUME NEW s \in Subscribers, reader \in [Subscribers -> ReaderType]
  PROVE  /\ [reader EXCEPT ![s].pc = "subscribing"] \in [Subscribers -> ReaderType]
         /\ [reader EXCEPT ![s].pc = "reading"] \in [Subscribers -> ReaderType]
         /\ [reader EXCEPT ![s].pc = "closing"] \in [Subscribers -> ReaderType]
         /\ [reader EXCEPT ![s].pc = "removed"] \in [Subscribers -> ReaderType]
         /\ [reader EXCEPT ![s].pc = "done"] \in [Subscribers -> ReaderType]
         /\ \A i \in Nat : [reader EXCEPT ![s] = [pc |-> "reading", id |-> i]] \in [Subscribers -> ReaderType]
BY DEF ReaderType

LEMMA ChanTypes ==
  ASSUME NEW s \in Subscribers, chan \in [Subscribers -> ChanType]
  PROVE  /\ \A b \in Seq(Publishers \X Nat) : [chan EXCEPT ![s].buf = b] \in [Subscribers -> ChanType]
         /\ [chan EXCEPT ![s].closed = TRUE] \in [Subscribers -> ChanType]
         /\ chan[s].buf \in Seq(Publishers \X Nat)
BY DEF ChanType

LEMMA NextType == TypeOK /\ LoopFresh /\ [Next]_vars => TypeOK'
<1> SUFFICES ASSUME TypeOK, LoopFresh, [Next]_vars PROVE TypeOK'
  OBVIOUS
<1> USE DEF TypeOK
<1>1. ASSUME NEW p \in Publishers, Publish(p) PROVE TypeOK'
  <2>1. DOMAIN subscribers \in SUBSET Nat
    OBVIOUS
  <2>2. pub' \in [Publishers -> PubType]
    BY <1>1, <2>1, PubTypes DEF Publish
  <2> QED BY <1>1, <2>2 DEF Publish
<1>2. ASSUME NEW p \in Publishers, NEW i \in pub[p].todo, Send(p, i) PROVE TypeOK'
  <2> DEFINE s == subscribers[i]
  <2>1. s \in Subscribers
    BY DEF LoopFresh
  <2>2. Event(p) \in Publishers \X Nat
    BY DEF Event, PubType
  <2>3. chan[s].buf \in Seq(Publishers \X Nat)
    BY <2>1, ChanTypes
  <2>4. Append(chan[s].buf, Event(p)) \in Seq(Publishers \X Nat)
    BY <2>2, <2>3
  <2>5. chan' \in [Subscribers -> ChanType]
    BY <1>2, <2>1, <2>4, ChanTypes DEF Send
  <2>6. pub[p].todo \ {i} \in SUBSET Nat
    BY DEF PubType
  <2>7. pub' \in [Publishers -> PubType]
    BY <1>2, <2>6, PubTypes DEF Send
  <2> QED BY <1>2, <2>5, <2>7 DEF Send
<1>3. ASSUME NEW p \in Publishers, PublishEnd(p) PROVE TypeOK'
  BY <1>3, PubTypes DEF PublishEnd
<1>4. ASSUME NEW s \in Subscribers, Request(s) PROVE TypeOK'
  BY <1>4, ReaderTypes DEF Request
<1>5. ASSUME NEW s \in Subscribers, Subscribe(s) PROVE TypeOK'
  <2>1. reader' \in [Subscribers -> ReaderType]
    BY <1>5, ReaderTypes DEF Subscribe
  <2>2. subscribers' \in [DOMAIN subscribers' -> Subscribers] /\ DOMAIN subscribers' \subseteq 0 .. nextID' - 1
    BY <1>5 DEF Subscribe
  <2> QED BY <1>5, <2>1, <2>2 DEF Subscribe
<1>6. ASSUME NEW s \in Subscribers, Read(s) PROVE TypeOK'
  <2> DEFINE b == chan[s].buf
  <2>1. b \in Seq(Publishers \X Nat) /\ b # <<>>
    BY <1>6, ChanTypes DEF Read
  <2>2. Head(b) \in Publishers \X Nat /\ Tail(b) \in Seq(Publishers \X Nat)
    BY <2>1
  <2>3. taken' \in [Subscribers -> Seq(Publishers \X Nat)]
    BY <1>6, <2>2 DEF Read
  <2>4. chan' \in [Subscribers -> ChanType]
    BY <1>6, <2>2, ChanTypes DEF Read
  <2>5. reader' \in [Subscribers -> ReaderType]
    <3>1. CASE reader' = [reader EXCEPT ![s].pc = "reading"]
      BY <3>1, ReaderTypes
    <3>2. CASE reader' = [reader EXCEPT ![s].pc = "closing"]
      BY <3>2, ReaderTypes
    <3> QED BY <1>6, <3>1, <3>2 DEF Read
  <2> QED BY <1>6, <2>3, <2>4, <2>5 DEF Read
<1>7. ASSUME NEW s \in Subscribers, Disconnect(s) PROVE TypeOK'
  BY <1>7, ReaderTypes DEF Disconnect
<1>8. ASSUME NEW s \in Subscribers, Close(s) PROVE TypeOK'
  <2>1. reader' \in [Subscribers -> ReaderType]
    BY <1>8, ReaderTypes DEF Close
  <2>2. subscribers' \in [DOMAIN subscribers' -> Subscribers] /\ DOMAIN subscribers' \subseteq DOMAIN subscribers
    BY <1>8 DEF Close
  <2> QED BY <1>8, <2>1, <2>2 DEF Close
<1>9. ASSUME NEW s \in Subscribers, CloseChannel(s) PROVE TypeOK'
  BY <1>9, ReaderTypes, ChanTypes DEF CloseChannel
<1>10. CASE UNCHANGED vars
  BY <1>10 DEF vars
<1> QED
  BY <1>1, <1>2, <1>3, <1>4, <1>5, <1>6, <1>7, <1>8, <1>9, <1>10
  DEF Next, PublisherStep, ReaderStep, Client

(* The rest of the invariant, one action at a time.                         *)

LEMMA NextMap == IInv /\ [Next]_vars => MapTruth' /\ LoopFresh' /\ ClosedLast' /\ InScript'
<1> SUFFICES ASSUME IInv, [Next]_vars PROVE MapTruth' /\ LoopFresh' /\ ClosedLast' /\ InScript'
  OBVIOUS
<1> USE DEF IInv, TypeOK, MapTruth, LoopFresh, ClosedLast, InScript, ChanType, PubType, ReaderType
<1>1. ASSUME NEW p \in Publishers, Publish(p) PROVE MapTruth' /\ LoopFresh' /\ ClosedLast' /\ InScript'
  BY <1>1 DEF Publish
<1>2. ASSUME NEW p \in Publishers, NEW i \in pub[p].todo, Send(p, i)
      PROVE  MapTruth' /\ LoopFresh' /\ ClosedLast' /\ InScript'
  BY <1>2 DEF Send
<1>3. ASSUME NEW p \in Publishers, PublishEnd(p) PROVE MapTruth' /\ LoopFresh' /\ ClosedLast' /\ InScript'
  BY <1>3 DEF PublishEnd
<1>4. ASSUME NEW s \in Subscribers, Request(s) PROVE MapTruth' /\ LoopFresh' /\ ClosedLast' /\ InScript'
  BY <1>4 DEF Request
<1>5. ASSUME NEW s \in Subscribers, Subscribe(s) PROVE MapTruth' /\ LoopFresh' /\ ClosedLast' /\ InScript'
  BY <1>5 DEF Subscribe
<1>6. ASSUME NEW s \in Subscribers, Read(s) PROVE MapTruth' /\ LoopFresh' /\ ClosedLast' /\ InScript'
  <2>1. /\ UNCHANGED <<subscribers, pub, script>>
        /\ \A t \in Subscribers : chan'[t].closed = chan[t].closed
        /\ \A t \in Subscribers :
             /\ reader'[t].id = reader[t].id
             /\ reader'[t].pc \in {"reading", "closing"} <=> reader[t].pc \in {"reading", "closing"}
             /\ reader'[t].pc = "done" <=> reader[t].pc = "done"
    <3>1. PICK pc \in {"reading", "closing"} : reader' = [reader EXCEPT ![s].pc = pc]
      BY <1>6 DEF Read
    <3>2. chan' = [chan EXCEPT ![s].buf = Tail(chan[s].buf)] /\ reader[s].pc = "reading"
      BY <1>6 DEF Read
    <3>3. UNCHANGED <<subscribers, pub, script>>
      BY <1>6 DEF Read
    <3>4. \A t \in Subscribers : chan'[t].closed = chan[t].closed
      BY <3>2
    <3>5. \A t \in Subscribers :
             /\ reader'[t].id = reader[t].id
             /\ reader'[t].pc \in {"reading", "closing"} <=> reader[t].pc \in {"reading", "closing"}
             /\ reader'[t].pc = "done" <=> reader[t].pc = "done"
      BY <3>1, <3>2
    <3> QED BY <3>3, <3>4, <3>5
  <2>2. MapTruth'
    BY <2>1
  <2>3. LoopFresh'
    BY <2>1
  <2>4. ClosedLast'
    BY <2>1
  <2>5. InScript'
    BY <2>1
  <2> QED BY <2>2, <2>3, <2>4, <2>5
<1>7. ASSUME NEW s \in Subscribers, Disconnect(s) PROVE MapTruth' /\ LoopFresh' /\ ClosedLast' /\ InScript'
  <2>1. /\ UNCHANGED <<subscribers, pub, script>>
        /\ \A t \in Subscribers : chan'[t].closed = chan[t].closed
        /\ \A t \in Subscribers :
             /\ reader'[t].id = reader[t].id
             /\ reader'[t].pc \in {"reading", "closing"} <=> reader[t].pc \in {"reading", "closing"}
             /\ reader'[t].pc = "done" <=> reader[t].pc = "done"
    BY <1>7 DEF Disconnect
  <2>2. MapTruth'
    BY <2>1
  <2>3. LoopFresh'
    BY <2>1
  <2>4. ClosedLast'
    BY <2>1
  <2>5. InScript'
    BY <2>1
  <2> QED BY <2>2, <2>3, <2>4, <2>5
<1>8. ASSUME NEW s \in Subscribers, Close(s) PROVE MapTruth' /\ LoopFresh' /\ ClosedLast' /\ InScript'
  BY <1>8 DEF Close, Reading
<1>9. ASSUME NEW s \in Subscribers, CloseChannel(s) PROVE MapTruth' /\ LoopFresh' /\ ClosedLast' /\ InScript'
  BY <1>9 DEF CloseChannel
<1>10. CASE UNCHANGED vars
  BY <1>10 DEF vars
<1> QED
  BY <1>1, <1>2, <1>3, <1>4, <1>5, <1>6, <1>7, <1>8, <1>9, <1>10
  DEF Next, PublisherStep, ReaderStep, Client

LEMMA NextBounded == IInv /\ [Next]_vars => Bounded'
<1> SUFFICES ASSUME IInv, [Next]_vars PROVE Bounded'
  OBVIOUS
<1> USE CapAssumption DEF IInv, Bounded
<1>1. ASSUME NEW p \in Publishers, NEW i \in pub[p].todo, Send(p, i) PROVE Bounded'
  <2> DEFINE s == subscribers[i]
  <2>1. s \in Subscribers /\ chan[s].buf \in Seq(Publishers \X Nat) /\ Event(p) \in Publishers \X Nat
    BY ChanTypes DEF LoopFresh, TypeOK, Event, PubType
  <2>2. Len(Append(chan[s].buf, Event(p))) = Len(chan[s].buf) + 1 /\ Len(chan[s].buf) \in Nat
    BY <2>1
  <2>3. CASE chan' = chan
    BY <2>3
  <2>4. CASE chan' = [chan EXCEPT ![s].buf = Append(@, Event(p))] /\ Len(chan[s].buf) < Cap
    BY <2>1, <2>2, <2>4 DEF TypeOK
  <2> QED BY <1>1, <2>3, <2>4 DEF Send
<1>2. ASSUME NEW s \in Subscribers, Read(s) PROVE Bounded'
  <2>1. chan[s].buf \in Seq(Publishers \X Nat) /\ chan[s].buf # <<>>
    BY <1>2, ChanTypes DEF Read, TypeOK
  <2>2. Len(Tail(chan[s].buf)) = Len(chan[s].buf) - 1 /\ Len(chan[s].buf) \in Nat
    BY <2>1
  <2>3. chan' = [chan EXCEPT ![s].buf = Tail(chan[s].buf)]
    BY <1>2 DEF Read
  <2> QED BY <2>2, <2>3 DEF TypeOK
<1>3. ASSUME NEW s \in Subscribers, CloseChannel(s) PROVE Bounded'
  BY <1>3 DEF CloseChannel, TypeOK
<1>4. CASE UNCHANGED chan
  BY <1>4
<1> QED
  BY <1>1, <1>2, <1>3, <1>4
  DEF Next, PublisherStep, ReaderStep, Client, vars, Publish, PublishEnd, Request, Subscribe, Disconnect, Close

LEMMA Invariance == Spec => []IInv
<1>1. IInv /\ [Next]_vars => IInv'
  BY NextType, NextMap, NextBounded DEF IInv
<1> QED
  BY <1>1, InitIInv, PTL DEF Spec

\* The variables keep their types, ids are never used twice (bus.go:87-97).
THEOREM TypeCorrect == Spec => []TypeOK
<1>1. IInv => TypeOK
  BY DEF IInv
<1> QED BY <1>1, Invariance, PTL

\* No handler ever sends on a closed channel and no channel is closed twice,
\* whoever leaves while it publishes (bus.go:73-82 and 100-109).
THEOREM SendsAreSafe == Spec => []NeverSendsOnClosed
<1>1. IInv => NeverSendsOnClosed
  <2> SUFFICES ASSUME IInv PROVE NeverSendsOnClosed
    OBVIOUS
  <2>1. ASSUME NEW p \in Publishers, NEW i \in pub[p].todo PROVE i \in DOMAIN subscribers
    BY DEF IInv, LoopFresh
  <2>2. ASSUME NEW i \in DOMAIN subscribers PROVE ~chan[subscribers[i]].closed
    BY DEF IInv, TypeOK, MapTruth, ClosedLast
  <2> QED BY <2>1, <2>2 DEF NeverSendsOnClosed
<1> QED BY <1>1, Invariance, PTL

\* The map holds exactly the listeners between Subscribe and Close, each
\* under its own id.
THEOREM MapIsTrue == Spec => []MapTruth
<1>1. IInv => MapTruth
  BY DEF IInv
<1> QED BY <1>1, Invariance, PTL

(* The refinement: what each step of the bus is to the feed.                *)

\* A message that enters the buffer is the last of all a listener sees.
LEMMA AppendToStream ==
  ASSUME NEW S, NEW a \in Seq(S), NEW b \in Seq(S), NEW e \in S
  PROVE  a \o Append(b, e) = Append(a \o b, e)
<1>1. Append(b, e) \in Seq(S) /\ a \o b \in Seq(S)
  OBVIOUS
<1>2. /\ Len(a \o Append(b, e)) = Len(a) + Len(b) + 1
      /\ Len(Append(a \o b, e)) = Len(a) + Len(b) + 1
  BY <1>1
<1>3. ASSUME NEW k \in 1 .. Len(a) + Len(b) + 1
      PROVE  (a \o Append(b, e))[k] = Append(a \o b, e)[k]
  BY <1>1
<1>4. a \o Append(b, e) \in Seq(S) /\ Append(a \o b, e) \in Seq(S)
  BY <1>1
<1> QED BY <1>2, <1>3, <1>4, SeqEqual

\* A message read moves from the buffer to what was taken.
LEMMA ReadFromStream ==
  ASSUME NEW S, NEW a \in Seq(S), NEW b \in Seq(S), b # <<>>
  PROVE  Append(a, Head(b)) \o Tail(b) = a \o b
<1>1. Head(b) \in S /\ Tail(b) \in Seq(S) /\ Len(b) > 0 /\ Len(Tail(b)) = Len(b) - 1
  OBVIOUS
<1>2. Append(a, Head(b)) \in Seq(S) /\ Len(Append(a, Head(b))) = Len(a) + 1
  BY <1>1
<1>3. Len(Append(a, Head(b)) \o Tail(b)) = Len(a) + Len(b) /\ Len(a \o b) = Len(a) + Len(b)
  BY <1>1, <1>2
<1>4. ASSUME NEW k \in 1 .. Len(a) + Len(b)
      PROVE  (Append(a, Head(b)) \o Tail(b))[k] = (a \o b)[k]
  <2>1. CASE k <= Len(a)
    BY <1>1, <1>2, <2>1
  <2>2. CASE k = Len(a) + 1
    BY <1>1, <1>2, <2>2
  <2>3. CASE k > Len(a) + 1
    BY <1>1, <1>2, <2>3
  <2> QED BY <2>1, <2>2, <2>3
<1>5. Append(a, Head(b)) \o Tail(b) \in Seq(S) /\ a \o b \in Seq(S)
  BY <1>1, <1>2
<1> QED BY <1>3, <1>4, <1>5, SeqEqual

LEMMA FeedInit == Init => Feed!Init
<1> SUFFICES ASSUME Init PROVE Feed!Init
  OBVIOUS
<1>1. \A p \in Publishers : pub[p].n = 0 /\ pub[p].pc = "ready" /\ pub[p].todo = {}
  BY DEF Init
<1>2. {e \in Occurrences : e[2] <= pub[e[1]].n} = {} /\ {e \in Occurrences : e[2] <= Published(e[1])} = {}
  BY <1>1 DEF Occurrences, Published
<1>3. {o \in Occurrences \X Subscribers : Owed(o[1], o[2])} = {}
  BY <1>1 DEF Occurrences, Offering, Owed
<1>4. \A s \in Subscribers : Phase(s) = "none" /\ taken[s] \o chan[s].buf = <<>> /\ Len(chan[s].buf) = 0
  BY DEF Init, Phase
<1>5. [s \in Subscribers |-> Asked(s)] \in [Subscribers -> SUBSET Occurrences]
  BY DEF Asked
<1> QED BY <1>2, <1>3, <1>4, <1>5 DEF Feed!Init

LEMMA SameQuestions == UNCHANGED <<script, query>> => \A s : Asked(s)' = Asked(s)
BY DEF Asked, Message

LEMMA FeedBegin ==
  ASSUME IInv, NEW p \in Publishers, Publish(p), NEW e, e = <<p, pub[p].n + 1>>
  PROVE  Feed!Begin(e) /\ e \in Occurrences
<1> USE DEF IInv, TypeOK, PubType
<1>0. /\ pub[p].pc = "ready" /\ pub[p].n < Len(script[p])
      /\ pub' = [pub EXCEPT ![p] = [pc |-> "sending", n |-> @.n + 1, todo |-> DOMAIN subscribers]]
      /\ UNCHANGED <<subscribers, chan, reader, taken, script, query>>
  BY DEF Publish
<1>1. e \in Occurrences
  BY <1>0, SetupsAssumption DEF Occurrences
<1>2. {d \in Occurrences : d[2] <= pub'[d[1]].n} = {d \in Occurrences : d[2] <= pub[d[1]].n} \cup {e}
  BY <1>0, <1>1 DEF Occurrences
<1>3. {d \in Occurrences : d[2] <= Published(d[1])'} = {d \in Occurrences : d[2] <= Published(d[1])}
  BY <1>0 DEF Occurrences, Published
<1>4. e \notin {d \in Occurrences : d[2] <= pub[d[1]].n}
  BY <1>0
<1>5. \A s : Asked(s)' = Asked(s)
  BY <1>0, SameQuestions
<1>6. \A s \in Subscribers : Offering(p, s)' <=> Phase(s) = "open"
  BY <1>0 DEF Offering, Phase, MapTruth, ReaderType
<1>7. \A q \in Publishers \ {p} : \A s : (Offering(q, s)' <=> Offering(q, s)) /\ Event(q)' = Event(q)
  BY <1>0 DEF Offering, Event
<1>8. Event(p)' = e /\ \A s : ~Offering(p, s)
  BY <1>0 DEF Offering, Event
<1>9. \A d \in Occurrences, s \in Subscribers :
         Owed(d, s)' <=> Owed(d, s) \/ (d = e /\ Phase(s) = "open" /\ e \in Asked(s))
  <2> SUFFICES ASSUME NEW d \in Occurrences, NEW s \in Subscribers
               PROVE  Owed(d, s)' <=> Owed(d, s) \/ (d = e /\ Phase(s) = "open" /\ e \in Asked(s))
    OBVIOUS
  <2>1. d[1] \in Publishers /\ e[1] = p
    BY DEF Occurrences
  <2>2. Asked(s)' = Asked(s)
    BY <1>5
  <2>3. CASE d[1] = p
    BY <2>2, <2>3, <1>6, <1>8 DEF Owed
  <2>4. CASE d[1] # p
    BY <2>1, <2>2, <2>4, <1>7 DEF Owed
  <2> QED BY <2>3, <2>4
<1>11. {o \in Occurrences \X Subscribers : Owed(o[1], o[2])'}
      = {o \in Occurrences \X Subscribers : Owed(o[1], o[2])}
        \cup {<<e, s>> : s \in {t \in Subscribers : Phase(t) = "open" /\ e \in Asked(t)}}
  <2> DEFINE A == {o \in Occurrences \X Subscribers : Owed(o[1], o[2])'}
             B == {o \in Occurrences \X Subscribers : Owed(o[1], o[2])}
             C == {<<e, s>> : s \in {t \in Subscribers : Phase(t) = "open" /\ e \in Asked(t)}}
  <2>1. ASSUME NEW o \in A PROVE o \in B \cup C
    <3>1. o[1] \in Occurrences /\ o[2] \in Subscribers /\ o = <<o[1], o[2]>>
      OBVIOUS
    <3> QED BY <3>1, <1>9
  <2>2. ASSUME NEW o \in B PROVE o \in A
    BY <1>9
  <2>3. ASSUME NEW o \in C PROVE o \in A
    <3>1. PICK s \in Subscribers : o = <<e, s>> /\ Phase(s) = "open" /\ e \in Asked(s)
      OBVIOUS
    <3>2. o \in Occurrences \X Subscribers /\ o[1] = e /\ o[2] = s
      BY <1>1, <3>1
    <3> QED BY <1>1, <1>9, <3>1, <3>2
  <2> QED BY <2>1, <2>2, <2>3
<1>10. \A s : Phase(s)' = Phase(s)
  BY <1>0 DEF Phase
<1> QED
  BY <1>0, <1>1, <1>2, <1>3, <1>4, <1>5, <1>11, <1>10 DEF Feed!Begin

LEMMA SendingOccurs ==
  ASSUME IInv, NEW p \in Publishers, pub[p].pc = "sending"
  PROVE  Event(p) \in Occurrences /\ Event(p)[2] <= Len(script[p]) /\ Event(p)[1] = p
BY SetupsAssumption DEF IInv, TypeOK, PubType, InScript, Event, Occurrences

LEMMA FeedSend ==
  ASSUME IInv, NEW p \in Publishers, NEW i \in pub[p].todo, Send(p, i),
         NEW e, e = Event(p), NEW s, s = subscribers[i]
  PROVE  Feed!Take(e, s) \/ Feed!Refuse(e, s) \/ UNCHANGED Feed!vars
<1> DEFINE B == {o \in Occurrences \X Subscribers : Owed(o[1], o[2])}
           A == {o \in Occurrences \X Subscribers : Owed(o[1], o[2])'}
<1>0. /\ pub[p].pc = "sending"
      /\ pub' = [pub EXCEPT ![p].todo = @ \ {i}]
      /\ UNCHANGED <<subscribers, reader, taken, script, query>>
  BY DEF Send
<1>1. s \in Subscribers /\ chan[s].buf \in Seq(Publishers \X Nat) /\ e \in Publishers \X Nat
  BY ChanTypes DEF IInv, LoopFresh, TypeOK, Event, PubType
<1>2. e \in Occurrences /\ e[1] = p /\ e[2] <= Len(script[p])
  BY <1>0, SendingOccurs
<1>3. \A t : Asked(t)' = Asked(t)
  BY <1>0, SameQuestions
<1>4. \A q \in Publishers : Event(q)' = Event(q) /\ Published(q)' = Published(q) /\ pub'[q].n = pub[q].n
  BY <1>0 DEF Event, Published, IInv, TypeOK, PubType
<1>5. \A t \in Subscribers : Offering(p, t)' <=> (Offering(p, t) /\ t # s)
  <2>1. \A j \in pub[p].todo : subscribers[j] = s => j = i
    BY DEF IInv, MapTruth, LoopFresh
  <2>2. pub'[p].todo = pub[p].todo \ {i} /\ pub'[p].pc = "sending"
    BY <1>0 DEF IInv, TypeOK, PubType
  <2> QED BY <1>0, <2>1, <2>2 DEF Offering
<1>6. \A q \in Publishers \ {p} : \A t : Offering(q, t)' <=> Offering(q, t)
  BY <1>0 DEF Offering, IInv, TypeOK
<1>7. \A d \in Occurrences, t \in Subscribers : Owed(d, t)' <=> (Owed(d, t) /\ ~(d = e /\ t = s))
  <2> SUFFICES ASSUME NEW d \in Occurrences, NEW t \in Subscribers
               PROVE  Owed(d, t)' <=> (Owed(d, t) /\ ~(d = e /\ t = s))
    OBVIOUS
  <2>1. d[1] \in Publishers
    BY DEF Occurrences
  <2>2. CASE d[1] = p
    BY <2>2, <1>3, <1>4, <1>5 DEF Owed
  <2>3. CASE d[1] # p
    BY <2>1, <2>3, <1>2, <1>3, <1>4, <1>6 DEF Owed
  <2> QED BY <2>2, <2>3
<1>8. A = B \ {<<e, s>>}
  <2>1. \A o \in Occurrences \X Subscribers :
          o[1] \in Occurrences /\ o[2] \in Subscribers /\ (o = <<e, s>> <=> o[1] = e /\ o[2] = s)
    OBVIOUS
  <2> QED BY <1>7, <2>1
<1>9. <<e, s>> \in B <=> e \in Asked(s)
  <2>1. Offering(p, s)
    BY <1>0 DEF Offering
  <2> QED BY <1>1, <1>2, <2>1 DEF Owed
<1>10. e \in Asked(s) <=> MatchesFilters(Message(e), ParseFilters(query[s]))
  BY <1>2 DEF Asked
<1>11. \A t : Phase(t)' = Phase(t)
  BY <1>0 DEF Phase
<1>12. /\ {d \in Occurrences : d[2] <= pub'[d[1]].n} = {d \in Occurrences : d[2] <= pub[d[1]].n}
       /\ {d \in Occurrences : d[2] <= Published(d[1])'} = {d \in Occurrences : d[2] <= Published(d[1])}
  BY <1>4 DEF Occurrences
<1>13. CASE e \in Asked(s) /\ Len(chan[s].buf) < Cap
  <2>1. chan' = [chan EXCEPT ![s].buf = Append(chan[s].buf, e)]
    BY <1>10, <1>13 DEF Send
  <2>2. [t \in Subscribers |-> Len(chan'[t].buf)]
        = [[t \in Subscribers |-> Len(chan[t].buf)] EXCEPT ![s] = @ + 1]
    <3>1. Len(Append(chan[s].buf, e)) = Len(chan[s].buf) + 1
      BY <1>1
    <3>2. \A t \in Subscribers : chan'[t].buf = IF t = s THEN Append(chan[s].buf, e) ELSE chan[t].buf
      BY <1>1, <2>1 DEF IInv, TypeOK, ChanType
    <3> QED BY <1>1, <3>1, <3>2
  <2>3. [t \in Subscribers |-> taken'[t] \o chan'[t].buf]
        = [[t \in Subscribers |-> taken[t] \o chan[t].buf] EXCEPT ![s] = Append(@, e)]
    <3>1. taken[s] \o Append(chan[s].buf, e) = Append(taken[s] \o chan[s].buf, e)
      <4>1. taken[s] \in Seq(Publishers \X Nat)
        BY <1>1 DEF IInv, TypeOK
      <4>2. \A a, b \in Seq(Publishers \X Nat), d \in Publishers \X Nat : a \o Append(b, d) = Append(a \o b, d)
        BY AppendToStream
      <4> QED BY <1>1, <4>1, <4>2
    <3>2. \A t \in Subscribers : chan'[t].buf = IF t = s THEN Append(chan[s].buf, e) ELSE chan[t].buf
      BY <1>1, <2>1 DEF IInv, TypeOK, ChanType
    <3> QED BY <1>0, <1>1, <3>1, <3>2
  <2>4. Feed!Take(e, s)
    BY <1>1, <1>3, <1>8, <1>9, <1>11, <1>12, <1>13, <2>2, <2>3 DEF Feed!Take
  <2> QED BY <2>4
<1>14. CASE e \in Asked(s) /\ ~(Len(chan[s].buf) < Cap)
  <2>1. chan' = chan
    BY <1>14 DEF Send
  <2>2. Len(chan[s].buf) = Cap
    BY <1>1, <1>14, CapAssumption DEF IInv, Bounded
  <2>3. Feed!Refuse(e, s)
    BY <1>0, <1>1, <1>3, <1>8, <1>9, <1>11, <1>12, <1>14, <2>1, <2>2 DEF Feed!Refuse
  <2> QED BY <2>3
<1>15. CASE e \notin Asked(s)
  <2>1. chan' = chan
    BY <1>10, <1>15 DEF Send
  <2>2. A = B
    BY <1>8, <1>9, <1>15
  <2>3. UNCHANGED Feed!vars
    BY <1>0, <1>3, <1>11, <1>12, <2>1, <2>2 DEF Feed!vars
  <2> QED BY <2>3
<1> QED BY <1>13, <1>14, <1>15

\* The steps that leave the loops alone leave what is owed alone.
LEMMA SameLoops ==
  ASSUME UNCHANGED <<pub, script, query>>,
         \A p \in Publishers : \A i \in pub[p].todo : subscribers'[i] = subscribers[i]
  PROVE  /\ {e \in Occurrences : e[2] <= pub'[e[1]].n} = {e \in Occurrences : e[2] <= pub[e[1]].n}
         /\ {e \in Occurrences : e[2] <= Published(e[1])'} = {e \in Occurrences : e[2] <= Published(e[1])}
         /\ {o \in Occurrences \X Subscribers : Owed(o[1], o[2])'}
            = {o \in Occurrences \X Subscribers : Owed(o[1], o[2])}
         /\ [s \in Subscribers |-> Asked(s)'] = [s \in Subscribers |-> Asked(s)]
<1>1. \A s : Asked(s)' = Asked(s)
  BY SameQuestions
<1>2. \A p : Event(p)' = Event(p) /\ Published(p)' = Published(p)
  BY DEF Event, Published
<1>3. ASSUME NEW e \in Occurrences, NEW s \in Subscribers PROVE Owed(e, s)' <=> Owed(e, s)
  <2>1. e[1] \in Publishers
    BY DEF Occurrences
  <2>2. Offering(e[1], s)' <=> Offering(e[1], s)
    BY <2>1 DEF Offering
  <2> QED BY <1>1, <1>2, <2>2 DEF Owed
<1>4. {o \in Occurrences \X Subscribers : Owed(o[1], o[2])'}
      = {o \in Occurrences \X Subscribers : Owed(o[1], o[2])}
  BY <1>3
<1> QED BY <1>1, <1>2, <1>4

LEMMA FeedEnd ==
  ASSUME IInv, NEW p \in Publishers, PublishEnd(p), NEW e, e = Event(p)
  PROVE  Feed!End(e) /\ e \in Occurrences
<1>0. /\ pub[p].pc = "sending" /\ pub[p].todo = {}
      /\ pub' = [pub EXCEPT ![p].pc = "ready"]
      /\ UNCHANGED <<subscribers, chan, reader, taken, script, query>>
  BY DEF PublishEnd
<1>1. e \in Occurrences /\ e[1] = p /\ e[2] = pub[p].n /\ pub[p].n \in Nat /\ pub[p].n > 0
  BY <1>0, SendingOccurs DEF Event, IInv, TypeOK, PubType, InScript
<1>2. \A q \in Publishers : /\ pub'[q].n = pub[q].n /\ pub'[q].todo = pub[q].todo
                            /\ Event(q)' = Event(q)
                            /\ q # p => pub'[q].pc = pub[q].pc
  BY <1>0 DEF IInv, TypeOK, PubType, Event
<1>3. pub'[p].pc = "ready" /\ Published(p)' = pub[p].n /\ Published(p) = pub[p].n - 1
  BY <1>0, <1>2 DEF Published, IInv, TypeOK, PubType
<1>4. {d \in Occurrences : d[2] <= pub'[d[1]].n} = {d \in Occurrences : d[2] <= pub[d[1]].n}
  BY <1>2 DEF Occurrences
<1>5. {d \in Occurrences : d[2] <= Published(d[1])'} = {d \in Occurrences : d[2] <= Published(d[1])} \cup {e}
  <2>1. ASSUME NEW d \in Occurrences
        PROVE  d[2] <= Published(d[1])' <=> d[2] <= Published(d[1]) \/ d = e
    <3>1. d[1] \in Publishers /\ d[2] \in Nat /\ d = <<d[1], d[2]>>
      BY SetupsAssumption DEF Occurrences
    <3>2. CASE d[1] = p
      <4>1. d = e <=> d[2] = pub[p].n
        BY <3>1, <3>2, <1>1 DEF Event
      <4> QED BY <1>1, <1>3, <3>1, <3>2, <4>1
    <3>3. CASE d[1] # p
      BY <1>1, <1>2, <3>1, <3>3 DEF Published
    <3> QED BY <3>2, <3>3
  <2> QED BY <1>1, <2>1
<1>6. e \in {d \in Occurrences : d[2] <= pub[d[1]].n} \ {d \in Occurrences : d[2] <= Published(d[1])}
  BY <1>1, <1>3
<1>7. \A s : ~Offering(p, s) /\ ~Offering(p, s)'
  BY <1>0, <1>3 DEF Offering
<1>8. \A s \in Subscribers : <<e, s>> \notin {o \in Occurrences \X Subscribers : Owed(o[1], o[2])}
  BY <1>1, <1>7 DEF Owed
<1>9. \A s : Asked(s)' = Asked(s)
  BY <1>0, SameQuestions
<1>10. ASSUME NEW d \in Occurrences, NEW s \in Subscribers PROVE Owed(d, s)' <=> Owed(d, s)
  <2>1. d[1] \in Publishers
    BY DEF Occurrences
  <2>2. Offering(d[1], s)' <=> Offering(d[1], s)
    BY <1>0, <1>2, <1>7, <2>1 DEF Offering
  <2> QED BY <1>2, <1>9, <2>1, <2>2 DEF Owed
<1>11. {o \in Occurrences \X Subscribers : Owed(o[1], o[2])'}
       = {o \in Occurrences \X Subscribers : Owed(o[1], o[2])}
  BY <1>10
<1>12. \A s : Phase(s)' = Phase(s)
  BY <1>0 DEF Phase
<1> QED
  BY <1>0, <1>1, <1>4, <1>5, <1>6, <1>8, <1>9, <1>11, <1>12 DEF Feed!End

\* Subscribe waits for the loops to end: nothing is owed, to the new listener
\* or to anyone.
LEMMA FeedOpen ==
  ASSUME IInv, NEW s \in Subscribers, Subscribe(s)
  PROVE  Feed!Open(s)
<1>0. /\ reader[s].pc = "subscribing" /\ Reading = {}
      /\ reader' = [reader EXCEPT ![s] = [pc |-> "reading", id |-> nextID]]
      /\ UNCHANGED <<chan, pub, taken, script, query>>
  BY DEF Subscribe
<1>1. \A p \in Publishers : pub[p].todo = {}
  BY <1>0 DEF Reading, IInv, TypeOK, PubType, LoopFresh
<1>2. Phase(s) = "none" /\ Phase(s)' = "open" /\ \A t \in Subscribers \ {s} : Phase(t)' = Phase(t)
  BY <1>0 DEF Phase, IInv, TypeOK
<1>3. [t \in Subscribers |-> Phase(t)'] = [[t \in Subscribers |-> Phase(t)] EXCEPT ![s] = "open"]
  BY <1>2
<1> QED BY <1>0, <1>1, <1>2, <1>3, SameLoops DEF Feed!Open

LEMMA FeedShut ==
  ASSUME IInv, NEW s \in Subscribers, Close(s)
  PROVE  Feed!Shut(s)
<1>0. /\ reader[s].pc = "closing" /\ Reading = {}
      /\ reader' = [reader EXCEPT ![s].pc = "removed"]
      /\ UNCHANGED <<chan, pub, taken, script, query>>
  BY DEF Close
<1>1. \A p \in Publishers : pub[p].todo = {}
  BY <1>0 DEF Reading, IInv, TypeOK, PubType, LoopFresh
<1>2. Phase(s) = "open" /\ Phase(s)' = "shut" /\ \A t \in Subscribers \ {s} : Phase(t)' = Phase(t)
  BY <1>0 DEF Phase, IInv, TypeOK, ReaderType
<1>3. [t \in Subscribers |-> Phase(t)'] = [[t \in Subscribers |-> Phase(t)] EXCEPT ![s] = "shut"]
  BY <1>2
<1>4. \A e \in Occurrences : <<e, s>> \notin {o \in Occurrences \X Subscribers : Owed(o[1], o[2])}
  BY <1>1 DEF Owed, Offering, Occurrences
<1> QED BY <1>0, <1>1, <1>2, <1>3, <1>4, SameLoops DEF Feed!Shut

LEMMA FeedRead ==
  ASSUME IInv, NEW s \in Subscribers, Read(s)
  PROVE  Feed!Read(s)
<1> DEFINE b == chan[s].buf
<1>0. /\ reader[s].pc = "reading" /\ b # <<>>
      /\ taken' = [taken EXCEPT ![s] = Append(@, Head(b))]
      /\ chan' = [chan EXCEPT ![s].buf = Tail(b)]
      /\ \E pc \in {"reading", "closing"} : reader' = [reader EXCEPT ![s].pc = pc]
      /\ UNCHANGED <<subscribers, pub, script, query>>
  BY DEF Read
<1>1. b \in Seq(Publishers \X Nat) /\ taken[s] \in Seq(Publishers \X Nat)
  BY ChanTypes DEF IInv, TypeOK
<1>2. Len(b) > 0 /\ Len(Tail(b)) = Len(b) - 1
  BY <1>0, <1>1
<1>3. \A t \in Subscribers : chan'[t].buf = IF t = s THEN Tail(b) ELSE chan[t].buf
  BY <1>0 DEF IInv, TypeOK, ChanType
<1>4. \A t \in Subscribers : taken'[t] = IF t = s THEN Append(taken[s], Head(b)) ELSE taken[t]
  BY <1>0 DEF IInv, TypeOK
<1>5. \A t \in Subscribers : taken'[t] \o chan'[t].buf = taken[t] \o chan[t].buf
  <2>1. Append(taken[s], Head(b)) \o Tail(b) = taken[s] \o b
    BY <1>0, <1>1, ReadFromStream
  <2> QED BY <1>3, <1>4, <2>1
<1>6. [t \in Subscribers |-> Len(chan'[t].buf)]
      = [[t \in Subscribers |-> Len(chan[t].buf)] EXCEPT ![s] = @ - 1]
  BY <1>2, <1>3
<1>7. \A t \in Subscribers : Phase(t)' = Phase(t)
  <2>1. PICK pc \in {"reading", "closing"} : reader' = [reader EXCEPT ![s].pc = pc]
    BY <1>0
  <2>2. \A t \in Subscribers : reader'[t].pc = IF t = s THEN pc ELSE reader[t].pc
    BY <2>1 DEF IInv, TypeOK, ReaderType
  <2>3. CASE pc = "reading"
    BY <1>0, <2>2, <2>3 DEF Phase
  <2>4. CASE pc = "closing"
    BY <1>0, <2>2, <2>4 DEF Phase
  <2> QED BY <2>3, <2>4
<1>8. [t \in Subscribers |-> Len(chan[t].buf)][s] > 0
  BY <1>2
<1>9. [t \in Subscribers |-> taken'[t] \o chan'[t].buf] = [t \in Subscribers |-> taken[t] \o chan[t].buf]
  BY <1>5
<1>10. [t \in Subscribers |-> Phase(t)'] = [t \in Subscribers |-> Phase(t)]
  BY <1>7
<1>11. \A p \in Publishers : \A i \in pub[p].todo : subscribers'[i] = subscribers[i]
  BY <1>0
<1> QED BY <1>0, <1>6, <1>8, <1>9, <1>10, <1>11, SameLoops DEF Feed!Read

\* What the feed does not see: a listener that is not in the map yet or has
\* left it.
LEMMA FeedStutters ==
  ASSUME IInv, NEW s \in Subscribers, Request(s) \/ Disconnect(s) \/ CloseChannel(s)
  PROVE  UNCHANGED Feed!vars
<1>1. /\ UNCHANGED <<subscribers, pub, taken, script, query>>
      /\ \A t \in Subscribers : chan'[t].buf = chan[t].buf
  <2>1. CASE Request(s) \/ Disconnect(s)
    BY <2>1 DEF Request, Disconnect
  <2>2. CASE CloseChannel(s)
    BY <2>2 DEF CloseChannel, IInv, TypeOK, ChanType
  <2> QED BY <2>1, <2>2
<1>2. \A t \in Subscribers : Phase(t)' = Phase(t)
  <2>1. CASE Request(s)
    BY <2>1 DEF Request, IInv, TypeOK, ReaderType, Phase
  <2>2. CASE Disconnect(s)
    BY <2>2 DEF Disconnect, IInv, TypeOK, ReaderType, Phase
  <2>3. CASE CloseChannel(s)
    BY <2>3 DEF CloseChannel, IInv, TypeOK, ReaderType, Phase
  <2> QED BY <2>1, <2>2, <2>3
<1> QED BY <1>1, <1>2, SameLoops DEF Feed!vars

LEMMA FeedStep == IInv /\ [Next]_vars => [Feed!Next]_(Feed!vars)
<1> SUFFICES ASSUME IInv, [Next]_vars PROVE [Feed!Next]_(Feed!vars)
  OBVIOUS
<1>1. ASSUME NEW p \in Publishers, Publish(p) PROVE Feed!Next
  <2>1. \A e : e = <<p, pub[p].n + 1>> => Feed!Begin(e) /\ e \in Occurrences
    BY <1>1, FeedBegin
  <2> QED BY <2>1 DEF Feed!Next
<1>2. ASSUME NEW p \in Publishers, NEW i \in pub[p].todo, Send(p, i) PROVE [Feed!Next]_(Feed!vars)
  <2>1. Event(p) \in Occurrences
    BY <1>2, SendingOccurs DEF Send
  <2>2. subscribers[i] \in Subscribers
    BY DEF IInv, TypeOK, LoopFresh
  <2>3. \A e, s : e = Event(p) /\ s = subscribers[i] =>
          Feed!Take(e, s) \/ Feed!Refuse(e, s) \/ UNCHANGED Feed!vars
    BY <1>2, FeedSend
  <2> QED BY <2>1, <2>2, <2>3 DEF Feed!Next
<1>3. ASSUME NEW p \in Publishers, PublishEnd(p) PROVE Feed!Next
  <2>1. \A e : e = Event(p) => Feed!End(e) /\ e \in Occurrences
    BY <1>3, FeedEnd
  <2> QED BY <2>1 DEF Feed!Next
<1>4. ASSUME NEW s \in Subscribers, Subscribe(s) PROVE Feed!Next
  BY <1>4, FeedOpen DEF Feed!Next
<1>5. ASSUME NEW s \in Subscribers, Read(s) PROVE Feed!Next
  BY <1>5, FeedRead DEF Feed!Next
<1>6. ASSUME NEW s \in Subscribers, Close(s) PROVE Feed!Next
  BY <1>6, FeedShut DEF Feed!Next
<1>7. ASSUME NEW s \in Subscribers, Request(s) \/ Disconnect(s) \/ CloseChannel(s) PROVE UNCHANGED Feed!vars
  BY <1>7, FeedStutters
<1>8. CASE UNCHANGED vars
  <2>1. UNCHANGED <<subscribers, chan, pub, reader, taken, script, query>>
    BY <1>8 DEF vars
  <2>2. \A t : Phase(t)' = Phase(t)
    BY <2>1 DEF Phase
  <2> QED BY <2>1, <2>2, SameLoops DEF Feed!vars
<1> QED
  BY <1>1, <1>2, <1>3, <1>4, <1>5, <1>6, <1>7, <1>8
  DEF Next, PublisherStep, ReaderStep, Client

\* The bus, with its lock, its loops and its channels hidden, is the lossy,
\* ordered, once-only feed (bus.go:54-109).
THEOREM BusImplementsFeed == Spec => ImplementsFeed
<1>1. Spec => Feed!Init /\ [][Feed!Next]_(Feed!vars)
  BY Invariance, FeedInit, FeedStep, PTL DEF Spec
<1> QED BY <1>1 DEF ImplementsFeed, Feed!Spec
=============================================================================
