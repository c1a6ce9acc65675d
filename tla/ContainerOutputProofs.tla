------------------------ MODULE ContainerOutputProofs ------------------------
(***************************************************************************)
(* What the program of a container writes reaches the log and the clients, *)
(* for any number of clients and readers, any sizes of the pipes, the      *)
(* connections, the log and its files, and any number of rotations and     *)
(* failures.                                                               *)
(***************************************************************************)
EXTENDS ContainerOutput, SequenceTheorems, TLAPS

Both == {"stdout", "stderr"}
Entry == [s : Both, line : Seq(Nat)]
Written == [n : Nat, eol : BOOLEAN]
Piece == [s : Both, n : Nat]
LoopLabels == {"off", "read", "log", "fan", "sending", "gone"}
Loop == [at : LoopLabels, line : Seq(Nat), eol : BOOLEAN, end : BOOLEAN, todo : Seq(Clients)]
Reading == [step : {"new", "reading", "whole", "tail"}, todo : SUBSET Nat, got : Seq(Entry), had : SUBSET Entry, since : Nat]

\* Types
LogType ==
  /\ DOMAIN files \subseteq 0..Rotated /\ \A i \in DOMAIN files : files[i] \in Seq(Entry)
  /\ driver \in {"open", "closed", "broken"} /\ (driver = "open" => 0 \in DOMAIN files)
  /\ reader \in [Readers -> Reading]
  /\ logged \in Seq(Entry) /\ dropped \subseteq Entry /\ rotations \in Nat

LoopType ==
  /\ setup \in Setups /\ phase \in {"create", "created", "up", "failed"}
  /\ alive \in BOOLEAN /\ daemonEnds \in BOOLEAN /\ closing \in {"no", "waiting", "done"}
  /\ wrote \in [Streams -> Nat] /\ pipe \in [Streams -> Seq(Written)]
  /\ loop \in [Streams -> Loop]

FanType ==
  /\ attachOut \in Seq(Clients) /\ attachBuf \in Seq(Piece) /\ attachBufFlushed \in BOOLEAN
  /\ client \in [Clients -> {"new", "attached", "gone", "left"}] /\ unread \in [Clients -> Nat]
  /\ got \in [Clients -> Seq(Piece)] /\ fanned \in Seq(Piece) /\ first \in Clients \cup {NoClient}

OutputType == LogType /\ LoopType /\ FanType

\* A loop that has something for the log or the clients has a line, and clients
\* left to send it to while it is sending.
HasLine == \A s \in Streams : loop[s].at \in {"log", "fan", "sending"} => loop[s].line # <<>>
NoLine == \A s \in Streams : loop[s].at \in {"off", "gone"} => loop[s].line = <<>>
HasTodo == \A s \in Streams : loop[s].at = "sending" => loop[s].todo # <<>>

TypeInv == OutputType /\ HasLine /\ NoLine /\ HasTodo

-----------------------------------------------------------------------------
(* Close *)

\* A loop comes to the end only when nobody can write any more, or the PTY is closed.
\* Until crun create has come back the daemon has the write ends itself.
GoneLast == \A s \in Streams : ~tty /\ (loop[s].at = "gone" \/ loop[s].end) => AtEnd(s)
EndsKept == phase = "create" => alive /\ daemonEnds = ~tty
EveryLoop == ~tty => \A s \in Streams : loop[s].at # "off"
ClosedLast == closing = "done" => \A s \in Streams : loop[s].at \in {"off", "gone"}
Closing == closing # "no" => phase # "create"
NotYet == tty /\ phase = "create" => \A s \in Streams : loop[s].at = "off"

CloseInv == GoneLast /\ EndsKept /\ EveryLoop /\ ClosedLast /\ Closing /\ NotYet

-----------------------------------------------------------------------------
(* The pieces on their way *)

\* Pieces the loop has taken from the pipe, and those it is through with
Taken(s) == wrote[s] - Len(pipe[s])
Through(s) == Taken(s) - Unlogged(s)

InPipe ==
  \A s \in Streams : Len(pipe[s]) <= wrote[s] /\ \A i \in 1..Len(pipe[s]) : pipe[s][i].n = Taken(s) + i
InLine ==
  \A s \in Streams : LET line == loop[s].line IN
    Len(line) <= Taken(s) /\ \A i \in 1..Len(line) : line[i] = Taken(s) - Len(line) + i

\* What is dropped was taken.
DroppedTaken == \A s \in Streams : \A e \in dropped : e.s = s => \A x \in ToSet(e.line) : x \in 1..Through(s)

\* LogFaithful for one stream and any log: n pieces are through.
Says(e, s, x) == e.s = s /\ x \in ToSet(e.line)
Faithful(log, drop, s, n) ==
  /\ \A x : (\E k \in DOMAIN log : Says(log[k], s, x)) <=> (x \in 1..n /\ \A e \in drop : ~Says(e, s, x))
  /\ \A k, l \in DOMAIN log : log[k].s = s /\ log[l].s = s =>
       \A i \in DOMAIN log[k].line, j \in DOMAIN log[l].line :
         k < l \/ (k = l /\ i < j) => log[k].line[i] < log[l].line[j]

PiecesInv == InPipe /\ InLine /\ DroppedTaken /\ \A s \in Streams : Faithful(logged, dropped, s, Through(s))

-----------------------------------------------------------------------------
(* The clients *)

OneSender == \A s, t \in Streams : loop[s].at = "sending" /\ loop[t].at = "sending" => s = t

Once(seq) == \A i, j \in DOMAIN seq : seq[i] = seq[j] => i = j

\* attachOut has the clients that are attached, or gone and not yet noticed.
AttachedOnce ==
  /\ Once(attachOut)
  /\ \A c \in Clients : client[c] \in {"attached", "gone"} <=> c \in ToSet(attachOut)

\* Whoever is sending has clients left to send to.
Todo ==
  \A s \in Streams : loop[s].at = "sending" =>
    Once(loop[s].todo) /\ ToSet(loop[s].todo) \subseteq ToSet(attachOut)

\* The buffer is the end of the output, and there is one only without clients.
Buffered ==
  /\ \E before \in Seq(Piece) : fanned = before \o attachBuf
  /\ attachBuf # <<>> => attachOut = <<>> /\ ~attachBufFlushed
  /\ first = NoClient => attachBuf = fanned /\ attachOut = <<>> /\ ~attachBufFlushed
                         /\ \A c \in Clients : client[c] = "new"

NewHasNothing == \A c \in Clients : client[c] = "new" => got[c] = <<>> /\ c # first

\* The loop s is still to send to c.
Owed(s, c) == loop[s].at = "sending" /\ c \in ToSet(loop[s].todo)

\* What c has is in one piece, from the beginning for the first, to the end for
\* who is attached, but for what is just being sent.
HasPart(c) ==
  \E before, after \in Seq(Piece) :
    /\ fanned = (before \o got[c]) \o after
    /\ c = first => before = <<>>
    /\ client[c] = "attached" =>
         (\A s \in Streams : Owed(s, c) => after = Data(s)) /\ ((\A s \in Streams : ~Owed(s, c)) => after = <<>>)

FanInv == OneSender /\ AttachedOnce /\ Todo /\ Buffered /\ NewHasNothing /\ \A c \in Clients : HasPart(c)

-----------------------------------------------------------------------------
(* The files of the log and their readers *)

\* st[i] entries of log were logged before the first of the file i of fs.
Held(fs, st, log) ==
  /\ DOMAIN st = DOMAIN fs
  /\ \A i \in DOMAIN fs : st[i] \in Nat /\ st[i] + Len(fs[i]) <= Len(log)
                          /\ \A n \in 1..Len(fs[i]) : fs[i][n] = log[st[i] + n]
  /\ \A i, j \in DOMAIN fs : i < j => st[j] + Len(fs[j]) <= st[i]

\* While the log is open every rotated file is full and none is missing.
Tight(fs, st, log) ==
  /\ st[0] + Len(fs[0]) = Len(log)
  /\ MaxSize > 0 => Len(fs[0]) <= MaxSize
  /\ \E k \in 0..Rotated :
       /\ DOMAIN fs = 0..k /\ (MaxSize = 0 => k = 0)
       /\ \A i \in 1..k : Len(fs[i]) = MaxSize /\ st[i] + MaxSize = st[i - 1]
       /\ st[0] - st[k] = k * MaxSize
       /\ k < Rotated => st[k] = 0

\* What a reader has was logged in this order, before all it has still to read.
Embeds(at, seq, log) ==
  /\ at \in [DOMAIN seq -> DOMAIN log]
  /\ \A i \in DOMAIN seq : log[at[i]] = seq[i]
  /\ \A i, j \in DOMAIN seq : i < j => at[i] < at[j]

ReadsOn(rd, fs, st, log) ==
  \E at : /\ Embeds(at, rd.got, log)
          /\ rd.step = "reading" =>
               \A i \in DOMAIN rd.got : \A k \in DOMAIN fs : \A j \in rd.todo : k <= j => at[i] <= st[k]

FilesInv ==
  /\ RetainedSuffix
  /\ \E st : /\ Held(files, st, logged) /\ (driver = "open" => Tight(files, st, logged))
             /\ \A r \in Readers : ReadsOn(reader[r], files, st, logged)

\* Until a rotation what was there is in the files a reader has not read, and
\* nothing too long is in front of it.
StillThere(rd, fs, e) ==
  \E i \in rd.todo \cap DOMAIN fs : \E n \in 1..Len(fs[i]) : fs[i][n] = e /\ \A m \in 1..n : fs[i][m] \in rd.had

Whole(rd, fs, now) ==
  /\ rd.step # "new" => rd.since <= now
  /\ (/\ rd.step \in {"reading", "whole"} /\ rd.since = now
      /\ \A e \in rd.had : Len(e.line) <= MaxToken)
     => \A e \in rd.had : e \in ToSet(rd.got) \/ (rd.step = "reading" /\ StillThere(rd, fs, e))

WholeInv == \A r \in Readers : Whole(reader[r], files, rotations)

OutputInv == TypeInv /\ CloseInv /\ PiecesInv /\ FanInv /\ FilesInv /\ WholeInv

-----------------------------------------------------------------------------
(* Sequences *)

LEMMA AppendSeq ==
  ASSUME NEW S, NEW q \in Seq(S), NEW e \in S
  PROVE  /\ Append(q, e) \in Seq(S) /\ Len(Append(q, e)) = Len(q) + 1 /\ Len(q) \in Nat
         /\ DOMAIN q = 1..Len(q) /\ DOMAIN Append(q, e) = 1..(Len(q) + 1)
         /\ \A i \in 1..Len(q) : Append(q, e)[i] = q[i]
         /\ Append(q, e)[Len(q) + 1] = e
BY AppendProperties, LenProperties

LEMMA ConcatSeq ==
  ASSUME NEW S, NEW p \in Seq(S), NEW q \in Seq(S)
  PROVE  /\ p \o q \in Seq(S) /\ Len(p \o q) = Len(p) + Len(q) /\ Len(p) \in Nat /\ Len(q) \in Nat
         /\ DOMAIN (p \o q) = 1..(Len(p) + Len(q)) /\ DOMAIN p = 1..Len(p) /\ DOMAIN q = 1..Len(q)
         /\ \A i \in 1..Len(p) : (p \o q)[i] = p[i]
         /\ \A i \in 1..Len(q) : (p \o q)[Len(p) + i] = q[i]
<1>1. /\ p \o q \in Seq(S) /\ Len(p \o q) = Len(p) + Len(q)
      /\ \A i \in 1..(Len(p) + Len(q)) : (p \o q)[i] = IF i <= Len(p) THEN p[i] ELSE q[i - Len(p)]
  BY ConcatProperties
<1>2. Len(p) \in Nat /\ Len(q) \in Nat /\ DOMAIN p = 1..Len(p) /\ DOMAIN q = 1..Len(q)
      /\ DOMAIN (p \o q) = 1..(Len(p) + Len(q))
  BY <1>1, LenProperties
<1>3. ASSUME NEW i \in 1..Len(q) PROVE (p \o q)[Len(p) + i] = q[i]
  <2>1. Len(p) + i \in 1..(Len(p) + Len(q)) /\ ~(Len(p) + i <= Len(p)) /\ (Len(p) + i) - Len(p) = i
    BY <1>2
  <2> QED
    BY <1>1, <2>1
<1> QED
  BY <1>1, <1>2, <1>3

LEMMA SubSeqSeq ==
  ASSUME NEW S, NEW q \in Seq(S), NEW m \in 1..(Len(q) + 1), NEW n \in (m - 1)..Len(q)
  PROVE  /\ SubSeq(q, m, n) \in Seq(S) /\ Len(SubSeq(q, m, n)) = n - m + 1
         /\ \A i \in 1..(n - m + 1) : SubSeq(q, m, n)[i] = q[m + i - 1]
<1>1. Len(q) \in Nat /\ \A i \in 1..Len(q) : q[i] \in S
  BY LenProperties, ElementOfSeq
<1>2. \A i \in m..n : q[i] \in S
  BY <1>1
<1> QED
  BY <1>1, <1>2, SubSeqProperties

LEMMA TailSeq ==
  ASSUME NEW S, NEW q \in Seq(S), q # <<>>
  PROVE  /\ Tail(q) \in Seq(S) /\ Len(Tail(q)) = Len(q) - 1 /\ Head(q) \in S /\ Head(q) = q[1] /\ Len(q) \in Nat \ {0}
         /\ \A i \in 1..Len(Tail(q)) : Tail(q)[i] = q[i + 1]
BY HeadTailProperties, EmptySeq, LenProperties

-----------------------------------------------------------------------------
(* What a rotation makes of the files *)

LEMMA RotatedPos == Rotated \in Nat \ {0}
BY LogConstants DEF Rotated

LEMMA ShiftIs ==
  /\ DOMAIN Shift = (DOMAIN files \cap {0}) \cup {k \in 2..Rotated : k - 1 \in DOMAIN files}
  /\ \A k \in DOMAIN Shift : Shift[k] = IF k = 0 THEN files[0] ELSE files[k - 1]
BY DEF Shift

LEMMA RenamedIs ==
  /\ DOMAIN Renamed = {1} \cup {k \in 2..Rotated : k - 1 \in DOMAIN files}
  /\ Renamed[1] = files[0] /\ \A k \in DOMAIN Renamed \ {1} : Renamed[k] = files[k - 1]
<1>1. DOMAIN Renamed = (DOMAIN Shift \ {0}) \cup {1}
  BY DEF Renamed
<1>2. \A k \in 2..Rotated : k # 0 /\ k # 1
  BY RotatedPos
<1>3. DOMAIN Renamed = {1} \cup {k \in 2..Rotated : k - 1 \in DOMAIN files}
  BY <1>1, <1>2, ShiftIs
<1>4. ASSUME NEW k \in DOMAIN Renamed \ {1} PROVE Renamed[k] = files[k - 1]
  <2>1. k \in DOMAIN Shift \ {0} /\ Renamed[k] = Shift[k]
    BY <1>1, <1>4 DEF Renamed
  <2> QED
    BY <2>1, ShiftIs
<1>5. Renamed[1] = files[0]
  BY DEF Renamed
<1> QED
  BY <1>3, <1>4, <1>5

LEMMA ReadyIs ==
  ASSUME Full
  PROVE  /\ DOMAIN Ready = {0, 1} \cup {k \in 2..Rotated : k - 1 \in DOMAIN files}
         /\ Ready[0] = <<>> /\ Ready[1] = files[0] /\ \A k \in DOMAIN Ready \ {0, 1} : Ready[k] = files[k - 1]
<1>1. Ready = [k \in DOMAIN Renamed \cup {0} |-> IF k = 0 THEN <<>> ELSE Renamed[k]]
  BY DEF Ready
<1>2. DOMAIN Ready = {0} \cup DOMAIN Renamed /\ Ready[0] = <<>>
  BY <1>1
<1>3. Ready[1] = Renamed[1]
  BY <1>1, RenamedIs
<1>4. \A k \in DOMAIN Ready \ {0, 1} : Ready[k] = Renamed[k] /\ k \in DOMAIN Renamed \ {1}
  BY <1>1, <1>2
<1> QED
  BY <1>2, <1>3, <1>4, RenamedIs

LogFilesOf(fs) == DOMAIN fs \subseteq 0..Rotated /\ \A i \in DOMAIN fs : fs[i] \in Seq(Entry)

\* A file that is still there is further back, and none has older entries.
Newer(st, st2, log) ==
  \A k \in DOMAIN st2 : st2[k] = Len(log) \/ \E m \in DOMAIN st : m <= k /\ st[m] <= st2[k]

LEMMA ReadyFiles ==
  ASSUME LogType, driver = "open"
  PROVE  LogFilesOf(Ready) /\ 0 \in DOMAIN Ready /\ (MaxSize > 0 => Len(Ready[0]) + 1 <= MaxSize)
<1>1. CASE ~Full
  <2>1. Len(files[0]) \in Nat
    BY LenProperties DEF LogType
  <2> QED
    BY <1>1, <2>1, LogConstants DEF Ready, LogType, LogFilesOf, Full
<1>2. CASE Full
  <2>1. DOMAIN Ready \subseteq 0..Rotated
    BY <1>2, ReadyIs, RotatedPos
  <2>2. \A k \in DOMAIN Ready : Ready[k] \in Seq(Entry)
    BY <1>2, ReadyIs, EmptySeq DEF LogType
  <2>3. Len(Ready[0]) + 1 <= MaxSize
    BY <1>2, ReadyIs, LogConstants, EmptySeq DEF Full
  <2> QED
    BY <1>2, <2>1, <2>2, <2>3, ReadyIs DEF LogFilesOf
<1> QED
  BY <1>1, <1>2

LEMMA ShiftFiles ==
  ASSUME LogType, driver = "open"
  PROVE  LogFilesOf(Shift) /\ LogFilesOf(Renamed)
<1>1. DOMAIN Shift \subseteq 0..Rotated /\ DOMAIN Renamed \subseteq 0..Rotated
  BY ShiftIs, RenamedIs, RotatedPos
<1>2. \A k \in DOMAIN Shift : Shift[k] \in Seq(Entry)
  BY ShiftIs DEF LogType
<1>3. \A k \in DOMAIN Renamed : Renamed[k] \in Seq(Entry)
  BY RenamedIs DEF LogType
<1> QED
  BY <1>1, <1>2, <1>3 DEF LogFilesOf

LEMMA LogTypeKept ==
  ASSUME LogType, NEW e \in Entry, Log(e)
  PROVE  LogType'
<1>1. \A i \in DOMAIN files : files[i] \in Seq(Entry)
  BY DEF LogType
<1>2. CASE LogWritten(e)
  <2>1. driver = "open" /\ files' = [Ready EXCEPT ![0] = Append(@, e)] /\ logged' = Append(logged, e)
    BY <1>2 DEF LogWritten
  <2>2. LogFilesOf(Ready) /\ 0 \in DOMAIN Ready
    BY <2>1, ReadyFiles
  <2>3. Append(Ready[0], e) \in Seq(Entry)
    BY <2>2, AppendProperties DEF LogFilesOf
  <2>4. LogFilesOf(files)' /\ 0 \in DOMAIN files'
    BY <2>1, <2>2, <2>3 DEF LogFilesOf
  <2>5. logged' \in Seq(Entry)
    BY <2>1, AppendProperties DEF LogType
  <2>6. rotations' \in Nat
    BY <1>2 DEF LogWritten, LogType
  <2> QED
    BY <1>2, <2>1, <2>4, <2>5, <2>6 DEF LogWritten, LogType, LogFilesOf, Log
<1>3. CASE LogFails(e)
  <2>1. LogFilesOf(files)' /\ (driver' = "open" => 0 \in DOMAIN files')
    BY <1>3, ReadyFiles, ShiftFiles DEF LogFails, LogType, LogFilesOf
  <2>2. rotations' \in Nat /\ driver' \in {"open", "closed", "broken"}
    BY <1>3 DEF LogFails, LogType
  <2> QED
    BY <1>3, <2>1, <2>2 DEF LogFails, LogType, LogFilesOf, Log
<1> QED
  BY <1>2, <1>3 DEF Log
-----------------------------------------------------------------------------
(* Where the entries of the files are in the log *)

LEMMA PartIs ==
  ASSUME NEW S, NEW l \in Seq(S), NEW f \in Seq(S), NEW a \in Nat, a + Len(f) <= Len(l),
         \A n \in 1..Len(f) : f[n] = l[a + n]
  PROVE  f = SubSeq(l, a + 1, a + Len(f))
<1>1. Len(f) \in Nat /\ Len(l) \in Nat
  BY LenProperties
<1>2. a + 1 \in 1..(Len(l) + 1) /\ a + Len(f) \in ((a + 1) - 1)..Len(l)
  BY <1>1
<1>3. /\ SubSeq(l, a + 1, a + Len(f)) \in Seq(S) /\ Len(SubSeq(l, a + 1, a + Len(f))) = Len(f)
      /\ \A i \in 1..Len(f) : SubSeq(l, a + 1, a + Len(f))[i] = l[a + i]
  <2>1. /\ SubSeq(l, a + 1, a + Len(f)) \in Seq(S)
        /\ Len(SubSeq(l, a + 1, a + Len(f))) = (a + Len(f)) - (a + 1) + 1
        /\ \A i \in 1..((a + Len(f)) - (a + 1) + 1) : SubSeq(l, a + 1, a + Len(f))[i] = l[(a + 1) + i - 1]
    BY <1>2, SubSeqSeq, Zenon
  <2>2. (a + Len(f)) - (a + 1) + 1 = Len(f) /\ \A i \in 1..Len(f) : (a + 1) + i - 1 = a + i
    BY <1>1
  <2> QED
    BY <2>1, <2>2
<1> QED
  BY <1>3, SeqEqual

\* Rotation moves the files, not their place in the log.
LEMMA ReadyPlaced ==
  ASSUME LogType, driver = "open", NEW st, Held(files, st, logged), Tight(files, st, logged)
  PROVE  \E st2 : Held(Ready, st2, logged) /\ Tight(Ready, st2, logged) /\ Newer(st, st2, logged)
<1>1. \A i \in DOMAIN files : st[i] \in Nat /\ Len(files[i]) \in Nat /\ i \in Nat
  BY LenProperties, RotatedPos DEF LogType, Held
<1>2. CASE ~Full
  <2>1. Ready = files
    BY <1>2 DEF Ready
  <2>2. Newer(st, st, logged)
    BY <1>1 DEF Newer, Held
  <2> QED
    BY <2>1, <2>2
<1>3. CASE Full
  <2> DEFINE st2 == [k \in DOMAIN Ready |-> IF k = 0 THEN Len(logged) ELSE st[k - 1]]
  <2>1. PICK k \in 0..Rotated : /\ DOMAIN files = 0..k /\ (MaxSize = 0 => k = 0)
                                /\ \A i \in 1..k : Len(files[i]) = MaxSize /\ st[i] + MaxSize = st[i - 1]
                                /\ st[0] - st[k] = k * MaxSize /\ (k < Rotated => st[k] = 0)
    BY DEF Tight
  <2>2. MaxSize \in Nat /\ MaxSize > 0 /\ Len(files[0]) = MaxSize /\ k \in Nat /\ Rotated \in Nat \ {0}
    <3>1. 0 \in DOMAIN files /\ Rotated \in Nat \ {0}
      BY <2>1, RotatedPos
    <3> QED
      BY <1>1, <1>3, <2>1, <3>1, LogConstants DEF Full, Tight
  <2> DEFINE k2 == IF k < Rotated THEN k + 1 ELSE k
  <2>3. DOMAIN Ready = 0..k2 /\ k2 \in 0..Rotated /\ k2 >= 1
    <3>1. DOMAIN Ready = {0, 1} \cup {j \in 2..Rotated : j - 1 \in 0..k}
      BY <1>3, <2>1, ReadyIs
    <3> QED
      BY <2>1, <2>2, <3>1
  <2>4. Ready[0] = <<>> /\ Len(Ready[0]) = 0
    BY <1>3, ReadyIs, EmptySeq
  <2>5. ASSUME NEW i \in 1..k2
        PROVE  /\ Ready[i] = files[i - 1] /\ i - 1 \in 0..k /\ i - 1 \in DOMAIN files
               /\ st2[i] = st[i - 1] /\ Len(Ready[i]) = MaxSize
    <3>1. i - 1 \in 0..k /\ i \in DOMAIN Ready /\ i # 0
      BY <2>1, <2>2, <2>3
    <3>2. Ready[i] = files[i - 1]
      BY <1>3, <3>1, ReadyIs
    <3>3. Len(files[i - 1]) = MaxSize
      BY <2>1, <2>2, <3>1
    <3> QED
      BY <2>1, <3>1, <3>2, <3>3
  <2>6. st2[0] = Len(logged) /\ Len(logged) \in Nat /\ DOMAIN st2 = DOMAIN Ready
    BY <2>3, LenProperties DEF LogType
  <2>7. Len(logged) = st[0] + MaxSize /\ st[0] \in Nat
    BY <1>1, <2>1, <2>2, SMTT(30) DEF Tight
  <2>a. k2 = (IF k < Rotated THEN k + 1 ELSE k) /\ k2 \in Nat
    BY <2>2
  <2> HIDE DEF st2, k2
  <2>8. Held(Ready, st2, logged)
    <3>1. ASSUME NEW i \in DOMAIN Ready
          PROVE  st2[i] \in Nat /\ st2[i] + Len(Ready[i]) <= Len(logged)
                 /\ \A n \in 1..Len(Ready[i]) : Ready[i][n] = logged[st2[i] + n]
      <4>1. CASE i = 0
        BY <2>4, <2>6, <4>1
      <4>2. CASE i # 0
        <5>1. i \in 1..k2
          BY <2>3, <4>2
        <5>2. i - 1 \in DOMAIN files /\ Ready[i] = files[i - 1] /\ st2[i] = st[i - 1]
          BY <2>5, <5>1
        <5> QED
          BY <1>1, <5>2 DEF Held
      <4> QED
        BY <4>1, <4>2
    <3>2. ASSUME NEW i \in DOMAIN Ready, NEW j \in DOMAIN Ready, i < j
          PROVE  st2[j] + Len(Ready[j]) <= st2[i]
      <4>1. j \in 1..k2
        BY <2>3, <3>2
      <4>2. CASE i = 0
        BY <2>5, <2>6, <3>1, <4>2
      <4>3. CASE i # 0
        <5>1. i \in 1..k2 /\ i - 1 < j - 1
          BY <2>3, <3>2, <4>3
        <5> QED
          BY <2>5, <4>1, <5>1 DEF Held
      <4> QED
        BY <4>2, <4>3
    <3> QED
      BY <2>6, <3>1, <3>2 DEF Held
  <2>9. Tight(Ready, st2, logged)
    <3>1. ASSUME NEW i \in 1..k2 PROVE Len(Ready[i]) = MaxSize /\ st2[i] + MaxSize = st2[i - 1]
      <4>1. CASE i = 1
        BY <2>5, <2>6, <2>7, <4>1
      <4>2. CASE i # 1
        <5>1. i - 1 \in 1..k2 /\ i - 1 \in 1..k /\ (i - 1) - 1 = i - 2
          BY <2>2, <2>5, <2>a, <4>2
        <5>2. st2[i - 1] = st[i - 2]
          BY <2>5, <5>1
        <5>3. st[i - 1] + MaxSize = st[i - 2]
          BY <2>1, <5>1
        <5> QED
          BY <2>5, <5>2, <5>3
      <4> QED
        BY <4>1, <4>2
    <3>2. st2[0] - st2[k2] = k2 * MaxSize
      <4>1. k2 \in 1..k2 /\ st2[k2] = st[k2 - 1]
        BY <2>3, <2>5
      <4>2. CASE k < Rotated
        <5>1. k2 = k + 1
          BY <2>a, <4>2
        <5>2. st2[k2] = st[k]
          BY <2>2, <4>1, <5>1
        <5>3. (k + 1) * MaxSize = k * MaxSize + MaxSize /\ k * MaxSize \in Int
          BY <2>2
        <5>4. k \in DOMAIN files
          BY <2>1, <2>2
        <5>5. st[k] \in Nat
          BY <1>1, <5>4
        <5>6. st2[0] - st2[k2] = (st[0] - st[k]) + MaxSize
          BY <2>2, <2>6, <2>7, <5>2, <5>5
        <5>7. st2[0] - st2[k2] = k * MaxSize + MaxSize
          BY <2>1, <5>6
        <5> QED
          BY <5>1, <5>3, <5>7
      <4>3. CASE ~(k < Rotated)
        <5>1. k2 = k /\ k \in 1..k
          BY <2>2, <2>1, <2>a, <4>3
        <5>2. st[k] + MaxSize = st[k - 1] /\ k \in DOMAIN files
          BY <2>1, <2>2, <5>1
        <5>3. st[k] \in Nat
          BY <1>1, <5>2
        <5>4. st2[0] - st2[k2] = st[0] - st[k]
          BY <2>2, <2>6, <2>7, <4>1, <5>1, <5>2, <5>3
        <5> QED
          BY <2>1, <5>1, <5>4
      <4> QED
        BY <4>2, <4>3
    <3>3. k2 < Rotated => st2[k2] = 0
      BY <2>1, <2>2, <2>3, <2>5, <2>a
    <3>4. (MaxSize > 0 => Len(Ready[0]) <= MaxSize) /\ st2[0] + Len(Ready[0]) = Len(logged)
      BY <2>2, <2>4, <2>6
    <3> QED
      BY <2>2, <2>3, <3>1, <3>2, <3>3, <3>4 DEF Tight
  <2>10. Newer(st, st2, logged)
    <3> SUFFICES ASSUME NEW i \in DOMAIN st2, i # 0
                 PROVE  \E m \in DOMAIN st : m <= i /\ st[m] <= st2[i]
      BY <2>6 DEF Newer
    <3>1. i \in 1..k2
      BY <2>3, <2>6
    <3>2. i - 1 \in DOMAIN files /\ st2[i] = st[i - 1]
      BY <2>5, <3>1
    <3>3. i - 1 \in DOMAIN st /\ i - 1 <= i /\ st[i - 1] <= st2[i]
      BY <1>1, <2>a, <3>1, <3>2 DEF Held
    <3> QED
      BY <3>3
  <2> QED
    BY <2>8, <2>9, <2>10
<1> QED
  BY <1>2, <1>3

\* A writer that has room appends to the log and to what was logged.
LEMMA AppendPlaced ==
  ASSUME NEW fs, LogFilesOf(fs), 0 \in DOMAIN fs, NEW log \in Seq(Entry), NEW e \in Entry,
         NEW st, Held(fs, st, log), Tight(fs, st, log), MaxSize > 0 => Len(fs[0]) + 1 <= MaxSize
  PROVE  /\ Held([fs EXCEPT ![0] = Append(@, e)], st, Append(log, e))
         /\ Tight([fs EXCEPT ![0] = Append(@, e)], st, Append(log, e))
<1> DEFINE fs2 == [fs EXCEPT ![0] = Append(@, e)]
           log2 == Append(log, e)
<1>1. fs[0] \in Seq(Entry) /\ \A i \in DOMAIN fs : i \in Nat /\ fs[i] \in Seq(Entry) /\ Len(fs[i]) \in Nat /\ st[i] \in Nat
  BY LenProperties, RotatedPos DEF LogFilesOf, Held
<1>2. /\ Len(log2) = Len(log) + 1 /\ Len(log) \in Nat
      /\ (\A i \in 1..Len(log) : log2[i] = log[i]) /\ log2[Len(log) + 1] = e
  BY AppendSeq
<1>3. /\ DOMAIN fs2 = DOMAIN fs /\ fs2[0] = Append(fs[0], e) /\ (\A i \in DOMAIN fs \ {0} : fs2[i] = fs[i])
      /\ Len(fs2[0]) = Len(fs[0]) + 1 /\ (\A i \in 1..Len(fs[0]) : fs2[0][i] = fs[0][i])
      /\ fs2[0][Len(fs[0]) + 1] = e
  BY <1>1, AppendSeq
<1>4. st[0] + Len(fs[0]) = Len(log)
  BY DEF Tight
<1>0. st[0] \in Nat /\ Len(fs[0]) \in Nat
  BY <1>1
<1> HIDE DEF fs2, log2
<1>5. Held(fs2, st, log2)
  <2>1. ASSUME NEW i \in DOMAIN fs
        PROVE  /\ st[i] + Len(fs2[i]) <= Len(log2)
               /\ \A n \in 1..Len(fs2[i]) : fs2[i][n] = log2[st[i] + n]
    <3>0. st[i] \in Nat /\ Len(fs[i]) \in Nat /\ st[i] + Len(fs[i]) <= Len(log)
          /\ \A n \in 1..Len(fs[i]) : fs[i][n] = log[st[i] + n]
      BY <1>1 DEF Held
    <3>1. CASE i = 0
      <4>1. ASSUME NEW n \in 1..(Len(fs[0]) + 1) PROVE fs2[0][n] = log2[st[0] + n]
        <5>1. CASE n \in 1..Len(fs[0])
          <6>1. st[0] + n \in 1..Len(log)
            BY <1>2, <1>4, <3>0, <3>1, <5>1
          <6> QED
            BY <1>2, <1>3, <3>0, <3>1, <5>1, <6>1
        <5>2. CASE n = Len(fs[0]) + 1
          <6>1. st[0] + n = (st[0] + Len(fs[0])) + 1
            BY <1>0, <5>2
          <6> QED
            BY <1>2, <1>3, <1>4, <5>2, <6>1
        <5> QED
          BY <3>0, <3>1, <5>1, <5>2
      <4> QED
        BY <1>2, <1>3, <1>4, <3>0, <3>1, <4>1, SMTT(30)
    <3>2. CASE i # 0
      <4>1. fs2[i] = fs[i] /\ \A n \in 1..Len(fs[i]) : st[i] + n \in 1..Len(log)
        BY <1>2, <1>3, <3>0, <3>2
      <4>2. \A n \in 1..Len(fs2[i]) : fs2[i][n] = log2[st[i] + n]
        BY <1>2, <3>0, <4>1
      <4> QED
        BY <1>2, <3>0, <4>1, <4>2
    <3> QED
      BY <3>1, <3>2
  <2>2. ASSUME NEW i \in DOMAIN fs, NEW j \in DOMAIN fs, i < j PROVE st[j] + Len(fs2[j]) <= st[i]
    <3>1. j # 0
      BY <1>1, <2>2
    <3> QED
      BY <1>3, <2>2, <3>1 DEF Held
  <2>3. DOMAIN st = DOMAIN fs2
    BY <1>3 DEF Held
  <2> QED
    BY <1>1, <1>3, <2>1, <2>2, <2>3 DEF Held
<1>6. Tight(fs2, st, log2)
  <2>1. PICK k \in 0..Rotated : /\ DOMAIN fs = 0..k /\ (MaxSize = 0 => k = 0)
                                /\ \A i \in 1..k : Len(fs[i]) = MaxSize /\ st[i] + MaxSize = st[i - 1]
                                /\ st[0] - st[k] = k * MaxSize /\ (k < Rotated => st[k] = 0)
    BY DEF Tight
  <2>2. \A i \in 1..k : i \in DOMAIN fs \ {0} /\ fs2[i] = fs[i] /\ Len(fs2[i]) = MaxSize
    <3>1. \A i \in 1..k : i \in DOMAIN fs \ {0}
      BY <2>1, RotatedPos
    <3> QED
      BY <1>3, <2>1, <3>1
  <2>3. st[0] + Len(fs2[0]) = Len(log2)
    BY <1>0, <1>2, <1>3, <1>4
  <2> QED
    BY <1>3, <2>1, <2>2, <2>3 DEF Tight
<1> QED
  BY <1>5, <1>6 DEF fs2, log2

\* RetainedSuffix of any files and log
Suffix(fs, log) ==
  /\ DOMAIN fs \subseteq 0..Rotated
  /\ \E before \in [0..(Rotated + 1) -> 0..Len(log)] :
       /\ before[0] = Len(log)
       /\ \A i \in 0..Rotated :
            IF i \in DOMAIN fs
            THEN before[i] = before[i + 1] + Len(fs[i]) /\ fs[i] = SubSeq(log, before[i + 1] + 1, before[i])
            ELSE before[i] = before[i + 1]
       /\ before[Rotated + 1] = 0 \/ (MaxSize > 0 /\ Len(log) - before[Rotated + 1] >= Rotated * MaxSize)

\* before[i] entries of log were logged before those of the files 0 to i - 1.
Older(before, fs, st, log) ==
  /\ before \in [0..(Rotated + 1) -> 0..Len(log)] /\ before[0] = Len(log)
  /\ \A i \in 0..Rotated : IF i \in DOMAIN fs
                           THEN before[i + 1] = st[i] /\ before[i] = st[i] + Len(fs[i])
                           ELSE before[i] = before[i + 1]
  /\ before[Rotated + 1] = 0 \/ (MaxSize > 0 /\ Len(log) - before[Rotated + 1] >= Rotated * MaxSize)

LEMMA HeldSuffix ==
  ASSUME NEW fs, LogFilesOf(fs), NEW log \in Seq(Entry), NEW st, Held(fs, st, log),
         NEW before, Older(before, fs, st, log)
  PROVE  Suffix(fs, log)
<1>1. ASSUME NEW i \in 0..Rotated, i \in DOMAIN fs
      PROVE  before[i] = before[i + 1] + Len(fs[i]) /\ fs[i] = SubSeq(log, before[i + 1] + 1, before[i])
  <2>1. st[i] \in Nat /\ st[i] + Len(fs[i]) <= Len(log) /\ fs[i] \in Seq(Entry)
        /\ \A n \in 1..Len(fs[i]) : fs[i][n] = log[st[i] + n]
    BY <1>1 DEF Held, LogFilesOf
  <2>2. fs[i] = SubSeq(log, st[i] + 1, st[i] + Len(fs[i]))
    BY <2>1, PartIs
  <2> QED
    BY <1>1, <2>2 DEF Older
<1> QED
  BY <1>1 DEF Suffix, LogFilesOf, Older

\* While the log is open its files hold what they must.
LEMMA TightSuffix ==
  ASSUME NEW fs, LogFilesOf(fs), 0 \in DOMAIN fs, NEW log \in Seq(Entry),
         NEW st, Held(fs, st, log), Tight(fs, st, log)
  PROVE  Suffix(fs, log)
<1>1. PICK k \in 0..Rotated : /\ DOMAIN fs = 0..k /\ (MaxSize = 0 => k = 0)
                              /\ \A i \in 1..k : Len(fs[i]) = MaxSize /\ st[i] + MaxSize = st[i - 1]
                              /\ st[0] - st[k] = k * MaxSize /\ (k < Rotated => st[k] = 0)
  BY DEF Tight
<1>2. Rotated \in Nat \ {0} /\ k \in Nat /\ MaxSize \in Nat /\ k <= Rotated
  BY RotatedPos, LogConstants
<1>3. Len(log) \in Nat /\ \A i \in 0..k : st[i] \in 0..Len(log) /\ Len(fs[i]) \in Nat
  <2>1. Len(log) \in Nat /\ \A i \in DOMAIN fs : Len(fs[i]) \in Nat
    BY LenProperties DEF LogFilesOf
  <2>2. ASSUME NEW i \in 0..k PROVE st[i] \in 0..Len(log) /\ Len(fs[i]) \in Nat
    <3>1. i \in DOMAIN fs
      BY <1>1
    <3>2. st[i] \in Nat /\ st[i] + Len(fs[i]) <= Len(log) /\ Len(fs[i]) \in Nat
      BY <2>1, <3>1 DEF Held
    <3> QED
      BY <2>1, <3>2
  <2> QED
    BY <2>1, <2>2
<1> DEFINE before == [i \in 0..(Rotated + 1) |->
                        IF i = 0 THEN Len(log) ELSE IF i <= k + 1 THEN st[i - 1] ELSE st[k]]
<1>4. before \in [0..(Rotated + 1) -> 0..Len(log)]
  <2>1. \A i \in 0..(Rotated + 1) : i # 0 /\ i <= k + 1 => i - 1 \in 0..k
    BY <1>2
  <2>2. k \in 0..k
    BY <1>2
  <2> QED
    BY <1>3, <2>1, <2>2
<1>5. /\ before[0] = Len(log)
      /\ \A i \in 1..(k + 1) : before[i] = st[i - 1]
      /\ \A i \in (k + 1)..(Rotated + 1) : before[i] = st[k]
  BY <1>2
<1> HIDE DEF before
<1>6. ASSUME NEW i \in 0..Rotated
      PROVE  IF i \in DOMAIN fs
             THEN before[i + 1] = st[i] /\ before[i] = st[i] + Len(fs[i])
             ELSE before[i] = before[i + 1]
  <2>1. CASE i = 0
    <3>1. i + 1 \in 1..(k + 1) /\ (i + 1) - 1 = i /\ i \in DOMAIN fs
      BY <1>1, <1>2, <2>1
    <3>2. before[i + 1] = st[i]
      BY <1>5, <3>1
    <3> QED
      BY <1>5, <2>1, <3>1, <3>2 DEF Tight
  <2>2. CASE i \in 1..k
    <3>1. i + 1 \in 1..(k + 1) /\ (i + 1) - 1 = i /\ i \in 1..(k + 1) /\ i \in DOMAIN fs
      BY <1>1, <1>2, <2>2
    <3>2. before[i + 1] = st[i] /\ before[i] = st[i - 1]
      BY <1>5, <3>1
    <3> QED
      BY <1>1, <2>2, <3>1, <3>2
  <2>3. CASE i > k
    <3>1. i \in (k + 1)..(Rotated + 1) /\ i + 1 \in (k + 1)..(Rotated + 1) /\ i \notin DOMAIN fs
      BY <1>1, <1>2, <2>3
    <3> QED
      BY <1>5, <3>1
  <2> QED
    BY <1>2, <2>1, <2>2, <2>3
<1>7. before[Rotated + 1] = 0 \/ (MaxSize > 0 /\ Len(log) - before[Rotated + 1] >= Rotated * MaxSize)
  <2>1. before[Rotated + 1] = st[k]
    BY <1>2, <1>5
  <2>2. CASE k < Rotated
    BY <1>1, <2>1, <2>2
  <2>3. CASE k = Rotated
    <3>1. MaxSize > 0 /\ k \in 0..k /\ 0 \in 0..k
      BY <1>1, <1>2, <2>3
    <3>2. st[0] \in 0..Len(log) /\ st[k] \in 0..Len(log)
      BY <1>3, <3>1
    <3>3. k * MaxSize = Rotated * MaxSize
      BY <2>3
    <3>4. Len(log) - st[k] >= st[0] - st[k]
      BY <1>3, <3>2
    <3> QED
      BY <1>1, <2>1, <3>1, <3>3, <3>4
  <2> QED
    BY <1>2, <2>2, <2>3
<1>8. Older(before, fs, st, log)
  BY <1>4, <1>5, <1>6, <1>7 DEF Older
<1> QED
  BY <1>8, HeldSuffix

\* A rotation that fails halfway keeps as much.
LEMMA BrokenPlaced ==
  ASSUME LogType, Full, driver = "open", NEW st, Held(files, st, logged), Tight(files, st, logged),
         NEW fs, NEW x \in {0, 1}, (fs = Shift /\ x = 0) \/ (fs = Renamed /\ x = 1)
  PROVE  \E st2 : Held(fs, st2, logged) /\ Newer(st, st2, logged) /\ Suffix(fs, logged)
<1>1. PICK k \in 0..Rotated : /\ DOMAIN files = 0..k /\ (MaxSize = 0 => k = 0)
                              /\ \A i \in 1..k : Len(files[i]) = MaxSize /\ st[i] + MaxSize = st[i - 1]
                              /\ st[0] - st[k] = k * MaxSize /\ (k < Rotated => st[k] = 0)
  BY DEF Tight
<1> DEFINE K == IF k < Rotated THEN k ELSE Rotated - 1
           From(j) == IF j = x THEN 0 ELSE j - 1
           st2 == [j \in DOMAIN fs |-> st[From(j)]]
<1>2. Rotated \in Nat \ {0} /\ k \in Nat /\ k <= Rotated /\ K \in 0..k /\ K < Rotated
      /\ (k < Rotated => K = k) /\ (~(k < Rotated) => K = Rotated - 1 /\ k = Rotated)
  BY RotatedPos
<1>3. \A i \in 0..k : st[i] \in Nat /\ Len(files[i]) \in Nat /\ st[i] + Len(files[i]) <= Len(logged)
  BY <1>1, LenProperties DEF LogType, Held
<1>4. Len(logged) \in Nat /\ MaxSize \in Nat /\ MaxSize > 0 /\ Len(files[0]) = MaxSize
      /\ st[0] + MaxSize = Len(logged) /\ st[0] \in Nat
  <2>1. 0 \in 0..k
    BY <1>2
  <2>2. MaxSize \in Nat /\ MaxSize > 0 /\ Len(files[0]) = MaxSize
    BY <1>3, <2>1, LogConstants DEF Full, Tight
  <2> QED
    BY <1>3, <2>1, <2>2, LenProperties DEF LogType, Tight
<1>5. DOMAIN fs = {x} \cup 2..(K + 1) /\ fs[x] = files[0] /\ \A j \in 2..(K + 1) : fs[j] = files[j - 1]
  <2>1. {j \in 2..Rotated : j - 1 \in DOMAIN files} = 2..(K + 1)
    BY <1>1, <1>2
  <2>2. CASE fs = Shift /\ x = 0
    <3>1. DOMAIN files \cap {0} = {0}
      BY <1>1, <1>2
    <3>2. DOMAIN fs = {0} \cup 2..(K + 1)
      BY <2>1, <2>2, <3>1, ShiftIs
    <3>3. \A j \in 2..(K + 1) : j \in DOMAIN fs /\ j # 0
      BY <3>2
    <3> QED
      BY <2>2, <3>2, <3>3, ShiftIs
  <2>3. CASE fs = Renamed /\ x = 1
    <3>2. DOMAIN fs = {1} \cup 2..(K + 1)
      BY <2>1, <2>3, RenamedIs
    <3>3. \A j \in 2..(K + 1) : j \in DOMAIN fs \ {1}
      BY <3>2
    <3> QED
      BY <2>3, <3>2, <3>3, RenamedIs
  <2> QED
    BY <2>2, <2>3
<1>6. ASSUME NEW j \in DOMAIN fs
      PROVE  j \in 0..Rotated /\ From(j) \in 0..K /\ From(j) \in 0..k /\ From(j) <= j /\ fs[j] = files[From(j)] /\ st2[j] = st[From(j)]
  <2>1. CASE j = x
    BY <1>2, <1>5, <2>1
  <2>2. CASE j # x
    <3>1. j \in 2..(K + 1)
      BY <1>5, <2>2
    <3> QED
      BY <1>2, <1>5, <2>2, <3>1
  <2> QED
    BY <2>1, <2>2
<1>7. ASSUME NEW i \in DOMAIN fs, NEW j \in DOMAIN fs, i < j PROVE From(i) < From(j)
  BY <1>2, <1>5, <1>7
<1>8. x \in DOMAIN fs /\ st2[x] = st[0] /\ \A j \in 2..(K + 1) : j \in DOMAIN fs /\ st2[j] = st[j - 1]
  <2>1. From(x) = 0 /\ \A j \in 2..(K + 1) : From(j) = j - 1
    BY <1>2
  <2> QED
    BY <1>5, <1>6, <2>1
<1>9. DOMAIN st2 = DOMAIN fs
  OBVIOUS
<1> HIDE DEF From, st2, K
<1>10. Held(fs, st2, logged)
  <2>1. ASSUME NEW j \in DOMAIN fs
        PROVE  st2[j] \in Nat /\ st2[j] + Len(fs[j]) <= Len(logged) /\ \A n \in 1..Len(fs[j]) : fs[j][n] = logged[st2[j] + n]
    BY <1>1, <1>6 DEF Held
  <2>2. ASSUME NEW i \in DOMAIN fs, NEW j \in DOMAIN fs, i < j PROVE st2[j] + Len(fs[j]) <= st2[i]
    BY <1>1, <1>6, <1>7, <2>2, SMTT(30) DEF Held
  <2> QED
    BY <1>9, <2>1, <2>2 DEF Held
<1>11. Newer(st, st2, logged)
  <2> SUFFICES ASSUME NEW j \in DOMAIN st2 PROVE \E m \in DOMAIN st : m <= j /\ st[m] <= st2[j]
    BY DEF Newer
  <2>1. From(j) \in DOMAIN st /\ From(j) <= j /\ st2[j] = st[From(j)] /\ st[From(j)] \in Nat
    BY <1>1, <1>3, <1>6, <1>9 DEF Held
  <2> QED
    BY <2>1
<1> DEFINE before == [i \in 0..(Rotated + 1) |->
                        IF i = 0 THEN Len(logged)
                        ELSE IF i = 1 THEN (IF x = 0 THEN st[0] ELSE Len(logged))
                        ELSE IF i - 2 <= K THEN st[i - 2] ELSE st[K]]
<1>12. before \in [0..(Rotated + 1) -> 0..Len(logged)]
  <2>1. ASSUME NEW i \in 0..k PROVE st[i] \in 0..Len(logged)
    <3>1. st[i] \in Nat /\ Len(files[i]) \in Nat /\ st[i] + Len(files[i]) <= Len(logged)
      BY <1>3
    <3> QED
      BY <1>4, <3>1
  <2>2. \A i \in 0..(Rotated + 1) : i # 0 /\ i # 1 /\ i - 2 <= K => i - 2 \in 0..k
    BY <1>2
  <2> QED
    BY <1>2, <1>4, <2>1, <2>2
<1>13. /\ before[0] = Len(logged) /\ before[1] = IF x = 0 THEN st[0] ELSE Len(logged)
       /\ \A i \in 2..(K + 2) : before[i] = st[i - 2]
       /\ \A i \in (K + 2)..(Rotated + 1) : before[i] = st[K]
  BY <1>2
<1> HIDE DEF before
<1>14. ASSUME NEW i \in 0..Rotated
       PROVE  IF i \in DOMAIN fs
              THEN before[i + 1] = st2[i] /\ before[i] = st2[i] + Len(fs[i])
              ELSE before[i] = before[i + 1]
  <2>0. before[2] = st[0]
    <3>1. 2 \in 2..(K + 2) /\ 2 - 2 = 0
      BY <1>2
    <3> QED
      BY <1>13, <3>1
  <2>1. CASE i = 0
    BY <1>4, <1>5, <1>8, <1>13, <2>1
  <2>2. CASE i = 1
    BY <1>4, <1>5, <1>8, <1>13, <2>0, <2>2
  <2>3. CASE i \in 2..(K + 1)
    <3>1. i + 1 \in 2..(K + 2) /\ (i + 1) - 2 = i - 1 /\ i \in 2..(K + 2) /\ i - 1 \in 1..k /\ (i - 1) - 1 = i - 2
      BY <1>2, <2>3
    <3>2. before[i + 1] = st[i - 1] /\ before[i] = st[i - 2]
      BY <1>13, <3>1
    <3>3. Len(files[i - 1]) = MaxSize /\ st[i - 1] + MaxSize = st[i - 2]
      BY <1>1, <3>1
    <3> QED
      BY <1>5, <1>8, <2>3, <3>2, <3>3
  <2>4. CASE i # 0 /\ i # 1 /\ i > K + 1
    <3>1. i \in (K + 2)..(Rotated + 1) /\ i + 1 \in (K + 2)..(Rotated + 1) /\ i \notin DOMAIN fs
      BY <1>2, <1>5, <2>4
    <3> QED
      BY <1>13, <3>1
  <2> QED
    BY <1>2, <2>1, <2>2, <2>3, <2>4
<1>15. before[Rotated + 1] = 0 \/ (MaxSize > 0 /\ Len(logged) - before[Rotated + 1] >= Rotated * MaxSize)
  <2>1. before[Rotated + 1] = st[K]
    BY <1>2, <1>13
  <2>2. CASE k < Rotated
    BY <1>1, <1>2, <2>1, <2>2
  <2>3. CASE ~(k < Rotated)
    <3>1. k \in 1..k /\ K = k - 1 /\ k \in 0..k
      BY <1>2, <2>3
    <3>2. st[k] + MaxSize = st[K] /\ st[k] \in Nat
      BY <1>1, <1>3, <3>1
    <3>3. Len(logged) - st[K] = st[0] - st[k]
      BY <1>4, <3>2
    <3>4. st[0] - st[k] = Rotated * MaxSize
      BY <1>1, <1>2, <2>3
    <3>5. Rotated * MaxSize \in Int
      BY <1>2, <1>4
    <3> QED
      BY <1>4, <2>1, <3>3, <3>4, <3>5
  <2> QED
    BY <2>2, <2>3
<1>16. Older(before, fs, st2, logged)
  BY <1>12, <1>13, <1>14, <1>15 DEF Older
<1>17. LogFilesOf(fs)
  BY ShiftFiles
<1>18. Suffix(fs, logged)
  BY <1>10, <1>16, <1>17, HeldSuffix DEF LogType
<1> QED
  BY <1>10, <1>11, <1>18

-----------------------------------------------------------------------------
(* A reader, and what the log does meanwhile *)

\* Logging does not put what is new before what a reader has.
LEMMA ReadsOnKept ==
  ASSUME NEW log \in Seq(Entry), NEW log2, log2 = log \/ \E e \in Entry : log2 = Append(log, e),
         NEW fs, NEW fs2, NEW st, NEW st2, DOMAIN st = DOMAIN fs, DOMAIN st2 = DOMAIN fs2,
         \A i \in DOMAIN st : i \in Nat /\ st[i] \in Nat, \A i \in DOMAIN st2 : i \in Nat /\ st2[i] \in Nat,
         Newer(st, st2, log), NEW rd \in Reading, ReadsOn(rd, fs, st, log)
  PROVE  ReadsOn(rd, fs2, st2, log2)
<1>1. PICK at : /\ Embeds(at, rd.got, log)
                /\ rd.step = "reading" =>
                     \A i \in DOMAIN rd.got : \A k \in DOMAIN fs : \A j \in rd.todo : k <= j => at[i] <= st[k]
  BY DEF ReadsOn
<1>2. DOMAIN log = 1..Len(log) /\ Len(log) \in Nat
  BY LenProperties
<1>3. DOMAIN log \subseteq DOMAIN log2 /\ \A i \in DOMAIN log : log2[i] = log[i]
  <2>1. CASE log2 = log
    BY <2>1
  <2>2. ASSUME NEW e \in Entry, log2 = Append(log, e)
        PROVE  DOMAIN log \subseteq DOMAIN log2 /\ \A i \in DOMAIN log : log2[i] = log[i]
    <3>1. DOMAIN Append(log, e) = 1..(Len(log) + 1) /\ \A i \in 1..Len(log) : Append(log, e)[i] = log[i]
      BY AppendSeq
    <3>2. 1..Len(log) \subseteq 1..(Len(log) + 1)
      BY <1>2
    <3>3. DOMAIN log \subseteq DOMAIN log2
      BY <1>2, <2>2, <3>1, <3>2
    <3>4. \A i \in DOMAIN log : log2[i] = log[i]
      BY <1>2, <2>2, <3>1
    <3> QED
      BY <3>3, <3>4
  <2> QED
    BY <2>1, <2>2
<1>4. Embeds(at, rd.got, log2)
  BY <1>1, <1>3 DEF Embeds
<1>5. ASSUME rd.step = "reading", NEW i \in DOMAIN rd.got, NEW k \in DOMAIN fs2, NEW j \in rd.todo, k <= j
      PROVE  at[i] <= st2[k]
  <2>1. at[i] \in 1..Len(log) /\ j \in Nat /\ k \in Nat /\ st2[k] \in Nat
    BY <1>1, <1>2 DEF Embeds, Reading
  <2>2. CASE st2[k] = Len(log)
    BY <2>1, <2>2
  <2>3. ASSUME NEW m \in DOMAIN st, m <= k, st[m] <= st2[k] PROVE at[i] <= st2[k]
    <3>1. m \in Nat /\ st[m] \in Nat
      OBVIOUS
    <3>2. m <= j
      BY <1>5, <2>1, <2>3, <3>1
    <3>3. at[i] <= st[m]
      BY <1>1, <1>5, <3>2
    <3> QED
      BY <2>1, <2>3, <3>1, <3>3
  <2> QED
    BY <2>2, <2>3 DEF Newer
<1> QED
  BY <1>4, <1>5 DEF ReadsOn

\* A reader takes a file.
LEMMA FileRead ==
  ASSUME NEW fs, LogFilesOf(fs), NEW log \in Seq(Entry), NEW st, Held(fs, st, log),
         NEW rd \in Reading, rd.step = "reading", ReadsOn(rd, fs, st, log),
         NEW i \in rd.todo, \A j \in rd.todo : j <= i, i \in DOMAIN fs, NEW n \in 0..Len(fs[i])
  PROVE  ReadsOn([rd EXCEPT !.todo = @ \ {i}, !.got = @ \o SubSeq(fs[i], 1, n)], fs, st, log)
<1> DEFINE part == SubSeq(fs[i], 1, n)
           rd2 == [rd EXCEPT !.todo = @ \ {i}, !.got = @ \o part]
<1>1. PICK at : /\ Embeds(at, rd.got, log)
                /\ \A x \in DOMAIN rd.got : \A k \in DOMAIN fs : \A j \in rd.todo : k <= j => at[x] <= st[k]
  BY DEF ReadsOn
<1>2. fs[i] \in Seq(Entry) /\ rd.got \in Seq(Entry) /\ Len(fs[i]) \in Nat /\ n \in Nat /\ n <= Len(fs[i])
      /\ Len(log) \in Nat /\ DOMAIN log = 1..Len(log)
  BY LenProperties DEF LogFilesOf, Reading
<1>3. part \in Seq(Entry) /\ Len(part) = n /\ \A x \in 1..n : part[x] = fs[i][x]
  <2>1. 1 \in 1..(Len(fs[i]) + 1) /\ n \in (1 - 1)..Len(fs[i]) /\ n - 1 + 1 = n
        /\ \A x \in 1..n : 1 + x - 1 = x
    BY <1>2
  <2> QED
    BY <1>2, <2>1, SubSeqSeq
<1>4. rd2.got = rd.got \o part /\ rd2.todo = rd.todo \ {i} /\ rd2.step = rd.step
  BY DEF Reading
<1> HIDE DEF part, rd2
<1>5. /\ DOMAIN rd2.got = 1..(Len(rd.got) + n) /\ DOMAIN rd.got = 1..Len(rd.got) /\ Len(rd.got) \in Nat
      /\ \A x \in 1..Len(rd.got) : rd2.got[x] = rd.got[x]
      /\ \A x \in 1..n : rd2.got[Len(rd.got) + x] = part[x]
  <2> DEFINE had == rd.got
  <2>1. had \in Seq(Entry) /\ rd2.got = had \o part
    BY <1>2, <1>4
  <2> HIDE DEF had
  <2>2. /\ had \o part \in Seq(Entry) /\ Len(had \o part) = Len(had) + Len(part) /\ Len(had) \in Nat /\ Len(part) \in Nat
        /\ DOMAIN (had \o part) = 1..(Len(had) + Len(part)) /\ DOMAIN had = 1..Len(had) /\ DOMAIN part = 1..Len(part)
        /\ \A x \in 1..Len(had) : (had \o part)[x] = had[x]
        /\ \A x \in 1..Len(part) : (had \o part)[Len(had) + x] = part[x]
    <3>1. part \in Seq(Entry)
      BY <1>3
    <3>2. had \in Seq(Entry)
      BY <2>1
    <3> QED
      BY <3>1, <3>2, ConcatSeq
  <2> QED
    BY <1>3, <2>1, <2>2 DEF had
<1> DEFINE at2 == [x \in 1..(Len(rd.got) + n) |-> IF x <= Len(rd.got) THEN at[x] ELSE st[i] + (x - Len(rd.got))]
<1>6. /\ st[i] \in Nat /\ st[i] + Len(fs[i]) <= Len(log)
      /\ \A x \in 1..Len(fs[i]) : fs[i][x] = log[st[i] + x]
  BY DEF Held
<1>7. ASSUME NEW x \in 1..(Len(rd.got) + n)
      PROVE  \/ x \in 1..Len(rd.got) /\ at2[x] = at[x] /\ at[x] \in 1..Len(log) /\ at[x] <= st[i]
             \/ x - Len(rd.got) \in 1..n /\ at2[x] = st[i] + (x - Len(rd.got)) /\ x > Len(rd.got)
  <2>1. CASE x <= Len(rd.got)
    <3>1. x \in DOMAIN rd.got /\ at2[x] = at[x] /\ i <= i
      BY <1>5, <2>1
    <3>2. at[x] \in 1..Len(log) /\ at[x] <= st[i]
      BY <1>1, <1>2, <3>1 DEF Embeds
    <3> QED
      BY <1>5, <3>1, <3>2
  <2>2. CASE ~(x <= Len(rd.got))
    BY <1>2, <1>5, <2>2
  <2> QED
    BY <2>1, <2>2
<1> HIDE DEF at2
<1>8. DOMAIN at2 = 1..(Len(rd.got) + n)
  BY DEF at2
<1>9. ASSUME NEW x \in 1..(Len(rd.got) + n)
      PROVE  at2[x] \in 1..Len(log) /\ at2[x] <= st[i] + Len(fs[i]) /\ log[at2[x]] = rd2.got[x]
  <2>1. CASE x \in 1..Len(rd.got) /\ at2[x] = at[x] /\ at[x] \in 1..Len(log) /\ at[x] <= st[i]
    <3>1. log[at[x]] = rd.got[x] /\ rd2.got[x] = rd.got[x]
      BY <1>1, <1>5, <2>1 DEF Embeds
    <3> QED
      BY <1>2, <1>6, <2>1, <3>1
  <2>2. CASE x - Len(rd.got) \in 1..n /\ at2[x] = st[i] + (x - Len(rd.got)) /\ x > Len(rd.got)
    <3> DEFINE y == x - Len(rd.got)
    <3>1. y \in 1..n /\ y \in 1..Len(fs[i]) /\ Len(rd.got) + y = x /\ at2[x] = st[i] + y
      BY <1>2, <1>5, <2>2
    <3> HIDE DEF y
    <3>2. rd2.got[x] = fs[i][y] /\ fs[i][y] = log[st[i] + y]
      BY <1>3, <1>5, <1>6, <3>1
    <3> QED
      BY <1>2, <1>6, <3>1, <3>2
  <2> QED
    BY <1>7, <2>1, <2>2
<1>10. ASSUME NEW x \in 1..(Len(rd.got) + n), NEW y \in 1..(Len(rd.got) + n), x < y
       PROVE  at2[x] < at2[y]
  <2>1. CASE y <= Len(rd.got)
    <3>1. x \in DOMAIN rd.got /\ y \in DOMAIN rd.got /\ at2[x] = at[x] /\ at2[y] = at[y]
      BY <1>5, <1>7, <1>10, <2>1
    <3> QED
      BY <1>1, <1>10, <3>1 DEF Embeds
  <2>2. CASE ~(y <= Len(rd.got))
    <3>1. y - Len(rd.got) \in 1..n /\ at2[y] = st[i] + (y - Len(rd.got))
      BY <1>5, <1>7, <2>2
    <3>2. \/ at2[x] \in Nat /\ at2[x] <= st[i]
          \/ x - Len(rd.got) \in 1..n /\ at2[x] = st[i] + (x - Len(rd.got))
      BY <1>7
    <3> DEFINE l == Len(rd.got)
               b == st[i]
    <3>3. l \in Nat /\ n \in Nat /\ b \in Nat /\ x \in Nat /\ y \in Nat
      BY <1>2, <1>5, <1>6
    <3>4. y - l \in 1..n /\ at2[y] = b + (y - l)
      BY <3>1
    <3>5. (at2[x] \in Nat /\ at2[x] <= b) \/ (x - l \in 1..n /\ at2[x] = b + (x - l))
      BY <3>2
    <3> HIDE DEF l, b
    <3> QED
      BY <1>10, <3>3, <3>4, <3>5
  <2> QED
    BY <2>1, <2>2
<1>11. Embeds(at2, rd2.got, log)
  <2>1. at2 \in [DOMAIN rd2.got -> DOMAIN log]
    <3>1. at2 = [x \in 1..(Len(rd.got) + n) |-> at2[x]]
      BY DEF at2
    <3> QED
      BY <1>2, <1>5, <1>9, <3>1
  <2> QED
    BY <1>5, <1>9, <1>10, <2>1 DEF Embeds
<1>12. ASSUME NEW x \in DOMAIN rd2.got, NEW k \in DOMAIN fs, NEW j \in rd2.todo, k <= j PROVE at2[x] <= st[k]
  <2>1. j < i /\ k < i /\ j \in Nat /\ i \in Nat /\ k \in Nat
    <3>1. j \in rd.todo /\ j # i /\ j <= i /\ j \in Nat /\ i \in Nat
      BY <1>4 DEF Reading
    <3>2. k \in Nat
      BY RotatedPos DEF LogFilesOf
    <3> QED
      BY <1>12, <3>1, <3>2
  <2>2. st[i] + Len(fs[i]) <= st[k] /\ st[k] \in Nat
    BY <2>1 DEF Held
  <2>3. at2[x] <= st[i] + Len(fs[i]) /\ at2[x] \in 1..Len(log)
    BY <1>5, <1>9
  <2> QED
    BY <1>2, <1>6, <2>2, <2>3
<1>13. ReadsOn(rd2, fs, st, log)
  BY <1>11, <1>12 DEF ReadsOn
<1> QED
  BY <1>13 DEF rd2, part

LEMMA LastOfSeq ==
  ASSUME NEW S, NEW q \in Seq(S), NEW n \in Nat \cup {-1}
  PROVE  /\ LastOf(q, n) \in Seq(S) /\ (n < 0 => LastOf(q, n) = q)
         /\ \E d \in Nat : Len(LastOf(q, n)) + d = Len(q) /\ \A i \in 1..Len(LastOf(q, n)) : LastOf(q, n)[i] = q[d + i]
<1>1. Len(q) \in Nat
  BY LenProperties
<1>2. CASE n >= 0 /\ Len(q) > n
  <2> DEFINE d == Len(q) - n
             p == SubSeq(q, Len(q) - n + 1, Len(q))
  <2>1. Len(q) - n + 1 \in 1..(Len(q) + 1) /\ Len(q) \in ((Len(q) - n + 1) - 1)..Len(q) /\ d \in Nat
    BY <1>1, <1>2
  <2>2. p \in Seq(S) /\ Len(p) = Len(q) - (Len(q) - n + 1) + 1
        /\ \A i \in 1..(Len(q) - (Len(q) - n + 1) + 1) : p[i] = q[(Len(q) - n + 1) + i - 1]
    BY <2>1, SubSeqSeq, Zenon
  <2>3. Len(q) - (Len(q) - n + 1) + 1 = n /\ n + d = Len(q) /\ \A i \in 1..n : (Len(q) - n + 1) + i - 1 = d + i
    BY <1>1, <1>2
  <2>4. LastOf(q, n) = p /\ ~(n < 0)
    BY <1>2 DEF LastOf
  <2> HIDE DEF d, p
  <2>5. Len(p) = n /\ \A i \in 1..n : p[i] = q[d + i]
    BY <2>2, <2>3
  <2> QED
    BY <2>1, <2>2, <2>3, <2>4, <2>5
<1>3. CASE ~(n >= 0 /\ Len(q) > n)
  <2>1. LastOf(q, n) = q
    BY <1>3 DEF LastOf
  <2>2. Len(q) + 0 = Len(q) /\ \A i \in 1..Len(q) : q[i] = q[0 + i]
    BY <1>1
  <2> QED
    BY <2>1, <2>2
<1> QED
  BY <1>2, <1>3

\* A reader gives back the end of what it has.
LEMMA EndRead ==
  ASSUME NEW fs, NEW log \in Seq(Entry), NEW st, NEW rd \in Reading, ReadsOn(rd, fs, st, log),
         NEW n \in Nat \cup {-1}, NEW rd2, rd2.got = LastOf(rd.got, n), rd2.step # "reading"
  PROVE  ReadsOn(rd2, fs, st, log)
<1>1. PICK at : Embeds(at, rd.got, log)
  BY DEF ReadsOn
<1> DEFINE p == rd.got
           q == LastOf(rd.got, n)
<1>2. p \in Seq(Entry) /\ Embeds(at, p, log)
  BY <1>1 DEF Reading
<1> HIDE DEF p
<1>3. q \in Seq(Entry) /\ \E d \in Nat : Len(q) + d = Len(p) /\ \A i \in 1..Len(q) : q[i] = p[d + i]
  BY <1>2, LastOfSeq DEF p
<1>4. rd2.got = q
  OBVIOUS
<1> HIDE DEF q
<1>5. PICK d \in Nat : Len(q) + d = Len(p) /\ \A i \in 1..Len(q) : q[i] = p[d + i]
  BY <1>3
<1>6. DOMAIN q = 1..Len(q) /\ DOMAIN p = 1..Len(p) /\ Len(q) \in Nat /\ Len(p) \in Nat
  BY <1>2, <1>3, LenProperties
<1> DEFINE at2 == [i \in 1..Len(q) |-> at[d + i]]
<1>7. ASSUME NEW i \in 1..Len(q)
      PROVE  d + i \in DOMAIN p /\ at2[i] = at[d + i] /\ at[d + i] \in DOMAIN log /\ log[at[d + i]] = q[i]
  <2>1. d + i \in DOMAIN p
    BY <1>5, <1>6
  <2> QED
    BY <1>2, <1>5, <2>1 DEF Embeds
<1>8. at2 \in [DOMAIN q -> DOMAIN log]
  BY <1>6, <1>7
<1> HIDE DEF at2
<1>9. ASSUME NEW i \in DOMAIN q, NEW j \in DOMAIN q, i < j PROVE at2[i] < at2[j]
  <2>1. i \in 1..Len(q) /\ j \in 1..Len(q) /\ d + i < d + j
    BY <1>6, <1>9
  <2>2. d + i \in DOMAIN p /\ d + j \in DOMAIN p /\ at2[i] = at[d + i] /\ at2[j] = at[d + j]
    BY <1>7, <2>1
  <2> QED
    BY <1>2, <2>1, <2>2 DEF Embeds
<1>10. Embeds(at2, q, log)
  BY <1>6, <1>7, <1>8, <1>9 DEF Embeds
<1> QED
  BY <1>4, <1>10 DEF ReadsOn

\* What a step of a reader makes of it, whichever it is
ReadsAs(rd, rd2) ==
  /\ rd2 \in Reading
  /\ \A st : Held(files, st, logged) /\ ReadsOn(rd, files, st, logged) => ReadsOn(rd2, files, st, logged)
  /\ Whole(rd, files, rotations) => Whole(rd2, files, rotations)

LEMMA StartReads ==
  ASSUME LogType, NEW r \in Readers, ReadStart(r)
  PROVE  \E rd2 : reader' = [reader EXCEPT ![r] = rd2] /\ ReadsAs(reader[r], rd2)
<1> DEFINE rd2 == [step |-> "reading", got |-> <<>>, had |-> Retained, since |-> rotations, todo |-> DOMAIN files \cup {0}]
<1>1. reader' = [reader EXCEPT ![r] = rd2]
  BY DEF ReadStart
<1>2. \A i \in DOMAIN files : i \in Nat /\ files[i] \in Seq(Entry) /\ DOMAIN files[i] = 1..Len(files[i])
  BY LenProperties, RotatedPos DEF LogType
<1>3. Retained \subseteq Entry
  <2> SUFFICES ASSUME NEW i \in DOMAIN files, NEW n \in DOMAIN files[i] PROVE files[i][n] \in Entry
    BY DEF Retained, ToSet
  <2> QED
    BY <1>2, ElementOfSeq
<1>4. rd2 \in Reading
  BY <1>2, <1>3, EmptySeq DEF Reading, LogType
<1>5. ASSUME NEW st, ReadsOn(reader[r], files, st, logged) PROVE ReadsOn(rd2, files, st, logged)
  <2>1. DOMAIN rd2.got = {} /\ rd2.step = "reading"
    BY EmptySeq
  <2> HIDE DEF rd2
  <2>2. Embeds([x \in {} |-> x], rd2.got, logged)
    BY <2>1 DEF Embeds
  <2> QED
    BY <2>1, <2>2 DEF ReadsOn
<1>6. Whole(rd2, files, rotations)
  <2>1. rd2.since <= rotations
    BY DEF LogType
  <2>2. ASSUME NEW e \in rd2.had PROVE StillThere(rd2, files, e)
    <3>1. PICK i \in DOMAIN files : e \in ToSet(files[i])
      BY <2>2 DEF Retained
    <3>2. PICK n \in DOMAIN files[i] : files[i][n] = e
      BY <3>1 DEF ToSet
    <3>3. n \in 1..Len(files[i]) /\ i \in rd2.todo \cap DOMAIN files
      BY <1>2, <3>2
    <3>4. ASSUME NEW m \in 1..n PROVE files[i][m] \in rd2.had
      <4>1. m \in DOMAIN files[i]
        BY <1>2, <3>3
      <4>2. files[i][m] \in ToSet(files[i])
        BY <4>1 DEF ToSet
      <4> QED
        BY <4>2 DEF Retained
    <3> QED
      BY <3>2, <3>3, <3>4 DEF StillThere
  <2> QED
    BY <2>1, <2>2 DEF Whole
<1> QED
  BY <1>1, <1>4, <1>5, <1>6 DEF ReadsAs

LEMMA FileReads ==
  ASSUME LogType, NEW r \in Readers, ReadFile(r)
  PROVE  \E rd2 : reader' = [reader EXCEPT ![r] = rd2] /\ ReadsAs(reader[r], rd2)
<1> DEFINE rd == reader[r]
<1>1. PICK i \in rd.todo :
        /\ Oldest(r, i)
        /\ IF i \notin DOMAIN files THEN reader' = [reader EXCEPT ![r] = Take(r, i)]
           ELSE \E n \in 0..Len(files[i]) :
                  /\ Scanned(files[i], n)
                  /\ reader' = [reader EXCEPT ![r] = [Take(r, i) EXCEPT !.got = @ \o SubSeq(files[i], 1, n)]]
  BY DEF ReadFile
<1>2. rd \in Reading /\ rd.step = "reading" /\ LogFilesOf(files) /\ \A j \in rd.todo : j <= i
  BY <1>1 DEF LogType, LogFilesOf, ReadFile, Oldest
<1>3. CASE i \notin DOMAIN files
  <2> DEFINE rd2 == [rd EXCEPT !.todo = @ \ {i}]
  <2>1. reader' = [reader EXCEPT ![r] = rd2]
    BY <1>1, <1>3 DEF Take
  <2>2. rd2 \in Reading /\ rd2.got = rd.got /\ rd2.step = rd.step /\ rd2.todo = rd.todo \ {i} /\ rd2.had = rd.had /\ rd2.since = rd.since
    BY <1>2 DEF Reading
  <2> HIDE DEF rd2, rd
  <2>3. ASSUME NEW st, ReadsOn(rd, files, st, logged) PROVE ReadsOn(rd2, files, st, logged)
    BY <2>2, <2>3 DEF ReadsOn
  <2>4. ASSUME NEW e, StillThere(rd, files, e) PROVE StillThere(rd2, files, e)
    BY <1>3, <2>2, <2>4 DEF StillThere
  <2>5. Whole(rd, files, rotations) => Whole(rd2, files, rotations)
    BY <2>2, <2>4 DEF Whole
  <2>6. ReadsAs(rd, rd2)
    BY <2>2, <2>3, <2>5 DEF ReadsAs
  <2> QED
    BY <2>1, <2>6 DEF rd
<1>4. ASSUME i \in DOMAIN files, NEW n \in 0..Len(files[i]), Scanned(files[i], n),
             reader' = [reader EXCEPT ![r] = [Take(r, i) EXCEPT !.got = @ \o SubSeq(files[i], 1, n)]]
      PROVE  \E rd2 : reader' = [reader EXCEPT ![r] = rd2] /\ ReadsAs(reader[r], rd2)
  <2> DEFINE part == SubSeq(files[i], 1, n)
             rd2 == [rd EXCEPT !.todo = @ \ {i}, !.got = @ \o part]
  <2>1. reader' = [reader EXCEPT ![r] = rd2]
    <3>1. [Take(r, i) EXCEPT !.got = @ \o part] = rd2
      BY <1>2 DEF Take, Reading
    <3> QED
      BY <1>4, <3>1
  <2>2. ASSUME NEW st, Held(files, st, logged), ReadsOn(rd, files, st, logged) PROVE ReadsOn(rd2, files, st, logged)
    BY <1>2, <1>4, <2>2, FileRead DEF LogType
  <2>3. files[i] \in Seq(Entry) /\ Len(files[i]) \in Nat /\ n \in Nat /\ n <= Len(files[i])
    BY <1>2, <1>4, LenProperties DEF LogFilesOf
  <2>4. part \in Seq(Entry) /\ Len(part) = n /\ \A x \in 1..n : part[x] = files[i][x]
    <3>1. 1 \in 1..(Len(files[i]) + 1) /\ n \in (1 - 1)..Len(files[i]) /\ n - 1 + 1 = n /\ \A x \in 1..n : 1 + x - 1 = x
      BY <2>3
    <3> QED
      BY <2>3, <3>1, SubSeqSeq
  <2>5. rd2 = [rd EXCEPT !.todo = @ \ {i}, !.got = rd.got \o part]
    BY <1>2 DEF Reading
  <2> DEFINE was == rd.got
  <2>6. was \in Seq(Entry)
    BY <1>2 DEF Reading
  <2> HIDE DEF part, rd2, was
  <2>7. /\ was \o part \in Seq(Entry) /\ Len(was \o part) = Len(was) + Len(part) /\ Len(was) \in Nat /\ Len(part) \in Nat
        /\ DOMAIN (was \o part) = 1..(Len(was) + Len(part)) /\ DOMAIN was = 1..Len(was) /\ DOMAIN part = 1..Len(part)
        /\ \A x \in 1..Len(was) : (was \o part)[x] = was[x]
        /\ \A x \in 1..Len(part) : (was \o part)[Len(was) + x] = part[x]
    <3>1. part \in Seq(Entry)
      BY <2>4
    <3> QED
      BY <2>6, <3>1, ConcatSeq
  <2>8. rd2 = [rd EXCEPT !.todo = @ \ {i}, !.got = was \o part]
    BY <2>5 DEF was
  <2>9. rd2 \in Reading /\ rd2.got = was \o part /\ rd2.step = rd.step /\ rd2.todo = rd.todo \ {i} /\ rd2.had = rd.had /\ rd2.since = rd.since
    BY <1>2, <2>7, <2>8 DEF Reading
  <2>10. ASSUME NEW e \in ToSet(rd.got) PROVE e \in ToSet(rd2.got)
    <3>1. PICK x \in DOMAIN was : was[x] = e
      BY DEF ToSet, was
    <3>2. x \in DOMAIN (was \o part) /\ (was \o part)[x] = e
      BY <2>4, <2>7, <3>1
    <3> QED
      BY <2>9, <3>2 DEF ToSet
  <2>11. ASSUME \A e \in rd.had : Len(e.line) <= MaxToken, NEW e, StillThere(rd, files, e)
         PROVE  e \in ToSet(rd2.got) \/ StillThere(rd2, files, e)
    <3>a. PICK j \in rd.todo \cap DOMAIN files :
            \E m \in 1..Len(files[j]) : files[j][m] = e /\ \A x \in 1..m : files[j][x] \in rd.had
      BY <2>11 DEF StillThere
    <3>1. PICK m \in 1..Len(files[j]) : files[j][m] = e /\ \A x \in 1..m : files[j][x] \in rd.had
      BY <3>a
    <3>2. CASE j # i
      BY <2>9, <3>1, <3>2 DEF StillThere
    <3>3. CASE j = i
      <4>1. m <= n
        <5>1. SUFFICES ASSUME ~(m <= n) PROVE FALSE
          OBVIOUS
        <5>2. n + 1 \in 1..m /\ n + 1 \in 1..Len(files[i]) /\ n < Len(files[i])
          BY <2>3, <3>1, <3>3, <5>1
        <5>3. Len(files[i][n + 1].line) > MaxToken
          BY <1>4, <5>2 DEF Scanned
        <5>4. Len(files[i][n + 1].line) <= MaxToken
          BY <2>11, <3>1, <3>3, <5>2
        <5>5. Len(files[i][n + 1].line) \in Nat
          <6>1. files[i][n + 1] \in Entry
            BY <2>3, <5>2, ElementOfSeq
          <6> QED
            BY <6>1, LenProperties DEF Entry
        <5> QED
          BY <5>3, <5>4, <5>5, LogConstants
      <4>2. m \in 1..Len(part) /\ part[m] = e
        BY <2>3, <2>4, <3>1, <3>3, <4>1
      <4>3. Len(was) + m \in DOMAIN (was \o part) /\ (was \o part)[Len(was) + m] = e
        BY <2>3, <2>4, <2>7, <4>2
      <4> QED
        BY <2>9, <4>3 DEF ToSet
    <3> QED
      BY <3>2, <3>3
  <2> HIDE DEF rd
  <2>12. Whole(rd, files, rotations) => Whole(rd2, files, rotations)
    BY <1>2, <2>9, <2>10, <2>11 DEF Whole
  <2>13. ReadsAs(rd, rd2)
    BY <2>2, <2>9, <2>12 DEF ReadsAs
  <2> QED
    BY <2>1, <2>13 DEF rd
<1> QED
  BY <1>1, <1>3, <1>4

LEMMA EndReads ==
  ASSUME LogType, NEW r \in Readers, ReadEnd(r)
  PROVE  \E rd2 : reader' = [reader EXCEPT ![r] = rd2] /\ ReadsAs(reader[r], rd2)
<1> DEFINE rd == reader[r]
<1>1. PICK tail \in Tails : reader' = [reader EXCEPT ![r].step = IF tail < 0 THEN "whole" ELSE "tail", ![r].got = LastOf(@, tail)]
  BY DEF ReadEnd
<1>2. tail \in Nat \cup {-1} /\ rd \in Reading /\ rd.step = "reading" /\ rd.todo = {} /\ logged \in Seq(Entry)
  BY LogConstants DEF ReadEnd, LogType
<1> DEFINE rd2 == [rd EXCEPT !.step = IF tail < 0 THEN "whole" ELSE "tail", !.got = LastOf(rd.got, tail)]
<1>3. reader' = [reader EXCEPT ![r] = rd2]
  BY <1>1, <1>2 DEF Reading, LogType
<1>4. LastOf(rd.got, tail) \in Seq(Entry) /\ (tail < 0 => LastOf(rd.got, tail) = rd.got)
  <2>1. rd.got \in Seq(Entry)
    BY <1>2 DEF Reading
  <2> QED
    BY <1>2, <2>1, LastOfSeq, Zenon
<1>5. rd2 \in Reading /\ rd2.got = LastOf(rd.got, tail) /\ rd2.step = (IF tail < 0 THEN "whole" ELSE "tail")
      /\ rd2.had = rd.had /\ rd2.since = rd.since
  BY <1>2, <1>4 DEF Reading
<1> HIDE DEF rd2, rd
<1>6. ASSUME NEW st, ReadsOn(rd, files, st, logged) PROVE ReadsOn(rd2, files, st, logged)
  BY <1>2, <1>5, <1>6, EndRead
<1>7. Whole(rd, files, rotations) => Whole(rd2, files, rotations)
  BY <1>2, <1>4, <1>5 DEF Whole, StillThere
<1>8. ReadsAs(rd, rd2)
  BY <1>5, <1>6, <1>7 DEF ReadsAs
<1> QED
  BY <1>3, <1>8 DEF rd

LEMMA ReaderStep ==
  ASSUME LogType, FilesInv, WholeInv, NEW r \in Readers, ReaderNext(r)
  PROVE  LogType' /\ FilesInv' /\ WholeInv'
<1>1. PICK rd2 : reader' = [reader EXCEPT ![r] = rd2] /\ ReadsAs(reader[r], rd2)
  BY StartReads, FileReads, EndReads DEF ReaderNext
<1>2. UNCHANGED driverVars
  BY DEF ReaderNext, ReadStart, ReadFile, ReadEnd
<1>3. rd2 \in Reading /\ reader'[r] = rd2 /\ \A q \in Readers \ {r} : reader'[q] = reader[q]
  BY <1>1 DEF ReadsAs, LogType
<1>4. LogType'
  BY <1>1, <1>2, <1>3 DEF LogType, driverVars
<1>5. PICK st : /\ Held(files, st, logged) /\ (driver = "open" => Tight(files, st, logged))
                /\ \A q \in Readers : ReadsOn(reader[q], files, st, logged)
  BY DEF FilesInv
<1>6. ASSUME NEW q \in Readers PROVE ReadsOn(reader'[q], files, st, logged)
  BY <1>1, <1>3, <1>5 DEF ReadsAs
<1>7. FilesInv'
  BY <1>2, <1>5, <1>6 DEF FilesInv, RetainedSuffix, driverVars
<1>8. WholeInv'
  BY <1>1, <1>2, <1>3 DEF WholeInv, ReadsAs, driverVars
<1> QED
  BY <1>4, <1>7, <1>8

LEMMA WholeKept ==
  ASSUME LogType, WholeInv, NEW e, Log(e)
  PROVE  WholeInv'
<1> SUFFICES ASSUME NEW r \in Readers PROVE Whole(reader[r], files', rotations')
  BY DEF Log, WholeInv
<1> DEFINE rd == reader[r]
<1>1. Whole(rd, files, rotations) /\ rd \in Reading /\ rotations \in Nat
  BY DEF WholeInv, LogType
<1> SUFFICES Whole(rd, files', rotations')
  OBVIOUS
<1> HIDE DEF rd
<1>2. CASE rotations' = rotations + 1
  BY <1>1, <1>2 DEF Whole, Reading
<1>3. CASE rotations' = rotations /\ files' = files
  BY <1>1, <1>3
<1>4. CASE rotations' = rotations /\ driver = "open" /\ files' = [files EXCEPT ![0] = Append(@, e)]
  <2>1. 0 \in DOMAIN files /\ files[0] \in Seq(Entry) /\ Len(files[0]) \in Nat
    BY <1>4, LenProperties DEF LogType
  <2>2. ASSUME NEW x, StillThere(rd, files, x) PROVE StillThere(rd, files', x)
    <3>1. PICK i \in rd.todo \cap DOMAIN files :
            \E n \in 1..Len(files[i]) : files[i][n] = x /\ \A m \in 1..n : files[i][m] \in rd.had
      BY <2>2 DEF StillThere
    <3>2. PICK n \in 1..Len(files[i]) : files[i][n] = x /\ \A m \in 1..n : files[i][m] \in rd.had
      BY <3>1
    <3>3. CASE i # 0
      BY <1>4, <3>1, <3>2, <3>3 DEF StillThere
    <3>4. CASE i = 0
      <4>1. files'[0] = Append(files[0], e) /\ Len(files'[0]) = Len(files[0]) + 1 /\ i \in DOMAIN files'
        BY <1>4, <2>1, <3>1, <3>4, AppendProperties
      <4>2. ASSUME NEW m \in 1..Len(files[0]) PROVE files'[0][m] = files[0][m] /\ m \in 1..Len(files'[0])
        BY <2>1, <4>1
      <4>3. n \in 1..Len(files'[0]) /\ \A m \in 1..n : m \in 1..Len(files[0])
        BY <2>1, <3>2, <3>4, <4>2
      <4>4. files'[0][n] = x /\ \A m \in 1..n : files'[0][m] \in rd.had
        BY <3>2, <3>4, <4>2, <4>3
      <4> QED
        BY <3>1, <3>4, <4>1, <4>3, <4>4 DEF StillThere
    <3> QED
      BY <3>3, <3>4
  <2> QED
    BY <1>1, <1>4, <2>2 DEF Whole
<1>5. \/ rotations' = rotations + 1
      \/ rotations' = rotations /\ files' = files
      \/ rotations' = rotations /\ driver = "open" /\ files' = [files EXCEPT ![0] = Append(@, e)]
  <2>1. CASE LogWritten(e)
    BY <2>1 DEF LogWritten, Ready
  <2>2. CASE LogFails(e)
    BY <2>2 DEF LogFails, Ready
  <2> QED
    BY <2>1, <2>2 DEF Log
<1> QED
  BY <1>2, <1>3, <1>4, <1>5

LEMMA FilesMoved ==
  ASSUME LogType, LogType', NEW st, Held(files, st, logged), \A r \in Readers : ReadsOn(reader[r], files, st, logged),
         NEW st2, Held(files', st2, logged'), Newer(st, st2, logged), Suffix(files', logged'),
         driver' = "open" => Tight(files', st2, logged'),
         UNCHANGED reader, logged' = logged \/ \E e \in Entry : logged' = Append(logged, e)
  PROVE  FilesInv'
<1>1. DOMAIN st = DOMAIN files /\ DOMAIN st2 = DOMAIN files'
  BY DEF Held
<1>2. \A i \in DOMAIN st : i \in Nat /\ st[i] \in Nat
  BY RotatedPos DEF Held, LogType
<1>3. \A i \in DOMAIN st2 : i \in Nat /\ st2[i] \in Nat
  BY RotatedPos DEF Held, LogType
<1>4. ASSUME NEW r \in Readers PROVE ReadsOn(reader[r], files', st2, logged')
  <2>1. reader[r] \in Reading /\ logged \in Seq(Entry) /\ ReadsOn(reader[r], files, st, logged)
    BY DEF LogType
  <2> QED
    BY <1>1, <1>2, <1>3, <2>1, ReadsOnKept
<1>5. RetainedSuffix'
  BY DEF Suffix, RetainedSuffix
<1> QED
  BY <1>4, <1>5 DEF FilesInv

LEMMA FilesKept ==
  ASSUME LogType, FilesInv, NEW e \in Entry, Log(e)
  PROVE  FilesInv'
<1>1. PICK st : /\ Held(files, st, logged) /\ (driver = "open" => Tight(files, st, logged))
                /\ \A r \in Readers : ReadsOn(reader[r], files, st, logged)
  BY DEF FilesInv
<1>2. LogType' /\ UNCHANGED reader /\ logged \in Seq(Entry)
  BY LogTypeKept DEF Log, LogType
<1>3. CASE LogWritten(e)
  <2>1. driver = "open" /\ driver' = "open" /\ files' = [Ready EXCEPT ![0] = Append(@, e)] /\ logged' = Append(logged, e)
    BY <1>3 DEF LogWritten
  <2>2. PICK st2 : Held(Ready, st2, logged) /\ Tight(Ready, st2, logged) /\ Newer(st, st2, logged)
    BY <1>1, <2>1, ReadyPlaced
  <2>3. Held(files', st2, logged') /\ Tight(files', st2, logged')
    BY <1>2, <2>1, <2>2, ReadyFiles, AppendPlaced
  <2>4. LogFilesOf(files') /\ 0 \in DOMAIN files' /\ logged' \in Seq(Entry)
    BY <1>2, <2>1 DEF LogType, LogFilesOf
  <2>5. Suffix(files', logged')
    BY <2>3, <2>4, TightSuffix
  <2> QED
    BY <1>1, <1>2, <2>1, <2>2, <2>3, <2>5, FilesMoved
<1>4. CASE LogFails(e) /\ driver = "open" /\ driver' = driver
  <2>1. files' = Ready /\ logged' = logged
    BY <1>4 DEF LogFails
  <2>2. PICK st2 : Held(Ready, st2, logged) /\ Tight(Ready, st2, logged) /\ Newer(st, st2, logged)
    BY <1>1, <1>4, ReadyPlaced
  <2>3. LogFilesOf(Ready) /\ 0 \in DOMAIN Ready
    BY <1>4, ReadyFiles
  <2>4. Suffix(Ready, logged)
    BY <1>2, <2>2, <2>3, TightSuffix
  <2> QED
    BY <1>1, <1>2, <1>4, <2>1, <2>2, <2>4, FilesMoved
<1>5. CASE LogFails(e) /\ driver = "open" /\ driver' = "broken"
  <2>1. Full /\ logged' = logged /\ (files' = Shift \/ files' = Renamed)
    BY <1>5 DEF LogFails
  <2>2. \E st2 : Held(files', st2, logged) /\ Newer(st, st2, logged) /\ Suffix(files', logged)
    <3>1. CASE files' = Shift
      BY <1>1, <1>5, <2>1, <3>1, BrokenPlaced
    <3>2. CASE files' = Renamed
      BY <1>1, <1>5, <2>1, <3>2, BrokenPlaced
    <3> QED
      BY <2>1, <3>1, <3>2
  <2>3. PICK st2 : Held(files', st2, logged) /\ Newer(st, st2, logged) /\ Suffix(files', logged)
    BY <2>2
  <2> QED
    BY <1>1, <1>2, <1>5, <2>1, <2>3, FilesMoved
<1>6. CASE LogFails(e) /\ driver # "open"
  <2>1. UNCHANGED <<files, driver, logged>>
    BY <1>6 DEF LogFails
  <2> QED
    BY <1>2, <2>1 DEF FilesInv, RetainedSuffix
<1> QED
  BY <1>3, <1>4, <1>5, <1>6 DEF Log, LogFails

-----------------------------------------------------------------------------
(* Types *)

LEMMA StreamsAre == Streams \subseteq Both /\ (tty => Streams = {"stdout"})
BY DEF Streams, Both

LEMMA OneIsSeq ==
  ASSUME NEW S, NEW x \in S
  PROVE  <<x>> \in Seq(S) /\ Len(<<x>>) = 1 /\ <<x>>[1] = x /\ <<x>> # <<>>
OBVIOUS

\* What a loop has for the clients
LEMMA DataIs ==
  ASSUME TypeInv, NEW s \in Streams, loop[s].at \in {"fan", "sending"}
  PROVE  Data(s) \in Seq(Piece) /\ Data(s) # <<>>
<1> DEFINE line == IF tty THEN <<Last(loop[s].line)>> ELSE loop[s].line
<1>1. loop[s].line \in Seq(Nat) /\ loop[s].line # <<>> /\ s \in Both
  BY StreamsAre DEF TypeInv, OutputType, LoopType, Loop, HasLine
<1>2. Len(loop[s].line) \in Nat \ {0} /\ \A i \in 1..Len(loop[s].line) : loop[s].line[i] \in Nat
  <2> DEFINE l == loop[s].line
  <2>1. l \in Seq(Nat) /\ l # <<>>
    BY <1>1
  <2> HIDE DEF l
  <2>2. Len(l) \in Nat \ {0} /\ \A i \in 1..Len(l) : l[i] \in Nat
    BY <2>1, EmptySeq, ElementOfSeq
  <2> QED
    BY <2>2 DEF l
<1>3. Last(loop[s].line) \in Nat
  BY <1>2 DEF Last
<1>4. line \in Seq(Nat) /\ line # <<>>
  BY <1>1, <1>3, OneIsSeq
<1> HIDE DEF line
<1>5. Len(line) \in Nat \ {0} /\ DOMAIN line = 1..Len(line) /\ \A i \in 1..Len(line) : line[i] \in Nat
  BY <1>4, EmptySeq, LenProperties, ElementOfSeq
<1>6. Data(s) = [i \in 1..Len(line) |-> [s |-> s, n |-> line[i]]]
  BY <1>5 DEF Data, line
<1>7. Data(s) \in [1..Len(line) -> Piece]
  BY <1>1, <1>5, <1>6 DEF Piece
<1>8. Data(s) \in Seq(Piece)
  BY <1>5, <1>7, SeqDef
<1>9. DOMAIN Data(s) = 1..Len(line) /\ 1 \in 1..Len(line)
  BY <1>5, <1>6
<1>10. Data(s) # <<>>
  <2>1. 1 \in DOMAIN Data(s)
    BY <1>9
  <2> QED
    BY <2>1, EmptySeq
<1> QED
  BY <1>8, <1>10

LEMMA RemoveAtSeq ==
  ASSUME NEW S, NEW q \in Seq(S), NEW i \in 1..Len(q)
  PROVE  /\ RemoveAt(q, i) \in Seq(S) /\ Len(RemoveAt(q, i)) = Len(q) - 1
         /\ \A j \in 1..(Len(q) - 1) : RemoveAt(q, i)[j] = IF j < i THEN q[j] ELSE q[j + 1]
<1>1. Len(q) \in Nat
  BY LenProperties
<1> DEFINE a == SubSeq(q, 1, i - 1)
           b == SubSeq(q, i + 1, Len(q))
<1>2. a \in Seq(S) /\ Len(a) = i - 1 /\ \A j \in 1..(i - 1) : a[j] = q[j]
  <2>1. 1 \in 1..(Len(q) + 1) /\ i - 1 \in (1 - 1)..Len(q) /\ (i - 1) - 1 + 1 = i - 1 /\ \A j \in 1..(i - 1) : 1 + j - 1 = j
    BY <1>1
  <2> QED
    BY <2>1, SubSeqSeq
<1>3. b \in Seq(S) /\ Len(b) = Len(q) - i /\ \A j \in 1..(Len(q) - i) : b[j] = q[i + j]
  <2>1. i + 1 \in 1..(Len(q) + 1) /\ Len(q) \in ((i + 1) - 1)..Len(q) /\ Len(q) - (i + 1) + 1 = Len(q) - i
        /\ \A j \in 1..(Len(q) - i) : (i + 1) + j - 1 = i + j
    BY <1>1
  <2>2. /\ b \in Seq(S) /\ Len(b) = Len(q) - (i + 1) + 1
        /\ \A j \in 1..(Len(q) - (i + 1) + 1) : b[j] = q[(i + 1) + j - 1]
    BY <2>1, SubSeqSeq, ZenonT(60)
  <2> QED
    BY <2>1, <2>2
<1>4. RemoveAt(q, i) = a \o b
  BY DEF RemoveAt
<1> HIDE DEF a, b
<1>5. /\ a \o b \in Seq(S) /\ Len(a \o b) = Len(a) + Len(b) /\ Len(a) \in Nat /\ Len(b) \in Nat
      /\ DOMAIN (a \o b) = 1..(Len(a) + Len(b)) /\ DOMAIN a = 1..Len(a) /\ DOMAIN b = 1..Len(b)
      /\ \A j \in 1..Len(a) : (a \o b)[j] = a[j]
      /\ \A j \in 1..Len(b) : (a \o b)[Len(a) + j] = b[j]
  <2>1. a \in Seq(S)
    BY <1>2
  <2>2. b \in Seq(S)
    BY <1>3
  <2> QED
    BY <2>1, <2>2, ConcatSeq
<1>6. ASSUME NEW j \in 1..(Len(q) - 1) PROVE (a \o b)[j] = IF j < i THEN q[j] ELSE q[j + 1]
  <2>1. CASE j < i
    BY <1>1, <1>2, <1>5, <2>1
  <2>2. CASE ~(j < i)
    <3> DEFINE m == j - i + 1
    <3>1. m \in 1..(Len(q) - i) /\ Len(a) + m = j /\ i + m = j + 1
      BY <1>1, <1>2, <2>2
    <3> HIDE DEF m
    <3> QED
      BY <1>3, <1>5, <2>2, <3>1
  <2> QED
    BY <2>1, <2>2
<1> QED
  BY <1>1, <1>2, <1>3, <1>4, <1>5, <1>6

LEMMA TypeInit == Init => TypeInv
<1> SUFFICES ASSUME Init PROVE TypeInv
  OBVIOUS
<1>1. LogType
  <2>1. files = [i \in {0} |-> <<>>] /\ reader = [r \in Readers |-> [step |-> "new", todo |-> {}, got |-> <<>>, had |-> {}, since |-> 0]]
        /\ driver = "open" /\ logged = <<>> /\ dropped = {} /\ rotations = 0
    BY DEF Init, LogInit
  <2>2. <<>> \in Seq(Entry)
    BY EmptySeq
  <2>3. reader \in [Readers -> Reading]
    BY <2>1, <2>2 DEF Reading
  <2>4. DOMAIN files \subseteq 0..Rotated /\ 0 \in DOMAIN files /\ \A i \in DOMAIN files : files[i] \in Seq(Entry)
    BY <2>1, <2>2, RotatedPos
  <2> QED
    BY <2>1, <2>2, <2>3, <2>4 DEF LogType
<1>2. LoopType
  <2>1. <<>> \in Seq(Nat) /\ <<>> \in Seq(Clients) /\ <<>> \in Seq(Written)
    BY EmptySeq
  <2>2. loop \in [Streams -> Loop]
    BY <2>1 DEF Init, Loop, LoopLabels
  <2> QED
    BY <2>1, <2>2 DEF Init, LoopType, tty
<1>3. FanType
  <2>1. <<>> \in Seq(Piece) /\ <<>> \in Seq(Clients)
    BY EmptySeq
  <2> QED
    BY <2>1 DEF Init, FanType
<1>4. HasLine /\ NoLine /\ HasTodo
  BY DEF Init, HasLine, NoLine, HasTodo
<1> QED
  BY <1>1, <1>2, <1>3, <1>4 DEF TypeInv, OutputType

\* A step of one loop that leaves setup alone
LEMMA LoopMoves ==
  ASSUME TypeInv, NEW s \in Streams, NEW l \in Loop, loop' = [loop EXCEPT ![s] = l], setup' = setup,
         l.at \in {"log", "fan", "sending"} => l.line # <<>>, l.at \in {"off", "gone"} => l.line = <<>>,
         l.at = "sending" => l.todo # <<>>
  PROVE  loop' \in [Streams' -> Loop] /\ HasLine' /\ NoLine' /\ HasTodo'
<1>1. Streams' = Streams /\ loop \in [Streams -> Loop]
  BY DEF Streams, tty, TypeInv, OutputType, LoopType
<1>2. loop' \in [Streams -> Loop] /\ loop'[s] = l /\ \A t \in Streams \ {s} : loop'[t] = loop[t]
  BY <1>1
<1>3. HasLine' /\ NoLine' /\ HasTodo'
  BY <1>1, <1>2 DEF TypeInv, HasLine, NoLine, HasTodo
<1> QED
  BY <1>1, <1>2, <1>3

LEMMA StartTypes ==
  ASSUME TypeInv, Created \/ Registered \/ StartFails \/ ProgramEnds \/ CloseStart \/ CloseEnd
  PROVE  TypeInv'
<1>1. setup' = setup /\ Streams' = Streams /\ UNCHANGED <<wrote, pipe>> /\ UNCHANGED fanVars
      /\ phase' \in {"create", "created", "up", "failed"} /\ alive' \in BOOLEAN /\ daemonEnds' \in BOOLEAN
      /\ closing' \in {"no", "waiting", "done"}
  BY DEF TypeInv, OutputType, LoopType, Created, Registered, StartFails, ProgramEnds, CloseStart, CloseEnd, Streams, tty, pipeVars
<1>2. LogType'
  <2>1. UNCHANGED <<files, reader, logged, dropped, rotations>> /\ driver' \in {driver, "closed"}
    BY DEF Created, Registered, StartFails, ProgramEnds, CloseStart, CloseEnd, logVars, driverVars
  <2> QED
    BY <2>1 DEF TypeInv, OutputType, LogType
<1>3. FanType'
  BY <1>1 DEF TypeInv, OutputType, FanType, fanVars
<1>4. loop' \in [Streams' -> Loop] /\ HasLine' /\ NoLine' /\ HasTodo'
  <2>1. CASE loop' = loop
    BY <1>1, <2>1 DEF TypeInv, OutputType, LoopType, HasLine, NoLine, HasTodo
  <2>2. CASE tty /\ loop' = [loop EXCEPT !["stdout"].at = "read"]
    <3>1. "stdout" \in Streams /\ loop["stdout"] \in Loop
      BY <2>2, StreamsAre DEF TypeInv, OutputType, LoopType
    <3> DEFINE l == [loop["stdout"] EXCEPT !.at = "read"]
    <3>2. l \in Loop /\ l.at = "read" /\ loop' = [loop EXCEPT !["stdout"] = l]
      BY <2>2, <3>1 DEF Loop, LoopLabels
    <3> QED
      BY <1>1, <3>1, <3>2, LoopMoves
  <2> QED
    BY <2>1, <2>2 DEF Created, Registered, StartFails, ProgramEnds, CloseStart, CloseEnd
<1>5. LoopType'
  BY <1>1, <1>4 DEF TypeInv, OutputType, LoopType
<1> QED
  BY <1>2, <1>3, <1>4, <1>5 DEF TypeInv, OutputType

LEMMA ProgramTypes ==
  ASSUME TypeInv, NEW s \in Streams, ProgramWrites(s)
  PROVE  TypeInv'
<1>1. PICK eol \in BOOLEAN : pipe' = [pipe EXCEPT ![s] = Append(@, [n |-> wrote[s] + 1, eol |-> eol])]
  BY DEF ProgramWrites
<1>2. wrote' = [wrote EXCEPT ![s] = @ + 1] /\ UNCHANGED <<logVars, outVars, loop, fanVars>> /\ Streams' = Streams
  BY DEF ProgramWrites, outVars, Streams, tty
<1>3. pipe \in [Streams -> Seq(Written)] /\ wrote \in [Streams -> Nat]
  BY DEF TypeInv, OutputType, LoopType
<1>4. Append(pipe[s], [n |-> wrote[s] + 1, eol |-> eol]) \in Seq(Written)
  <2>1. [n |-> wrote[s] + 1, eol |-> eol] \in Written /\ pipe[s] \in Seq(Written)
    BY <1>3 DEF Written
  <2> QED
    BY <2>1, AppendProperties
<1>5. pipe' \in [Streams -> Seq(Written)] /\ wrote' \in [Streams -> Nat]
  BY <1>1, <1>2, <1>3, <1>4
<1>6. LogType' /\ FanType' /\ HasLine' /\ NoLine' /\ HasTodo'
  BY <1>2 DEF TypeInv, OutputType, LogType, FanType, HasLine, NoLine, HasTodo, logVars, driverVars, fanVars
<1>7. LoopType'
  BY <1>2, <1>5 DEF TypeInv, OutputType, LoopType, outVars
<1> QED
  BY <1>6, <1>7 DEF TypeInv, OutputType

LEMMA ReadTypes ==
  ASSUME TypeInv, NEW s \in Streams, Read(s) \/ ReadError(s)
  PROVE  TypeInv'
<1>1. UNCHANGED <<logVars, outVars, wrote, fanVars>> /\ setup' = setup /\ Streams' = Streams
  BY DEF Read, ReadError, outVars, pipeVars, Streams, tty
<1>2. loop[s] \in Loop /\ pipe[s] \in Seq(Written) /\ pipe \in [Streams -> Seq(Written)] /\ loop \in [Streams -> Loop]
  BY DEF TypeInv, OutputType, LoopType
<1>3. pipe' \in [Streams -> Seq(Written)] /\ loop' \in [Streams' -> Loop] /\ HasLine' /\ NoLine' /\ HasTodo'
  <2>1. CASE Read(s)
    <3> DEFINE p == Head(pipe[s])
               l == [loop[s] EXCEPT !.line = Append(@, p.n), !.eol = p.eol,
                                    !.at = IF tty THEN "fan" ELSE IF p.eol THEN "log" ELSE "read"]
    <3>1. loop' = [loop EXCEPT ![s] = l] /\ pipe' = [pipe EXCEPT ![s] = Tail(@)] /\ pipe[s] # <<>>
      BY <2>1 DEF Read
    <3>2. p \in Written /\ Tail(pipe[s]) \in Seq(Written)
      BY <1>2, <3>1, TailSeq
    <3>3. loop[s].line \in Seq(Nat)
      BY <1>2 DEF Loop
    <3>4. Append(loop[s].line, p.n) \in Seq(Nat) /\ Append(loop[s].line, p.n) # <<>>
      <4>1. p.n \in Nat
        BY <3>2 DEF Written
      <4> HIDE DEF p
      <4> QED
        BY <3>3, <4>1, AppendProperties, ZenonT(30)
    <3>5. l \in Loop /\ l.at \in {"fan", "log", "read"} /\ l.line # <<>>
      BY <1>2, <3>2, <3>4 DEF Loop, LoopLabels, Written
    <3> HIDE DEF l, p
    <3>6. loop' \in [Streams' -> Loop] /\ HasLine' /\ NoLine' /\ HasTodo'
      BY <1>1, <3>1, <3>5, LoopMoves
    <3> QED
      BY <1>2, <3>1, <3>2, <3>6
  <2>2. CASE ReadError(s)
    <3> DEFINE l == [loop[s] EXCEPT !.end = TRUE, !.at = IF loop[s].line = <<>> THEN "gone" ELSE "log"]
    <3>1. loop' = [loop EXCEPT ![s] = l] /\ pipe' = pipe
      BY <2>2 DEF ReadError, pipeVars
    <3>2. l \in Loop /\ l.at \in {"gone", "log"} /\ l.line = loop[s].line /\ (l.at = "gone" <=> l.line = <<>>)
      BY <1>2 DEF Loop, LoopLabels
    <3> HIDE DEF l
    <3>3. loop' \in [Streams' -> Loop] /\ HasLine' /\ NoLine' /\ HasTodo'
      BY <1>1, <3>1, <3>2, LoopMoves
    <3> QED
      BY <1>2, <3>1, <3>3
  <2> QED
    BY <2>1, <2>2
<1>4. LogType' /\ FanType'
  BY <1>1 DEF TypeInv, OutputType, LogType, FanType, logVars, driverVars, fanVars
<1>5. LoopType'
  BY <1>1, <1>3 DEF TypeInv, OutputType, LoopType, outVars
<1> QED
  BY <1>3, <1>4, <1>5 DEF TypeInv, OutputType

LEMMA LogLineTypes ==
  ASSUME TypeInv, NEW s \in Streams, LogLine(s)
  PROVE  TypeInv' /\ [s |-> s, line |-> loop[s].line] \in Entry
<1>1. UNCHANGED <<outVars, pipeVars, fanVars>> /\ setup' = setup /\ Streams' = Streams /\ Log([s |-> s, line |-> loop[s].line])
  BY DEF LogLine, outVars, Streams, tty
<1>2. loop[s] \in Loop /\ loop[s].at = "log" /\ loop[s].line # <<>> /\ s \in Both
  BY StreamsAre DEF TypeInv, OutputType, LoopType, HasLine, LogLine
<1>3. [s |-> s, line |-> loop[s].line] \in Entry
  BY <1>2 DEF Entry, Loop
<1>4. LogType'
  BY <1>1, <1>3, LogTypeKept DEF TypeInv, OutputType
<1> DEFINE l == IF tty THEN LineDone(loop[s]) ELSE ToFan(loop[s])
<1>5. loop' = [loop EXCEPT ![s] = l]
  BY DEF LogLine
<1>6. l \in Loop /\ (l.at \in {"log", "fan", "sending"} => l.line # <<>>) /\ (l.at \in {"off", "gone"} => l.line = <<>>) /\ l.at # "sending"
  <2>1. <<>> \in Seq(Nat)
    BY EmptySeq
  <2> QED
    BY <1>2, <2>1 DEF Loop, LoopLabels, LineDone, ToFan
<1> HIDE DEF l
<1>7. loop' \in [Streams' -> Loop] /\ HasLine' /\ NoLine' /\ HasTodo'
  BY <1>1, <1>5, <1>6, LoopMoves
<1> QED
  BY <1>1, <1>3, <1>4, <1>7 DEF TypeInv, OutputType, LoopType, FanType, outVars, pipeVars, fanVars

LEMMA SentTypes ==
  ASSUME NEW l \in Loop, l.line # <<>>
  PROVE  /\ Sent(l) \in Loop /\ Sent(l).at \in {"read", "log", "gone"} /\ (Sent(l).at = "log" => Sent(l).line # <<>>)
         /\ (Sent(l).at = "gone" => Sent(l).line = <<>>)
<1>1. <<>> \in Seq(Nat)
  BY EmptySeq
<1> QED
  BY <1>1 DEF Sent, LineDone, Loop, LoopLabels

LEMMA FanOutTypes ==
  ASSUME TypeInv, NEW s \in Streams, FanOut(s)
  PROVE  TypeInv'
<1>1. UNCHANGED <<logVars, outVars, pipeVars, attachOut, attachBufFlushed, client, unread, got, first>>
      /\ setup' = setup /\ Streams' = Streams
  BY DEF FanOut, outVars, Streams, tty
<1>2. loop[s] \in Loop /\ loop[s].at = "fan" /\ loop[s].line # <<>> /\ attachOut \in Seq(Clients)
  BY DEF TypeInv, OutputType, LoopType, FanType, HasLine, FanOut
<1> DEFINE l == IF attachOut = <<>> THEN Sent(loop[s]) ELSE Sending(loop[s])
<1>3. loop' = [loop EXCEPT ![s] = l]
  BY DEF FanOut
<1>4. l \in Loop /\ (l.at \in {"log", "fan", "sending"} => l.line # <<>>) /\ (l.at \in {"off", "gone"} => l.line = <<>>)
      /\ (l.at = "sending" => l.todo # <<>>)
  <2>1. CASE attachOut = <<>>
    BY <1>2, <2>1, SentTypes
  <2>2. CASE attachOut # <<>>
    BY <1>2, <2>2 DEF Sending, Loop, LoopLabels
  <2> QED
    BY <2>1, <2>2
<1> HIDE DEF l
<1>5. loop' \in [Streams' -> Loop] /\ HasLine' /\ NoLine' /\ HasTodo'
  BY <1>1, <1>3, <1>4, LoopMoves
<1>6. Data(s) \in Seq(Piece) /\ fanned \in Seq(Piece) /\ attachBuf \in Seq(Piece)
  BY <1>2, DataIs DEF TypeInv, OutputType, FanType
<1>7. fanned \o Data(s) \in Seq(Piece) /\ attachBuf \o Data(s) \in Seq(Piece)
  BY <1>6, ConcatProperties
<1>8. fanned' \in Seq(Piece) /\ attachBuf' \in Seq(Piece)
  BY <1>6, <1>7 DEF FanOut
<1> QED
  BY <1>1, <1>5, <1>8 DEF TypeInv, OutputType, LogType, LoopType, FanType, outVars, pipeVars, logVars, driverVars

LEMMA SendTypes ==
  ASSUME TypeInv, NEW s \in Streams, Send(s)
  PROVE  TypeInv'
<1>1. UNCHANGED <<logVars, outVars, pipeVars>> /\ UNCHANGED <<attachOut, attachBuf, attachBufFlushed, client, fanned, first>>
      /\ setup' = setup /\ Streams' = Streams
  BY DEF Send, outVars, Streams, tty
<1>2. loop[s] \in Loop /\ loop[s].at = "sending" /\ loop[s].line # <<>> /\ loop[s].todo # <<>>
  BY DEF TypeInv, OutputType, LoopType, HasLine, HasTodo, Send
<1> DEFINE c == Head(loop[s].todo)
           rest == [loop[s] EXCEPT !.todo = Tail(@)]
           l == IF rest.todo = <<>> THEN Sent(rest) ELSE rest
<1>3. loop' = [loop EXCEPT ![s] = l]
  BY DEF Send
<1>4. rest \in Loop /\ rest.line # <<>> /\ rest.at = "sending"
  <2> DEFINE todo == loop[s].todo
  <2>1. todo \in Seq(Clients) /\ todo # <<>>
    BY <1>2 DEF Loop
  <2> HIDE DEF todo
  <2>2. Tail(todo) \in Seq(Clients)
    BY <2>1, TailSeq
  <2> QED
    BY <1>2, <2>2 DEF Loop, LoopLabels, todo
<1> HIDE DEF rest
<1>5. l \in Loop /\ (l.at \in {"log", "fan", "sending"} => l.line # <<>>) /\ (l.at \in {"off", "gone"} => l.line = <<>>)
      /\ (l.at = "sending" => l.todo # <<>>)
  BY <1>4, SentTypes
<1> HIDE DEF l
<1>6. loop' \in [Streams' -> Loop] /\ HasLine' /\ NoLine' /\ HasTodo'
  BY <1>1, <1>3, <1>5, LoopMoves
<1>7. got' \in [Clients -> Seq(Piece)] /\ unread' \in [Clients -> Nat]
  <2>1. got \in [Clients -> Seq(Piece)] /\ unread \in [Clients -> Nat] /\ Data(s) \in Seq(Piece)
    BY <1>2, DataIs DEF TypeInv, OutputType, FanType
  <2>2. CASE got' = [got EXCEPT ![c] = @ \o Data(s)] /\ unread' = [unread EXCEPT ![c] = @ + 1]
    <3>1. CASE c \in Clients
      <4>1. got[c] \o Data(s) \in Seq(Piece)
        BY <2>1, <3>1, ConcatProperties
      <4> QED
        BY <2>1, <2>2, <3>1, <4>1
    <3>2. CASE c \notin Clients
      BY <2>1, <2>2, <3>2
    <3> QED
      BY <3>1, <3>2
  <2> QED
    BY <2>1, <2>2 DEF Send
<1> QED
  BY <1>1, <1>6, <1>7 DEF TypeInv, OutputType, LogType, LoopType, FanType, outVars, pipeVars, logVars, driverVars

LEMMA ClientTypes ==
  ASSUME TypeInv, NEW c \in Clients, ClientNext(c)
  PROVE  TypeInv'
<1>1. UNCHANGED <<logVars, outVars, pipeVars, loop, fanned>> /\ Streams' = Streams
  BY DEF ClientNext, AddAttachWriter, ClientReads, ClientGoes, RemoveAttachWriter, outVars, Streams, tty
<1>2. FanType
  BY DEF TypeInv, OutputType
<1>3. FanType'
  <2>1. CASE AddAttachWriter(c)
    <3>1. attachOut' = Append(attachOut, c) /\ attachBuf' = <<>>
      BY <2>1 DEF AddAttachWriter
    <3>2. Append(attachOut, c) \in Seq(Clients) /\ <<>> \in Seq(Piece)
      BY <1>2, AppendProperties, EmptySeq DEF FanType
    <3>3. client' \in [Clients -> {"new", "attached", "gone", "left"}] /\ first' \in Clients \cup {NoClient}
      BY <1>2, <2>1 DEF AddAttachWriter, FanType
    <3>4. got' \in [Clients -> Seq(Piece)] /\ unread' \in [Clients -> Nat] /\ attachBufFlushed' \in BOOLEAN
      <4>1. got \in [Clients -> Seq(Piece)] /\ unread \in [Clients -> Nat] /\ attachBuf \in Seq(Piece) /\ attachBufFlushed \in BOOLEAN
        BY <1>2 DEF FanType
      <4>2. CASE attachBuf = <<>>
        BY <2>1, <4>1, <4>2 DEF AddAttachWriter
      <4>3. CASE attachBuf # <<>>
        <5>1. got' = [got EXCEPT ![c] = attachBuf] /\ unread' = [unread EXCEPT ![c] = 1] /\ attachBufFlushed' = TRUE
          BY <2>1, <4>3 DEF AddAttachWriter
        <5> QED
          BY <4>1, <5>1
      <4> QED
        BY <4>2, <4>3
    <3> QED
      BY <1>1, <1>2, <3>1, <3>2, <3>3, <3>4 DEF FanType
  <2>2. CASE ClientReads(c)
    BY <1>1, <1>2, <2>2 DEF ClientReads, FanType
  <2>3. CASE ClientGoes(c)
    BY <1>1, <1>2, <2>3 DEF ClientGoes, FanType
  <2>4. CASE RemoveAttachWriter(c)
    <3>1. PICK i \in DOMAIN attachOut : attachOut[i] = c /\ attachOut' = RemoveAt(attachOut, i)
      BY <2>4 DEF RemoveAttachWriter
    <3>2. attachOut \in Seq(Clients) /\ i \in 1..Len(attachOut)
      BY <1>2, <3>1, LenProperties DEF FanType
    <3>3. attachOut' \in Seq(Clients)
      BY <3>1, <3>2, RemoveAtSeq
    <3> QED
      BY <1>1, <1>2, <2>4, <3>3 DEF RemoveAttachWriter, FanType
  <2> QED
    BY <2>1, <2>2, <2>3, <2>4 DEF ClientNext
<1> QED
  BY <1>1, <1>3 DEF TypeInv, OutputType, LogType, LoopType, HasLine, NoLine, HasTodo, outVars, pipeVars, logVars, driverVars

LEMMA SetupIs ==
  ASSUME LoopType
  PROVE  setup.clients \subseteq Clients /\ setup.readers \subseteq Readers
BY OutputConstants DEF LoopType

LEMMA ReaderTypes ==
  ASSUME TypeInv, NEW r \in Readers, ReaderNext(r), UNCHANGED <<outVars, pipeVars, loop, fanVars>>
  PROVE  TypeInv'
<1>1. LogType'
  <2>1. PICK rd2 : reader' = [reader EXCEPT ![r] = rd2] /\ ReadsAs(reader[r], rd2)
    BY StartReads, FileReads, EndReads DEF ReaderNext, TypeInv, OutputType
  <2>2. UNCHANGED driverVars
    BY DEF ReaderNext, ReadStart, ReadFile, ReadEnd
  <2> QED
    BY <2>1, <2>2 DEF LogType, driverVars, ReadsAs, TypeInv, OutputType
<1> QED
  BY <1>1 DEF TypeInv, OutputType, LoopType, FanType, HasLine, NoLine, HasTodo, Streams, tty, outVars, pipeVars, fanVars

LEMMA TypeNext == TypeInv /\ [Next]_vars => TypeInv'
<1> SUFFICES ASSUME TypeInv, [Next]_vars PROVE TypeInv'
  OBVIOUS
<1>1. CASE Created \/ Registered \/ StartFails \/ ProgramEnds \/ CloseStart \/ CloseEnd
  BY <1>1, StartTypes
<1>2. ASSUME NEW s \in Streams, ProgramWrites(s) \/ LoopNext(s) PROVE TypeInv'
  BY <1>2, ProgramTypes, ReadTypes, LogLineTypes, FanOutTypes, SendTypes DEF LoopNext
<1>3. ASSUME NEW c \in setup.clients, ClientNext(c) PROVE TypeInv'
  BY <1>3, SetupIs, ClientTypes DEF TypeInv, OutputType
<1>4. ASSUME NEW r \in setup.readers, ReaderNext(r), UNCHANGED <<outVars, pipeVars, loop, fanVars>> PROVE TypeInv'
  BY <1>4, SetupIs, ReaderTypes DEF TypeInv, OutputType
<1>5. CASE UNCHANGED vars
  BY <1>5 DEF TypeInv, OutputType, LogType, LoopType, FanType, HasLine, NoLine, HasTodo, Streams, tty,
              vars, outVars, pipeVars, fanVars, logVars, driverVars
<1> QED
  BY <1>1, <1>2, <1>3, <1>4, <1>5 DEF Next

\* Whatever happens the state has the types of OutputType, a loop that is to log
\* or to send something has a line, and one that sends has someone to send it to.
THEOREM OutputTyped == Spec => []TypeInv
BY TypeInit, TypeNext, PTL DEF Spec

-----------------------------------------------------------------------------
(* Close *)

LEMMA CloseInit == Init => CloseInv
BY DEF Init, CloseInv, GoneLast, EndsKept, EveryLoop, ClosedLast, Closing, NotYet, AtEnd, tty

\* A step of a loop that is not over yet
LEMMA LoopCloses ==
  ASSUME TypeInv, CloseInv, NEW s \in Streams, LoopNext(s)
  PROVE  CloseInv'
<1>1. UNCHANGED outVars /\ Streams' = Streams /\ tty' = tty
  BY DEF LoopNext, Read, ReadError, LogLine, FanOut, Send, outVars, Streams, tty
<1>2. loop \in [Streams -> Loop] /\ loop[s] \in Loop /\ loop[s].at \notin {"off", "gone"}
  BY DEF TypeInv, OutputType, LoopType, LoopNext, Read, ReadError, LogLine, FanOut, Send
<1>3. \E l : /\ loop' = [loop EXCEPT ![s] = l] /\ l.at # "off" /\ (l.at = "gone" \/ l.end => loop[s].end \/ AtEnd(s) \/ tty)
             /\ (pipe' = pipe \/ (pipe[s] # <<>> /\ pipe' = [pipe EXCEPT ![s] = Tail(@)]))
  <2>1. CASE Read(s)
    <3> DEFINE l == [loop[s] EXCEPT !.line = Append(@, Head(pipe[s]).n), !.eol = Head(pipe[s]).eol,
                                    !.at = IF tty THEN "fan" ELSE IF Head(pipe[s]).eol THEN "log" ELSE "read"]
    <3>1. loop' = [loop EXCEPT ![s] = l] /\ pipe[s] # <<>> /\ pipe' = [pipe EXCEPT ![s] = Tail(@)]
      BY <2>1 DEF Read
    <3>2. l.at \in {"fan", "log", "read"} /\ l.end = loop[s].end
      BY <1>2 DEF Loop
    <3> HIDE DEF l
    <3> QED
      BY <3>1, <3>2
  <2>2. CASE ReadError(s)
    <3> DEFINE l == [loop[s] EXCEPT !.end = TRUE, !.at = IF loop[s].line = <<>> THEN "gone" ELSE "log"]
    <3>1. loop' = [loop EXCEPT ![s] = l] /\ pipe' = pipe /\ (tty \/ AtEnd(s))
      BY <2>2 DEF ReadError, pipeVars, PtyClosed
    <3>2. l.at # "off"
      BY <1>2 DEF Loop
    <3> HIDE DEF l
    <3> QED
      BY <3>1, <3>2
  <2>3. CASE LogLine(s)
    <3> DEFINE l == IF tty THEN LineDone(loop[s]) ELSE ToFan(loop[s])
    <3>1. loop' = [loop EXCEPT ![s] = l] /\ pipe' = pipe
      BY <2>3 DEF LogLine, pipeVars
    <3>2. l.at # "off" /\ l.end = loop[s].end /\ (l.at = "gone" => l.end)
      BY <1>2 DEF Loop, LineDone, ToFan
    <3> HIDE DEF l
    <3> QED
      BY <3>1, <3>2
  <2>4. CASE FanOut(s)
    <3> DEFINE l == IF attachOut = <<>> THEN Sent(loop[s]) ELSE Sending(loop[s])
    <3>1. loop' = [loop EXCEPT ![s] = l] /\ pipe' = pipe
      BY <2>4 DEF FanOut, pipeVars
    <3>2. l.at # "off" /\ l.end = loop[s].end /\ (l.at = "gone" => l.end)
      BY <1>2 DEF Loop, LineDone, Sent, Sending
    <3> HIDE DEF l
    <3> QED
      BY <3>1, <3>2
  <2>5. CASE Send(s)
    <3> DEFINE rest == [loop[s] EXCEPT !.todo = Tail(@)]
               l == IF rest.todo = <<>> THEN Sent(rest) ELSE rest
    <3>1. loop' = [loop EXCEPT ![s] = l] /\ pipe' = pipe
      BY <2>5 DEF Send, pipeVars
    <3>2. l.at # "off" /\ l.end = loop[s].end /\ (l.at = "gone" => l.end)
      BY <1>2 DEF Loop, LineDone, Sent
    <3> HIDE DEF l, rest
    <3> QED
      BY <3>1, <3>2
  <2> QED
    BY <2>1, <2>2, <2>3, <2>4, <2>5 DEF LoopNext
<1>4. PICK l : /\ loop' = [loop EXCEPT ![s] = l] /\ l.at # "off" /\ (l.at = "gone" \/ l.end => loop[s].end \/ AtEnd(s) \/ tty)
               /\ (pipe' = pipe \/ (pipe[s] # <<>> /\ pipe' = [pipe EXCEPT ![s] = Tail(@)]))
  BY <1>3
<1>5. loop'[s] = l /\ \A t \in Streams \ {s} : loop'[t] = loop[t]
  BY <1>2, <1>4
<1>6. GoneLast'
  <2> SUFFICES ASSUME ~tty, NEW t \in Streams, loop'[t].at = "gone" \/ loop'[t].end PROVE AtEnd(t)'
    BY <1>1 DEF GoneLast
  <2>1. AtEnd(t)
    BY <1>4, <1>5 DEF CloseInv, GoneLast
  <2>2. pipe \in [Streams -> Seq(Written)]
    BY DEF TypeInv, OutputType, LoopType
  <2> QED
    BY <1>1, <1>4, <2>1, <2>2 DEF AtEnd, outVars
<1>7. EndsKept' /\ Closing' /\ NotYet'
  BY <1>1, <1>2 DEF CloseInv, EndsKept, Closing, NotYet, outVars
<1>8. EveryLoop' /\ ClosedLast'
  BY <1>1, <1>2, <1>4, <1>5 DEF CloseInv, EveryLoop, ClosedLast, outVars
<1> QED
  BY <1>6, <1>7, <1>8 DEF CloseInv

LEMMA CloseNext == TypeInv /\ CloseInv /\ [Next]_vars => CloseInv'
<1> SUFFICES ASSUME TypeInv, CloseInv, [Next]_vars PROVE CloseInv'
  OBVIOUS
<1> USE DEF CloseInv, GoneLast, EndsKept, EveryLoop, ClosedLast, Closing, NotYet, AtEnd
<1>1. CASE Created
  <2>1. phase = "create" /\ phase' = "created" /\ daemonEnds' = FALSE /\ UNCHANGED <<setup, alive, closing, wrote, pipe>>
        /\ loop' = (IF tty THEN [loop EXCEPT !["stdout"].at = "read"] ELSE loop)
    BY <1>1 DEF Created, pipeVars
  <2>2. closing = "no" /\ Streams' = Streams /\ tty' = tty
    BY <2>1 DEF Streams, tty, TypeInv, OutputType, LoopType
  <2> QED
    BY <2>1, <2>2
<1>2. CASE Registered
  BY <1>2 DEF Registered, pipeVars, Streams, tty
<1>3. CASE StartFails
  BY <1>3 DEF StartFails, pipeVars, Streams, tty
<1>4. ASSUME NEW s \in Streams, ProgramWrites(s) PROVE CloseInv'
  <2>1. UNCHANGED <<outVars, loop>> /\ Streams' = Streams /\ tty' = tty /\ alive
    BY <1>4 DEF ProgramWrites, Streams, tty, outVars
  <2>2. \A t \in Streams : ~tty => ~(loop[t].at = "gone" \/ loop[t].end)
    BY <2>1
  <2> QED
    BY <2>1, <2>2 DEF outVars
<1>5. ASSUME NEW s \in Streams, LoopNext(s) PROVE CloseInv'
  BY <1>5, LoopCloses
<1>6. CASE ProgramEnds
  BY <1>6 DEF ProgramEnds, pipeVars, Streams, tty
<1>7. ASSUME NEW c \in setup.clients, ClientNext(c) PROVE CloseInv'
  <2>1. UNCHANGED <<outVars, pipeVars, loop>>
    BY <1>7 DEF ClientNext, AddAttachWriter, ClientReads, ClientGoes, RemoveAttachWriter
  <2> QED
    BY <2>1 DEF outVars, pipeVars, Streams, tty
<1>8. CASE CloseStart
  BY <1>8 DEF CloseStart, pipeVars, Streams, tty
<1>9. CASE CloseEnd
  BY <1>9 DEF CloseEnd, pipeVars, Streams, tty
<1>10. CASE UNCHANGED <<outVars, pipeVars, loop, fanVars>>
  BY <1>10 DEF outVars, pipeVars, Streams, tty
<1>11. CASE UNCHANGED vars
  BY <1>11 DEF vars, outVars, pipeVars, Streams, tty
<1> QED
  BY <1>1, <1>2, <1>3, <1>4, <1>5, <1>6, <1>7, <1>8, <1>9, <1>10, <1>11 DEF Next

\* Without a TTY Close comes back when everything the program wrote has been
\* taken from the pipes and is logged, or was given to a Log that failed.
THEOREM CloseDrainsPipes == Spec => []PipesDrained
<1>1. TypeInv /\ CloseInv => PipesDrained
  <2> SUFFICES ASSUME CloseInv, ~tty, closing = "done", NEW s \in Streams PROVE pipe[s] = <<>> /\ Unlogged(s) = 0
    BY DEF PipesDrained, Drained
  <2>1. loop[s].at = "gone"
    BY DEF CloseInv, EveryLoop, ClosedLast
  <2> QED
    BY <2>1 DEF CloseInv, GoneLast, AtEnd, Unlogged
<1>2. Init => TypeInv /\ CloseInv
  BY TypeInit, CloseInit
<1>3. TypeInv /\ CloseInv /\ [Next]_vars => (TypeInv /\ CloseInv)'
  BY TypeNext, CloseNext
<1> QED
  BY <1>1, <1>2, <1>3, PTL DEF Spec

-----------------------------------------------------------------------------
(* The files of the log and their readers, whoever logs *)

LogInv == FilesInv /\ WholeInv

LEMMA LogInvInit == Init => LogInv
<1> SUFFICES ASSUME Init PROVE LogInv
  OBVIOUS
<1>1. /\ files = [i \in {0} |-> <<>>] /\ logged = <<>>
      /\ \A r \in Readers : reader[r] = [step |-> "new", todo |-> {}, got |-> <<>>, had |-> {}, since |-> 0]
  BY DEF Init, LogInit
<1> DEFINE st == [i \in {0} |-> 0]
<1>2. DOMAIN files = {0} /\ DOMAIN st = {0} /\ files[0] = <<>> /\ st[0] = 0
  BY <1>1
<1> HIDE DEF st
<1>3. Len(<<>>) = 0 /\ DOMAIN <<>> = {} /\ <<>> \in Seq(Entry)
  BY EmptySeq
<1>4. Rotated \in Nat \ {0} /\ MaxSize \in Nat
  BY RotatedPos, LogConstants
<1>5. Held(files, st, logged)
  BY <1>1, <1>2, <1>3 DEF Held
<1>6. Tight(files, st, logged)
  <2>1. 0 \in 0..Rotated /\ DOMAIN files = 0..0 /\ st[0] - st[0] = 0 * MaxSize /\ 1..0 = {}
    BY <1>2, <1>4
  <2>2. st[0] + Len(files[0]) = Len(logged) /\ (MaxSize > 0 => Len(files[0]) <= MaxSize)
    BY <1>1, <1>2, <1>3, <1>4
  <2>3. (MaxSize = 0 => 0 = 0) /\ (\A i \in 1..0 : Len(files[i]) = MaxSize /\ st[i] + MaxSize = st[i - 1]) /\ (0 < Rotated => st[0] = 0)
    BY <1>2, <2>1
  <2> QED
    BY <2>1, <2>2, <2>3 DEF Tight
<1>7. Suffix(files, logged)
  <2>1. LogFilesOf(files) /\ 0 \in DOMAIN files /\ logged \in Seq(Entry)
    BY <1>1, <1>2, <1>3, <1>4 DEF LogFilesOf
  <2> QED
    BY <1>5, <1>6, <2>1, TightSuffix
<1>8. ASSUME NEW r \in Readers PROVE ReadsOn(reader[r], files, st, logged)
  <2>1. Embeds([x \in {} |-> x], reader[r].got, logged) /\ reader[r].step # "reading"
    BY <1>1, <1>3 DEF Embeds
  <2> QED
    BY <2>1 DEF ReadsOn
<1>9. FilesInv
  BY <1>5, <1>6, <1>7, <1>8 DEF FilesInv, RetainedSuffix, Suffix
<1>10. WholeInv
  BY <1>1 DEF WholeInv, Whole
<1> QED
  BY <1>9, <1>10 DEF LogInv

LEMMA LogInvNext == TypeInv /\ LogInv /\ [Next]_vars => LogInv'
<1> SUFFICES ASSUME TypeInv, LogInv, [Next]_vars PROVE LogInv'
  OBVIOUS
<1>0. LogType /\ FilesInv /\ WholeInv
  BY DEF TypeInv, OutputType, LogInv
<1>1. CASE UNCHANGED <<files, reader, logged, dropped, rotations>> /\ driver' \in {driver, "closed"}
  BY <1>1 DEF LogInv, FilesInv, WholeInv, RetainedSuffix
<1>2. ASSUME NEW s \in Streams, LogLine(s) PROVE LogInv'
  <2> DEFINE e == [s |-> s, line |-> loop[s].line]
  <2>1. e \in Entry /\ Log(e)
    BY <1>2, LogLineTypes DEF LogLine
  <2> HIDE DEF e
  <2> QED
    BY <1>0, <2>1, FilesKept, WholeKept DEF LogInv
<1>3. ASSUME NEW r \in setup.readers, ReaderNext(r) PROVE LogInv'
  BY <1>0, <1>3, SetupIs, ReaderStep DEF LogInv, TypeInv, OutputType
<1>4. \/ UNCHANGED <<files, reader, logged, dropped, rotations>> /\ driver' \in {driver, "closed"}
      \/ \E s \in Streams : LogLine(s)
      \/ \E r \in setup.readers : ReaderNext(r)
  <2>1. CASE Created \/ Registered \/ StartFails \/ ProgramEnds \/ CloseStart \/ CloseEnd
    BY <2>1 DEF Created, Registered, StartFails, ProgramEnds, CloseStart, CloseEnd, logVars, driverVars
  <2>2. ASSUME NEW s \in Streams, ProgramWrites(s) \/ Read(s) \/ ReadError(s) \/ FanOut(s) \/ Send(s)
        PROVE  UNCHANGED <<files, reader, logged, dropped, rotations>> /\ driver' \in {driver, "closed"}
    BY <2>2 DEF ProgramWrites, Read, ReadError, FanOut, Send, logVars, driverVars
  <2>3. ASSUME NEW c \in setup.clients, ClientNext(c)
        PROVE  UNCHANGED <<files, reader, logged, dropped, rotations>> /\ driver' \in {driver, "closed"}
    BY <2>3 DEF ClientNext, AddAttachWriter, ClientReads, ClientGoes, RemoveAttachWriter, logVars, driverVars
  <2>4. CASE UNCHANGED vars
    BY <2>4 DEF vars, logVars, driverVars
  <2> QED
    BY <2>1, <2>2, <2>3, <2>4 DEF Next, LoopNext
<1> QED
  BY <1>1, <1>2, <1>3, <1>4

LEMMA LogInvAlways == Spec => [](TypeInv /\ LogInv)
<1>1. Init => TypeInv /\ LogInv
  BY TypeInit, LogInvInit
<1>2. TypeInv /\ LogInv /\ [Next]_vars => (TypeInv /\ LogInv)'
  BY TypeNext, LogInvNext
<1> QED
  BY <1>1, <1>2, PTL DEF Spec

\* The files have the end of what was logged, as much of it as they must hold,
\* after any number of rotations and even if one fails halfway.
THEOREM LogKeepsTheEnd == Spec => []RetainedSuffix
<1>1. LogInv => RetainedSuffix
  BY DEF LogInv, FilesInv
<1> QED
  BY <1>1, LogInvAlways, PTL

\* A reader has entries in the order they were logged, none twice, however often
\* the log is rotated between two of the files it reads.
THEOREM LogReadInOrder == Spec => []ReaderInOrder
<1>1. LogInv => ReaderInOrder
  <2> SUFFICES ASSUME LogInv, NEW r \in Readers
               PROVE  \E at \in [DOMAIN reader[r].got -> DOMAIN logged] :
                        /\ \A i \in DOMAIN reader[r].got : logged[at[i]] = reader[r].got[i]
                        /\ \A i, j \in DOMAIN reader[r].got : i < j => at[i] < at[j]
    BY DEF ReaderInOrder
  <2>1. PICK st : ReadsOn(reader[r], files, st, logged)
    BY DEF LogInv, FilesInv
  <2>2. PICK at : Embeds(at, reader[r].got, logged)
    BY <2>1 DEF ReadsOn
  <2> QED
    BY <2>2 DEF Embeds
<1> QED
  BY <1>1, LogInvAlways, PTL

\* What a reader that saw no rotation gives back is all there was when it began.
THEOREM LogReadWhole == Spec => []ReaderWhole
<1>1. LogInv => ReaderWhole
  <2> SUFFICES ASSUME LogInv, NEW r \in Readers, reader[r].step = "whole", reader[r].since = rotations,
                      \A e \in reader[r].had : Len(e.line) <= MaxToken, NEW e \in reader[r].had
               PROVE  e \in ToSet(reader[r].got)
    BY DEF ReaderWhole
  <2> QED
    BY DEF LogInv, WholeInv, Whole
<1> QED
  BY <1>1, LogInvAlways, PTL

-----------------------------------------------------------------------------
(* The clients *)

LEMMA ConcatAssoc ==
  ASSUME NEW S, NEW p \in Seq(S), NEW q \in Seq(S), NEW r \in Seq(S)
  PROVE  (p \o q) \o r = p \o (q \o r)
BY ConcatAssociative, SMTT(30)

LEMMA InAppend ==
  ASSUME NEW S, NEW q \in Seq(S), NEW x \in S
  PROVE  ToSet(Append(q, x)) = ToSet(q) \cup {x} /\ (x \notin ToSet(q) /\ Once(q) => Once(Append(q, x)))
<1>1. /\ Append(q, x) \in Seq(S) /\ Len(Append(q, x)) = Len(q) + 1 /\ Len(q) \in Nat
      /\ DOMAIN q = 1..Len(q) /\ DOMAIN Append(q, x) = 1..(Len(q) + 1)
      /\ \A i \in 1..Len(q) : Append(q, x)[i] = q[i]
      /\ Append(q, x)[Len(q) + 1] = x
  BY AppendSeq
<1>2. DOMAIN Append(q, x) = DOMAIN q \cup {Len(q) + 1} /\ Len(q) + 1 \notin DOMAIN q
  BY <1>1
<1> QED
  BY <1>1, <1>2 DEF ToSet, Once

LEMMA InTail ==
  ASSUME NEW S, NEW q \in Seq(S), q # <<>>, Once(q)
  PROVE  ToSet(Tail(q)) = ToSet(q) \ {Head(q)} /\ Head(q) \in ToSet(q) /\ Once(Tail(q))
<1>1. /\ Tail(q) \in Seq(S) /\ Len(Tail(q)) = Len(q) - 1 /\ Head(q) = q[1] /\ Len(q) \in Nat \ {0}
      /\ \A i \in 1..Len(Tail(q)) : Tail(q)[i] = q[i + 1]
  BY TailSeq
<1>2. DOMAIN q = 1..Len(q) /\ DOMAIN Tail(q) = 1..(Len(q) - 1)
  BY <1>1, LenProperties
<1>3. 1 \in DOMAIN q /\ \A i \in DOMAIN Tail(q) : i + 1 \in DOMAIN q \ {1} /\ Tail(q)[i] = q[i + 1]
  BY <1>1, <1>2
<1>4. \A j \in DOMAIN q \ {1} : j - 1 \in DOMAIN Tail(q) /\ Tail(q)[j - 1] = q[j]
  BY <1>1, <1>2
<1>5. ASSUME NEW x PROVE x \in ToSet(Tail(q)) <=> x \in ToSet(q) \ {Head(q)}
  <2>1. ASSUME NEW i \in DOMAIN Tail(q), Tail(q)[i] = x PROVE x \in ToSet(q) \ {Head(q)}
    BY <1>1, <1>3, <2>1 DEF ToSet, Once
  <2>2. ASSUME NEW j \in DOMAIN q, q[j] = x, x # Head(q) PROVE x \in ToSet(Tail(q))
    BY <1>1, <1>4, <2>2 DEF ToSet
  <2> QED
    BY <2>1, <2>2 DEF ToSet
<1>6. Once(Tail(q))
  <2> SUFFICES ASSUME NEW i \in DOMAIN Tail(q), NEW j \in DOMAIN Tail(q), Tail(q)[i] = Tail(q)[j] PROVE i = j
    BY DEF Once
  <2>1. i + 1 = j + 1
    BY <1>3 DEF Once
  <2> QED
    BY <1>2, <2>1
<1> QED
  BY <1>1, <1>3, <1>5, <1>6 DEF ToSet

LEMMA InRemoveAt ==
  ASSUME NEW S, NEW q \in Seq(S), NEW i \in DOMAIN q, Once(q)
  PROVE  ToSet(RemoveAt(q, i)) = ToSet(q) \ {q[i]} /\ Once(RemoveAt(q, i))
<1> DEFINE p == RemoveAt(q, i)
<1>1. DOMAIN q = 1..Len(q) /\ Len(q) \in Nat /\ i \in 1..Len(q)
  BY LenProperties
<1>2. /\ p \in Seq(S) /\ Len(p) = Len(q) - 1
      /\ \A j \in 1..(Len(q) - 1) : p[j] = IF j < i THEN q[j] ELSE q[j + 1]
  BY <1>1, RemoveAtSeq
<1> HIDE DEF p
<1>3. DOMAIN p = 1..(Len(q) - 1)
  BY <1>2, LenProperties
<1> DEFINE At(j) == IF j < i THEN j ELSE j + 1
<1>4. \A j \in DOMAIN p : At(j) \in DOMAIN q \ {i} /\ p[j] = q[At(j)]
  BY <1>1, <1>2, <1>3
<1>5. \A j, k \in DOMAIN p : At(j) = At(k) => j = k
  BY <1>1, <1>3
<1>6. \A j \in DOMAIN q \ {i} : \E k \in DOMAIN p : At(k) = j
  <2> SUFFICES ASSUME NEW j \in DOMAIN q \ {i} PROVE \E k \in DOMAIN p : At(k) = j
    OBVIOUS
  <2>1. CASE j < i
    BY <1>1, <1>3, <2>1
  <2>2. CASE ~(j < i)
    <3>1. j - 1 \in DOMAIN p /\ At(j - 1) = j
      BY <1>1, <1>3, <2>2
    <3> QED
      BY <3>1
  <2> QED
    BY <2>1, <2>2
<1> HIDE DEF At
<1>7. ASSUME NEW x PROVE x \in ToSet(p) <=> x \in ToSet(q) \ {q[i]}
  <2>1. ASSUME NEW j \in DOMAIN p, p[j] = x PROVE x \in ToSet(q) \ {q[i]}
    BY <1>4, <2>1 DEF ToSet, Once
  <2>2. ASSUME NEW j \in DOMAIN q, q[j] = x, x # q[i] PROVE x \in ToSet(p)
    <3>1. PICK k \in DOMAIN p : At(k) = j
      BY <1>6, <2>2
    <3> QED
      BY <1>4, <2>2, <3>1 DEF ToSet
  <2> QED
    BY <2>1, <2>2 DEF ToSet
<1>8. Once(p)
  BY <1>4, <1>5 DEF Once
<1> QED
  BY <1>7, <1>8 DEF p

LEMMA FanInit == Init => FanInv
<1> SUFFICES ASSUME Init PROVE FanInv
  OBVIOUS
<1>1. /\ attachOut = <<>> /\ attachBuf = <<>> /\ attachBufFlushed = FALSE /\ fanned = <<>> /\ first = NoClient
      /\ client = [c \in Clients |-> "new"] /\ got = [c \in Clients |-> <<>>] /\ NoClient \notin Clients
      /\ \A s \in Streams : loop[s].at # "sending"
  BY OutputConstants DEF Init
<1>2. <<>> \in Seq(Piece) /\ <<>> \o <<>> = <<>> /\ DOMAIN <<>> = {}
  BY EmptySeq, ConcatEmptySeq
<1>3. OneSender /\ Todo
  BY <1>1 DEF OneSender, Todo
<1>4. AttachedOnce
  BY <1>1, <1>2 DEF AttachedOnce, Once, ToSet
<1>5. Buffered /\ NewHasNothing
  BY <1>1, <1>2 DEF Buffered, NewHasNothing
<1>6. ASSUME NEW c \in Clients PROVE HasPart(c)
  <2>1. got[c] = <<>> /\ client[c] = "new" /\ fanned = (<<>> \o got[c]) \o <<>>
    BY <1>1, <1>2
  <2> QED
    BY <1>2, <2>1 DEF HasPart
<1> QED
  BY <1>3, <1>4, <1>5, <1>6 DEF FanInv

\* What the clients have does not change with a loop that neither begins nor ends sending.
LEMMA FanKept ==
  ASSUME FanInv, Streams' = Streams, tty' = tty, UNCHANGED <<attachOut, attachBuf, attachBufFlushed, client, got, fanned, first>>,
         \A s \in Streams : \/ loop'[s] = loop[s]
                            \/ loop[s].at # "sending" /\ loop'[s].at # "sending"
  PROVE  FanInv'
<1>1. \A s \in Streams : (loop'[s].at = "sending" <=> loop[s].at = "sending")
                         /\ (loop[s].at = "sending" => loop'[s].todo = loop[s].todo /\ Data(s)' = Data(s))
  BY DEF Data
<1>2. \A s \in Streams, c \in Clients : Owed(s, c)' <=> Owed(s, c)
  BY <1>1 DEF Owed
<1>3. OneSender' /\ Todo' /\ AttachedOnce' /\ Buffered' /\ NewHasNothing'
  BY <1>1 DEF FanInv, OneSender, Todo, AttachedOnce, Buffered, NewHasNothing
<1>4. ASSUME NEW c \in Clients PROVE HasPart(c)'
  <2>1. PICK before \in Seq(Piece) : \E after \in Seq(Piece) :
               /\ fanned = (before \o got[c]) \o after
               /\ c = first => before = <<>>
               /\ client[c] = "attached" =>
                    (\A s \in Streams : Owed(s, c) => after = Data(s)) /\ ((\A s \in Streams : ~Owed(s, c)) => after = <<>>)
    BY DEF FanInv, HasPart
  <2>2. PICK after \in Seq(Piece) :
               /\ fanned = (before \o got[c]) \o after
               /\ c = first => before = <<>>
               /\ client[c] = "attached" =>
                    (\A s \in Streams : Owed(s, c) => after = Data(s)) /\ ((\A s \in Streams : ~Owed(s, c)) => after = <<>>)
    BY <2>1
  <2>3. \A s \in Streams : Owed(s, c)' => after = Data(s)' \/ client[c] # "attached"
    BY <1>1, <1>2, <2>2 DEF Owed
  <2> QED
    BY <1>2, <2>2, <2>3 DEF HasPart
<1> QED
  BY <1>3, <1>4 DEF FanInv

LEMMA FanOutFans ==
  ASSUME TypeInv, FanInv, NEW s \in Streams, FanOut(s)
  PROVE  FanInv'
<1>1. /\ UNCHANGED <<attachOut, attachBufFlushed, client, got, first>> /\ Streams' = Streams /\ tty' = tty
      /\ fanned' = fanned \o Data(s) /\ loop[s].at = "fan" /\ Unlocked
      /\ attachBuf' = (IF attachOut = <<>> /\ ~attachBufFlushed THEN attachBuf \o Data(s) ELSE attachBuf)
  BY DEF FanOut, outVars, Streams, tty
<1> DEFINE d == Data(s)
           l == IF attachOut = <<>> THEN Sent(loop[s]) ELSE Sending(loop[s])
<1>2. loop' = [loop EXCEPT ![s] = l]
  BY DEF FanOut
<1>3. loop \in [Streams -> Loop] /\ loop[s] \in Loop /\ fanned \in Seq(Piece) /\ attachBuf \in Seq(Piece)
      /\ got \in [Clients -> Seq(Piece)] /\ attachOut \in Seq(Clients)
  BY DEF TypeInv, OutputType, LoopType, FanType
<1>4. d \in Seq(Piece)
  BY <1>1, DataIs
<1>5. loop'[s] = l /\ \A t \in Streams \ {s} : loop'[t] = loop[t]
  BY <1>2, <1>3
<1>6. /\ attachOut = <<>> => l.at # "sending"
      /\ attachOut # <<>> => l.at = "sending" /\ l.todo = attachOut /\ l.line = loop[s].line
  BY <1>1, <1>3 DEF Sent, LineDone, Sending, Loop
<1>7. \A t \in Streams : loop[t].at # "sending"
  BY <1>1 DEF Unlocked
<1>8. attachOut # <<>> => Data(s)' = d
  BY <1>1, <1>5, <1>6 DEF Data
<1> HIDE DEF l, d
<1>9. OneSender' /\ AttachedOnce' /\ NewHasNothing'
  BY <1>1, <1>5, <1>7 DEF FanInv, OneSender, AttachedOnce, NewHasNothing
<1>10. Todo'
  BY <1>1, <1>5, <1>6, <1>7 DEF FanInv, Todo, AttachedOnce
<1>11. Buffered'
  <2>0. Buffered
    BY DEF FanInv
  <2>1. fanned' = fanned \o d
    BY <1>1 DEF d
  <2>2. CASE attachOut = <<>> /\ ~attachBufFlushed
    <3>1. PICK before \in Seq(Piece) : fanned = before \o attachBuf
      BY <2>0 DEF Buffered
    <3>2. attachBuf' = attachBuf \o d
      BY <1>1, <2>2 DEF d
    <3>3. fanned' = before \o attachBuf'
      BY <1>3, <1>4, <2>1, <3>1, <3>2, ConcatAssociative, SMTT(30)
    <3>4. first = NoClient => attachBuf' = fanned'
      BY <2>0, <2>1, <3>2 DEF Buffered
    <3> QED
      BY <1>1, <2>0, <2>2, <3>3, <3>4 DEF Buffered
  <2>3. CASE ~(attachOut = <<>> /\ ~attachBufFlushed)
    <3>1. attachBuf' = attachBuf /\ attachBuf = <<>> /\ first # NoClient
      BY <1>1, <2>0, <2>3 DEF Buffered
    <3>2. fanned' \in Seq(Piece) /\ fanned' = fanned' \o <<>>
      BY <1>3, <1>4, <2>1, ConcatProperties, ConcatEmptySeq
    <3> QED
      BY <1>1, <3>1, <3>2 DEF Buffered
  <2> QED
    BY <2>2, <2>3
<1>12. ASSUME NEW c \in Clients PROVE HasPart(c)'
  <2>1. PICK before \in Seq(Piece) : \E after \in Seq(Piece) :
               /\ fanned = (before \o got[c]) \o after
               /\ c = first => before = <<>>
               /\ client[c] = "attached" =>
                    (\A t \in Streams : Owed(t, c) => after = Data(t)) /\ ((\A t \in Streams : ~Owed(t, c)) => after = <<>>)
    BY DEF FanInv, HasPart
  <2>2. PICK after \in Seq(Piece) :
               /\ fanned = (before \o got[c]) \o after
               /\ c = first => before = <<>>
               /\ client[c] = "attached" =>
                    (\A t \in Streams : Owed(t, c) => after = Data(t)) /\ ((\A t \in Streams : ~Owed(t, c)) => after = <<>>)
    BY <2>1
  <2>3. after \o d \in Seq(Piece) /\ fanned' = (before \o got[c]) \o (after \o d)
    <3>1. before \o got[c] \in Seq(Piece)
      BY <1>3, ConcatProperties
    <3>2. fanned' = ((before \o got[c]) \o after) \o d
      BY <1>1, <2>2 DEF d
    <3>3. ((before \o got[c]) \o after) \o d = (before \o got[c]) \o (after \o d)
      <4> DEFINE g == before \o got[c]
      <4>1. g \in Seq(Piece)
        BY <3>1
      <4> HIDE DEF g
      <4>2. (g \o after) \o d = g \o (after \o d)
        BY <1>4, <4>1, ConcatAssociative, SMTT(30)
      <4> QED
        BY <4>2 DEF g
    <3> QED
      BY <1>4, <3>2, <3>3, ConcatProperties
  <2>4. CASE client[c] # "attached"
    BY <1>1, <2>2, <2>3, <2>4 DEF HasPart
  <2>5. CASE client[c] = "attached"
    <3>1. c \in ToSet(attachOut) /\ after = <<>>
      BY <1>7, <2>2, <2>5 DEF FanInv, AttachedOnce, Owed
    <3>2. attachOut # <<>>
      BY <3>1 DEF ToSet
    <3>3. after \o d = d
      BY <1>4, <3>1, ConcatEmptySeq
    <3>4. Owed(s, c)' /\ \A t \in Streams : Owed(t, c)' => t = s
      BY <1>5, <1>6, <1>7, <3>1, <3>2 DEF Owed
    <3>5. \A t \in Streams : Owed(t, c)' => after \o d = Data(t)'
      BY <1>8, <3>2, <3>3, <3>4
    <3> QED
      BY <1>1, <2>2, <2>3, <3>4, <3>5 DEF HasPart
  <2> QED
    BY <2>4, <2>5
<1> QED
  BY <1>9, <1>10, <1>11, <1>12 DEF FanInv

LEMMA SendSends ==
  ASSUME TypeInv, FanInv, NEW s \in Streams, Send(s)
  PROVE  FanInv'
<1> DEFINE d == Data(s)
           todo == loop[s].todo
           x == Head(todo)
           rest == [loop[s] EXCEPT !.todo = Tail(@)]
           l == IF rest.todo = <<>> THEN Sent(rest) ELSE rest
<1>1. /\ UNCHANGED <<attachOut, attachBuf, attachBufFlushed, client, fanned, first>> /\ Streams' = Streams /\ tty' = tty
      /\ loop[s].at = "sending" /\ loop' = [loop EXCEPT ![s] = l]
      /\ \/ client[x] = "attached" /\ got' = [got EXCEPT ![x] = @ \o d]
         \/ client[x] = "gone" /\ got' = got
  BY DEF Send, outVars, Streams, tty
<1>2. loop \in [Streams -> Loop] /\ loop[s] \in Loop /\ todo \in Seq(Clients) /\ todo # <<>> /\ got \in [Clients -> Seq(Piece)]
  BY <1>1 DEF TypeInv, OutputType, LoopType, FanType, Loop, HasTodo
<1>3. d \in Seq(Piece)
  BY <1>1, DataIs
<1>4. Once(todo) /\ ToSet(todo) \subseteq ToSet(attachOut) /\ \A t \in Streams \ {s} : loop[t].at # "sending"
  BY <1>1 DEF FanInv, Todo, OneSender
<1>5. rest.todo = Tail(todo) /\ rest.at = "sending" /\ rest.line = loop[s].line /\ rest \in Loop
  <2> HIDE DEF todo
  <2>1. Tail(todo) \in Seq(Clients)
    BY <1>2, TailSeq
  <2> QED
    BY <1>1, <1>2, <2>1 DEF Loop, todo
<1>6. /\ Tail(todo) = <<>> => l.at # "sending"
      /\ Tail(todo) # <<>> => l.at = "sending" /\ l.todo = Tail(todo) /\ l.line = loop[s].line
  BY <1>5 DEF Sent, LineDone, Loop
<1>7. loop'[s] = l /\ \A t \in Streams \ {s} : loop'[t] = loop[t]
  BY <1>1, <1>2
<1>8. Tail(todo) # <<>> => Data(s)' = d
  <2>1. Tail(todo) # <<>> => loop'[s].line = loop[s].line
    BY <1>6, <1>7
  <2> HIDE DEF l, rest, todo
  <2>2. tty' = tty
    BY <1>1
  <2> QED
    BY <2>1, <2>2 DEF Data
<1> HIDE DEF d, l, rest, todo
<1>9. ToSet(Tail(todo)) = ToSet(todo) \ {x} /\ x \in ToSet(todo) /\ Once(Tail(todo))
  BY <1>2, <1>4, InTail
<1>10. x \in Clients /\ \A c : c \in ToSet(Tail(todo)) => Tail(todo) # <<>>
  <2>1. x \in Clients
    BY <1>2, TailSeq
  <2> QED
    BY <2>1 DEF ToSet
<1> HIDE DEF x
<1>11. OneSender' /\ AttachedOnce' /\ Todo'
  <2>1. OneSender' /\ AttachedOnce'
    BY <1>1, <1>4, <1>7 DEF FanInv, OneSender, AttachedOnce
  <2>2. ASSUME NEW t \in Streams, loop'[t].at = "sending" PROVE Once(loop'[t].todo) /\ ToSet(loop'[t].todo) \subseteq ToSet(attachOut)
    <3>1. t = s /\ loop'[t].todo = Tail(todo)
      BY <1>4, <1>6, <1>7, <2>2
    <3> QED
      BY <1>4, <1>9, <3>1
  <2> QED
    BY <1>1, <2>1, <2>2 DEF Todo
<1>12. Buffered'
  BY <1>1 DEF FanInv, Buffered
<1>13. NewHasNothing'
  BY <1>1, <1>2, <1>10 DEF FanInv, NewHasNothing
<1>14. \A c \in Clients : Owed(s, c) <=> c \in ToSet(todo)
  BY <1>1 DEF Owed, todo
<1>15. \A c \in Clients : Owed(s, c)' <=> c \in ToSet(todo) \ {x}
  BY <1>6, <1>7, <1>9, <1>10 DEF Owed
<1>16. \A c \in Clients, t \in Streams \ {s} : ~Owed(t, c) /\ ~Owed(t, c)'
  BY <1>4, <1>7 DEF Owed
<1>17. ASSUME NEW c \in Clients PROVE HasPart(c)'
  <2>1. PICK before \in Seq(Piece) : \E after \in Seq(Piece) :
               /\ fanned = (before \o got[c]) \o after
               /\ c = first => before = <<>>
               /\ client[c] = "attached" =>
                    (\A t \in Streams : Owed(t, c) => after = Data(t)) /\ ((\A t \in Streams : ~Owed(t, c)) => after = <<>>)
    BY DEF FanInv, HasPart
  <2>2. PICK after \in Seq(Piece) :
               /\ fanned = (before \o got[c]) \o after
               /\ c = first => before = <<>>
               /\ client[c] = "attached" =>
                    (\A t \in Streams : Owed(t, c) => after = Data(t)) /\ ((\A t \in Streams : ~Owed(t, c)) => after = <<>>)
    BY <2>1
  <2>3. CASE c = x /\ client[x] = "attached"
    <3>1. after = d
      BY <1>9, <1>14, <2>2, <2>3 DEF d
    <3>2. got'[c] = got[c] \o d
      BY <1>1, <1>2, <2>3
    <3>3. got[c] \in Seq(Piece) /\ before \o (got[c] \o d) \in Seq(Piece)
      BY <1>2, <1>3, ConcatProperties
    <3>4. (before \o got[c]) \o d = before \o (got[c] \o d)
      <4> DEFINE g == got[c]
      <4>1. g \in Seq(Piece)
        BY <3>3
      <4> HIDE DEF g
      <4>2. (before \o g) \o d = before \o (g \o d)
        BY <1>3, <4>1, ConcatAssociative, SMTT(30)
      <4> QED
        BY <4>2 DEF g
    <3>5. fanned' = (before \o got'[c]) \o <<>>
      <4> DEFINE all == before \o (got[c] \o d)
      <4>1. all \in Seq(Piece) /\ before \o got'[c] = all
        BY <3>2, <3>3
      <4>2. fanned' = all
        BY <1>1, <2>2, <3>1, <3>4, Zenon
      <4> HIDE DEF all
      <4>3. all \o <<>> = all
        BY <4>1, ConcatEmptySeq
      <4> QED
        BY <4>1, <4>2, <4>3
    <3>6. \A t \in Streams : ~Owed(t, c)'
      BY <1>15, <1>16, <2>3
    <3>7. <<>> \in Seq(Piece)
      BY EmptySeq
    <3> QED
      BY <1>1, <2>2, <3>5, <3>6, <3>7 DEF HasPart
  <2>4. CASE c # x \/ client[x] # "attached"
    <3>1. got'[c] = got[c]
      BY <1>1, <1>2, <2>4
    <3>2. client[c] = "attached" => c # x /\ \A t \in Streams : Owed(t, c)' <=> Owed(t, c)
      BY <1>14, <1>15, <1>16, <2>4
    <3>3. \A t \in Streams : Owed(t, c)' => Data(t)' = Data(t)
      BY <1>8, <1>9, <1>10, <1>15, <1>16 DEF d
    <3> QED
      BY <1>1, <2>2, <3>1, <3>2, <3>3 DEF HasPart
  <2> QED
    BY <2>3, <2>4
<1> QED
  BY <1>11, <1>12, <1>13, <1>17 DEF FanInv

LEMMA AttachFans ==
  ASSUME TypeInv, FanInv, NEW x \in Clients, AddAttachWriter(x)
  PROVE  FanInv'
<1>1. /\ UNCHANGED <<loop, fanned>> /\ Streams' = Streams /\ tty' = tty /\ Unlocked /\ client[x] = "new"
      /\ client' = [client EXCEPT ![x] = "attached"] /\ attachOut' = Append(attachOut, x) /\ attachBuf' = <<>>
      /\ first' = (IF first = NoClient THEN x ELSE first)
      /\ \/ attachBuf = <<>> /\ got' = got
         \/ attachBuf # <<>> /\ got' = [got EXCEPT ![x] = attachBuf]
  BY DEF AddAttachWriter, outVars, Streams, tty
<1>2. /\ client \in [Clients -> {"new", "attached", "gone", "left"}] /\ got \in [Clients -> Seq(Piece)]
      /\ attachOut \in Seq(Clients) /\ attachBuf \in Seq(Piece) /\ fanned \in Seq(Piece) /\ NoClient \notin Clients
  BY OutputConstants DEF TypeInv, OutputType, FanType
<1>3. (\A t \in Streams : loop[t].at # "sending") /\ \A t \in Streams, c \in Clients : ~Owed(t, c) /\ ~Owed(t, c)'
  BY <1>1 DEF Unlocked, Owed
<1>4. OneSender' /\ Todo'
  BY <1>1, <1>3 DEF OneSender, Todo
<1>5. AttachedOnce'
  <2>1. x \notin ToSet(attachOut) /\ Once(attachOut)
    BY <1>1 DEF FanInv, AttachedOnce
  <2>2. ToSet(attachOut') = ToSet(attachOut) \cup {x} /\ Once(attachOut')
    BY <1>1, <1>2, <2>1, InAppend
  <2> QED
    BY <1>1, <1>2, <2>2 DEF FanInv, AttachedOnce
<1>6. Buffered'
  <2>1. fanned = fanned \o <<>>
    BY <1>2, ConcatEmptySeq
  <2> QED
    BY <1>1, <1>2, <2>1 DEF Buffered
<1>7. NewHasNothing'
  BY <1>1, <1>2 DEF FanInv, NewHasNothing
<1>8. Buffered /\ got[x] = <<>> /\ x # first
  BY <1>1 DEF FanInv, NewHasNothing
<1>9. got'[x] = attachBuf
  BY <1>1, <1>2, <1>8
<1>10. HasPart(x)'
  <2>1. PICK before \in Seq(Piece) : fanned = before \o attachBuf
    BY <1>8 DEF Buffered
  <2>2. <<>> \in Seq(Piece) /\ fanned \o <<>> = fanned /\ <<>> \o attachBuf = attachBuf
    BY <1>2, EmptySeq, ConcatEmptySeq
  <2>3. CASE first = NoClient
    <3>1. attachBuf = fanned
      BY <1>8, <2>3 DEF Buffered
    <3>2. fanned' = (<<>> \o got'[x]) \o <<>>
      BY <1>1, <1>9, <2>2, <3>1
    <3> QED
      BY <1>1, <1>3, <2>2, <3>2 DEF HasPart
  <2>4. CASE first # NoClient
    <3>1. first' # x
      BY <1>1, <1>8, <2>4
    <3>2. fanned' = (before \o got'[x]) \o <<>>
      BY <1>1, <1>9, <2>1, <2>2
    <3> QED
      BY <1>1, <1>3, <2>2, <3>1, <3>2 DEF HasPart
  <2> QED
    BY <2>3, <2>4
<1>11. ASSUME NEW c \in Clients, c # x PROVE HasPart(c)'
  <2>1. got'[c] = got[c] /\ client'[c] = client[c] /\ (c = first' => c = first)
    BY <1>1, <1>2, <1>11
  <2>2. HasPart(c)
    BY DEF FanInv
  <2> QED
    BY <1>1, <1>3, <2>1, <2>2 DEF HasPart
<1> QED
  BY <1>4, <1>5, <1>6, <1>7, <1>10, <1>11 DEF FanInv

LEMMA LeaveFans ==
  ASSUME TypeInv, FanInv, NEW x \in Clients, ClientReads(x) \/ ClientGoes(x) \/ RemoveAttachWriter(x)
  PROVE  FanInv'
<1>1. UNCHANGED <<loop, attachBuf, attachBufFlushed, got, fanned, first>> /\ Streams' = Streams /\ tty' = tty
  BY DEF ClientReads, ClientGoes, RemoveAttachWriter, outVars, Streams, tty
<1>2. client \in [Clients -> {"new", "attached", "gone", "left"}] /\ attachOut \in Seq(Clients)
  BY DEF TypeInv, OutputType, FanType
<1>3. \A c \in Clients : (client'[c] = "attached" => client[c] = "attached") /\ (client'[c] = "new" <=> client[c] = "new")
  BY <1>2 DEF ClientReads, ClientGoes, RemoveAttachWriter
<1>4. AttachedOnce' /\ Todo' /\ (attachBuf # <<>> \/ first = NoClient => attachOut' = attachOut)
  <2>1. CASE ClientReads(x) \/ ClientGoes(x)
    <3>1. attachOut' = attachOut /\ \A c \in Clients : client'[c] \in {"attached", "gone"} <=> client[c] \in {"attached", "gone"}
      BY <1>2, <2>1 DEF ClientReads, ClientGoes
    <3> QED
      BY <1>1, <3>1 DEF FanInv, AttachedOnce, Todo
  <2>2. CASE RemoveAttachWriter(x)
    <3>1. PICK i \in DOMAIN attachOut : attachOut[i] = x /\ attachOut' = RemoveAt(attachOut, i)
      BY <2>2 DEF RemoveAttachWriter
    <3>2. Once(attachOut) /\ \A c \in Clients : client[c] \in {"attached", "gone"} <=> c \in ToSet(attachOut)
      BY DEF FanInv, AttachedOnce
    <3>3. ToSet(attachOut') = ToSet(attachOut) \ {x} /\ Once(attachOut')
      BY <1>2, <3>1, <3>2, InRemoveAt
    <3>4. client' = [client EXCEPT ![x] = "left"]
      BY <2>2 DEF RemoveAttachWriter
    <3>5. AttachedOnce'
      BY <1>2, <3>2, <3>3, <3>4 DEF AttachedOnce
    <3>6. Todo'
      BY <1>1, <2>2 DEF Todo, RemoveAttachWriter, Unlocked
    <3>7. attachOut # <<>>
      BY <3>1
    <3>8. attachBuf = <<>> /\ first # NoClient
      BY <3>7 DEF FanInv, Buffered
    <3> QED
      BY <3>5, <3>6, <3>8
  <2> QED
    BY <2>1, <2>2
<1>5. OneSender' /\ NewHasNothing'
  BY <1>1, <1>3 DEF FanInv, OneSender, NewHasNothing
<1>6. Buffered'
  BY <1>1, <1>3, <1>4 DEF FanInv, Buffered
<1>7. ASSUME NEW c \in Clients PROVE HasPart(c)'
  <2>1. HasPart(c) /\ \A t \in Streams : (Owed(t, c)' <=> Owed(t, c)) /\ Data(t)' = Data(t)
    BY <1>1 DEF FanInv, Owed, Data
  <2> QED
    BY <1>1, <1>3, <2>1 DEF HasPart
<1> QED
  BY <1>4, <1>5, <1>6, <1>7 DEF FanInv

LEMMA FanNext == TypeInv /\ CloseInv /\ FanInv /\ [Next]_vars => FanInv'
<1> SUFFICES ASSUME TypeInv, CloseInv, FanInv, [Next]_vars PROVE FanInv'
  OBVIOUS
<1>0. loop \in [Streams -> Loop]
  BY DEF TypeInv, OutputType, LoopType
<1>1. CASE Created
  <2>1. /\ phase = "create" /\ setup' = setup /\ UNCHANGED fanVars
        /\ loop' = (IF tty THEN [loop EXCEPT !["stdout"].at = "read"] ELSE loop)
    BY <1>1 DEF Created
  <2>2. \A t \in Streams : loop'[t] = loop[t] \/ (loop[t].at # "sending" /\ loop'[t].at # "sending")
    <3>1. CASE ~tty
      BY <2>1, <3>1
    <3>2. CASE tty
      <4>1. Streams = {"stdout"} /\ loop["stdout"].at = "off" /\ loop["stdout"] \in Loop
        BY <1>0, <2>1, <3>2, StreamsAre DEF CloseInv, NotYet
      <4>2. loop' = [loop EXCEPT !["stdout"].at = "read"]
        BY <2>1, <3>2
      <4>3. loop'["stdout"].at = "read"
        BY <1>0, <4>1, <4>2 DEF Loop
      <4> QED
        BY <4>1, <4>3
    <3> QED
      BY <3>1, <3>2
  <2> QED
    BY <2>1, <2>2, FanKept DEF fanVars, Streams, tty
<1>2. CASE UNCHANGED <<fanVars, loop, setup>>
  BY <1>2, FanKept DEF fanVars, Streams, tty
<1>3. ASSUME NEW s \in Streams, Read(s) \/ ReadError(s) \/ LogLine(s) PROVE FanInv'
  <2>1. UNCHANGED fanVars /\ setup' = setup
    BY <1>3 DEF Read, ReadError, LogLine, outVars
  <2>2. loop[s].at # "sending" /\ loop[s] \in Loop
    BY <1>0, <1>3 DEF Read, ReadError, LogLine
  <2>3. (\A t \in Streams \ {s} : loop'[t] = loop[t]) /\ loop'[s].at # "sending"
    <3>1. CASE Read(s)
      <4> DEFINE l == [loop[s] EXCEPT !.line = Append(@, Head(pipe[s]).n), !.eol = Head(pipe[s]).eol,
                                      !.at = IF tty THEN "fan" ELSE IF Head(pipe[s]).eol THEN "log" ELSE "read"]
      <4>1. loop' = [loop EXCEPT ![s] = l]
        BY <3>1 DEF Read
      <4>2. l.at \in {"fan", "log", "read"}
        BY <2>2 DEF Loop
      <4> HIDE DEF l
      <4> QED
        BY <1>0, <4>1, <4>2
    <3>2. CASE ReadError(s)
      <4> DEFINE l == [loop[s] EXCEPT !.end = TRUE, !.at = IF loop[s].line = <<>> THEN "gone" ELSE "log"]
      <4>1. loop' = [loop EXCEPT ![s] = l]
        BY <3>2 DEF ReadError
      <4>2. l.at \in {"gone", "log"}
        BY <2>2 DEF Loop
      <4> HIDE DEF l
      <4> QED
        BY <1>0, <4>1, <4>2
    <3>3. CASE LogLine(s)
      <4> DEFINE l == IF tty THEN LineDone(loop[s]) ELSE ToFan(loop[s])
      <4>1. loop' = [loop EXCEPT ![s] = l]
        BY <3>3 DEF LogLine
      <4>2. l.at \in {"gone", "read", "fan"}
        BY <2>2 DEF Loop, LineDone, ToFan
      <4> HIDE DEF l
      <4> QED
        BY <1>0, <4>1, <4>2
    <3> QED
      BY <1>3, <3>1, <3>2, <3>3
  <2> QED
    BY <2>1, <2>2, <2>3, FanKept DEF fanVars, Streams, tty
<1>4. ASSUME NEW s \in Streams, FanOut(s) \/ Send(s) PROVE FanInv'
  BY <1>4, FanOutFans, SendSends
<1>5. ASSUME NEW c \in setup.clients, ClientNext(c) PROVE FanInv'
  <2>1. c \in Clients
    BY SetupIs DEF TypeInv, OutputType
  <2> QED
    BY <1>5, <2>1, AttachFans, LeaveFans DEF ClientNext
<1>6. CASE Registered \/ StartFails \/ ProgramEnds \/ CloseStart \/ CloseEnd
  BY <1>2, <1>6 DEF Registered, StartFails, ProgramEnds, CloseStart, CloseEnd
<1>7. ASSUME NEW s \in Streams, ProgramWrites(s) PROVE FanInv'
  BY <1>2, <1>7 DEF ProgramWrites, outVars
<1>8. CASE UNCHANGED <<outVars, pipeVars, loop, fanVars>>
  BY <1>2, <1>8 DEF outVars
<1>9. CASE UNCHANGED vars
  BY <1>2, <1>9 DEF vars, outVars
<1> QED
  BY <1>1, <1>3, <1>4, <1>5, <1>6, <1>7, <1>8, <1>9 DEF Next, LoopNext

LEMMA FanAlways == Spec => [](TypeInv /\ FanInv)
<1>1. Init => TypeInv /\ CloseInv /\ FanInv
  BY TypeInit, CloseInit, FanInit
<1>2. TypeInv /\ CloseInv /\ FanInv /\ [Next]_vars => (TypeInv /\ CloseInv /\ FanInv)'
  BY TypeNext, CloseNext, FanNext
<1> QED
  BY <1>1, <1>2, PTL DEF Spec

\* A part of a sequence of pieces is a sub-sequence of it.
LEMMA MiddleIs ==
  ASSUME NEW S, NEW p \in Seq(S), NEW q \in Seq(S), NEW r \in Seq(S)
  PROVE  LET w == (p \o q) \o r IN
         Len(w) = Len(p) + Len(q) + Len(r) /\ Len(p) \in Nat /\ Len(q) \in Nat /\ Len(r) \in Nat
         /\ q = SubSeq(w, Len(p) + 1, Len(p) + Len(q))
<1> DEFINE u == p \o q
           w == u \o r
<1>1. /\ u \in Seq(S) /\ Len(u) = Len(p) + Len(q) /\ Len(p) \in Nat /\ Len(q) \in Nat
      /\ DOMAIN u = 1..(Len(p) + Len(q)) /\ DOMAIN p = 1..Len(p) /\ DOMAIN q = 1..Len(q)
      /\ \A i \in 1..Len(p) : u[i] = p[i]
      /\ \A i \in 1..Len(q) : u[Len(p) + i] = q[i]
  BY ConcatSeq
<1>2. u \in Seq(S)
  BY <1>1
<1> HIDE DEF u
<1>3. /\ w \in Seq(S) /\ Len(w) = Len(u) + Len(r) /\ Len(u) \in Nat /\ Len(r) \in Nat
      /\ DOMAIN w = 1..(Len(u) + Len(r)) /\ DOMAIN u = 1..Len(u) /\ DOMAIN r = 1..Len(r)
      /\ \A i \in 1..Len(u) : w[i] = u[i]
      /\ \A i \in 1..Len(r) : w[Len(u) + i] = r[i]
  BY <1>2, ConcatSeq
<1> HIDE DEF w
<1>4. ASSUME NEW i \in 1..Len(q) PROVE q[i] = w[Len(p) + i]
  <2>1. Len(p) + i \in 1..Len(u)
    BY <1>1
  <2> QED
    BY <1>1, <1>3, <2>1
<1>5. w \in Seq(S) /\ Len(p) + Len(q) <= Len(w) /\ Len(p) \in Nat
  BY <1>1, <1>3
<1>6. q = SubSeq(w, Len(p) + 1, Len(p) + Len(q))
  BY <1>4, <1>5, PartIs
<1>7. Len(w) = Len(p) + Len(q) + Len(r)
  BY <1>1, <1>3
<1> QED
  BY <1>1, <1>3, <1>6, <1>7 DEF u, w

\* What a client has is a part of the output without a hole, in the order that
\* all clients see, to the end for who is attached.
THEOREM AttachedSeeOneOrder == Spec => []AttachContiguous
<1>1. TypeInv /\ FanInv => AttachContiguous
  <2> SUFFICES ASSUME TypeInv, FanInv, NEW c \in Clients
               PROVE  \E i \in 0..(Len(fanned) - Len(got[c])) :
                        /\ got[c] = SubSeq(fanned, i + 1, i + Len(got[c]))
                        /\ Len(got[c]) > 0 /\ client[c] = "attached" /\ Unlocked => i + Len(got[c]) = Len(fanned)
    BY DEF AttachContiguous
  <2> DEFINE g == got[c]
  <2>1. g \in Seq(Piece)
    BY DEF TypeInv, OutputType, FanType
  <2>2. PICK before \in Seq(Piece) : \E after \in Seq(Piece) :
          fanned = (before \o g) \o after /\ (client[c] = "attached" /\ (\A s \in Streams : ~Owed(s, c)) => after = <<>>)
    BY DEF FanInv, HasPart
  <2>3. PICK after \in Seq(Piece) :
          fanned = (before \o g) \o after /\ (client[c] = "attached" /\ (\A s \in Streams : ~Owed(s, c)) => after = <<>>)
    BY <2>2
  <2> HIDE DEF g
  <2>4. Len(fanned) = Len(before) + Len(g) + Len(after) /\ Len(before) \in Nat /\ Len(g) \in Nat /\ Len(after) \in Nat
        /\ g = SubSeq(fanned, Len(before) + 1, Len(before) + Len(g))
    BY <2>1, <2>3, MiddleIs
  <2>5. Len(before) \in 0..(Len(fanned) - Len(g))
    BY <2>4
  <2>6. client[c] = "attached" /\ Unlocked => Len(before) + Len(g) = Len(fanned)
    <3>1. Unlocked => \A s \in Streams : ~Owed(s, c)
      BY DEF Unlocked, Owed
    <3>2. Len(<<>>) = 0
      BY EmptySeq
    <3>3. ASSUME client[c] = "attached", Unlocked PROVE Len(after) = 0
      BY <2>3, <3>1, <3>2, <3>3
    <3> QED
      BY <2>4, <3>3
  <2> QED
    BY <2>4, <2>5, <2>6 DEF g
<1> QED
  BY <1>1, FanAlways, PTL

\* The first client to attach has the output from its very beginning, what came
\* before anyone was attached included.
THEOREM FirstSeesTheBeginning == Spec => []EarlyOutputKept
<1>1. TypeInv /\ FanInv => EarlyOutputKept
  <2> SUFFICES ASSUME TypeInv, FanInv PROVE EarlyOutputKept
    OBVIOUS
  <2>1. first = NoClient => attachBuf = fanned
    BY DEF FanInv, Buffered
  <2>2. ASSUME first # NoClient PROVE IsPrefix(got[first], fanned)
    <3> DEFINE g == got[first]
    <3>1. first \in Clients /\ g \in Seq(Piece)
      BY <2>2 DEF TypeInv, OutputType, FanType
    <3>2. PICK before \in Seq(Piece) : \E after \in Seq(Piece) : fanned = (before \o g) \o after /\ before = <<>>
      BY <3>1 DEF FanInv, HasPart
    <3>3. PICK after \in Seq(Piece) : fanned = (before \o g) \o after /\ before = <<>>
      BY <3>2
    <3> HIDE DEF g
    <3>4. Len(fanned) = Len(before) + Len(g) + Len(after) /\ Len(before) \in Nat /\ Len(g) \in Nat /\ Len(after) \in Nat
          /\ g = SubSeq(fanned, Len(before) + 1, Len(before) + Len(g))
      BY <3>1, <3>3, MiddleIs
    <3>5. Len(before) = 0
      BY <3>3, EmptySeq
    <3>6. Len(g) <= Len(fanned) /\ g = SubSeq(fanned, 1, Len(g))
      BY <3>4, <3>5
    <3>7. g = SubSeq(g, 1, Len(g))
      <4>1. \A n \in 1..Len(g) : g[n] = g[0 + n]
        OBVIOUS
      <4> QED
        BY <3>1, <3>4, <4>1, PartIs
    <3> QED
      BY <3>6, <3>7 DEF IsPrefix, g
  <2> QED
    BY <2>1, <2>2 DEF EarlyOutputKept
<1> QED
  BY <1>1, FanAlways, PTL

-----------------------------------------------------------------------------
(* The pieces on their way to the log *)

LEMMA FaithfulIs == (\A s \in Streams : Faithful(logged, dropped, s, Through(s))) => LogFaithful
<1> SUFFICES ASSUME NEW s \in Streams, Faithful(logged, dropped, s, Through(s))
             PROVE  LET failed == UNION {ToSet(e.line) : e \in {d \in dropped : d.s = s}}
                        lines == {k \in DOMAIN logged : logged[k].s = s}
                    IN  /\ UNION {ToSet(logged[k].line) : k \in lines} = (1..Through(s)) \ failed
                        /\ \A k, l \in lines : \A i \in DOMAIN logged[k].line, j \in DOMAIN logged[l].line :
                             k < l \/ (k = l /\ i < j) => logged[k].line[i] < logged[l].line[j]
  BY DEF LogFaithful, Through, Taken
<1> DEFINE failed == UNION {ToSet(e.line) : e \in {d \in dropped : d.s = s}}
           lines == {k \in DOMAIN logged : logged[k].s = s}
<1>1. \A x : x \in failed <=> \E e \in dropped : Says(e, s, x)
  BY DEF Says
<1>2. \A x : x \in UNION {ToSet(logged[k].line) : k \in lines} <=> \E k \in DOMAIN logged : Says(logged[k], s, x)
  BY DEF Says
<1>3. UNION {ToSet(logged[k].line) : k \in lines} = (1..Through(s)) \ failed
  <2> HIDE DEF failed, lines
  <2> QED
    BY <1>1, <1>2 DEF Faithful
<1> QED
  BY <1>3 DEF Faithful

LEMMA NewLine ==
  ASSUME NEW s, NEW line \in Seq(Nat), NEW n \in Nat, \A i \in 1..Len(line) : line[i] = n + i
  PROVE  \A x : Says([s |-> s, line |-> line], s, x) <=> x \in (n + 1)..(n + Len(line))
<1>1. DOMAIN line = 1..Len(line) /\ Len(line) \in Nat
  BY LenProperties
<1> SUFFICES ASSUME NEW x PROVE x \in ToSet(line) <=> x \in (n + 1)..(n + Len(line))
  BY DEF Says
<1>2. ASSUME NEW i \in 1..Len(line), x = line[i] PROVE x \in (n + 1)..(n + Len(line))
  BY <1>1, <1>2
<1>3. ASSUME x \in (n + 1)..(n + Len(line)) PROVE \E i \in 1..Len(line) : line[i] = x
  <2>1. x - n \in 1..Len(line) /\ n + (x - n) = x
    BY <1>1, <1>3
  <2> QED
    BY <2>1
<1> QED
  BY <1>1, <1>2, <1>3 DEF ToSet

LEMMA LoggedFaithful ==
  ASSUME NEW log \in Seq(Entry), NEW drop, NEW s \in Both, NEW n \in Nat, Faithful(log, drop, s, n),
         NEW line \in Seq(Nat), \A i \in 1..Len(line) : line[i] = n + i,
         \A e \in drop : e.s = s => \A x \in ToSet(e.line) : x \in 1..n
  PROVE  Faithful(Append(log, [s |-> s, line |-> line]), drop, s, n + Len(line))
<1> DEFINE e == [s |-> s, line |-> line]
           log2 == Append(log, e)
           m == n + Len(line)
<1>0. e \in Entry /\ e.s = s /\ e.line = line
  BY DEF Entry
<1>1. DOMAIN line = 1..Len(line) /\ Len(line) \in Nat /\ m \in Nat /\ 1..m = (1..n) \cup ((n + 1)..m)
      /\ \A x : ~(x \in 1..n /\ x \in (n + 1)..m)
  BY LenProperties
<1>2. /\ DOMAIN log = 1..Len(log) /\ DOMAIN log2 = DOMAIN log \cup {Len(log) + 1} /\ Len(log) \in Nat
      /\ \A k \in DOMAIN log : log2[k] = log[k] /\ k \in Nat /\ k < Len(log) + 1
      /\ log2[Len(log) + 1] = e
  <2>1. /\ Append(log, e) \in Seq(Entry) /\ Len(Append(log, e)) = Len(log) + 1 /\ Len(log) \in Nat
        /\ DOMAIN log = 1..Len(log) /\ DOMAIN Append(log, e) = 1..(Len(log) + 1)
        /\ \A i \in 1..Len(log) : Append(log, e)[i] = log[i]
        /\ Append(log, e)[Len(log) + 1] = e
    BY <1>0, AppendSeq
  <2>2. 1..(Len(log) + 1) = (1..Len(log)) \cup {Len(log) + 1}
    BY <2>1
  <2> QED
    BY <2>1, <2>2
<1>3. \A x : Says(e, s, x) <=> x \in (n + 1)..m
  BY NewLine
<1>4. \A k \in DOMAIN log : \A i \in DOMAIN log[k].line : log[k].s = s => log[k].line[i] \in 1..n
  <2> SUFFICES ASSUME NEW k \in DOMAIN log, NEW i \in DOMAIN log[k].line, log[k].s = s PROVE log[k].line[i] \in 1..n
    OBVIOUS
  <2>1. Says(log[k], s, log[k].line[i])
    BY DEF Says, ToSet
  <2> QED
    BY <2>1 DEF Faithful
<1> HIDE DEF e, log2, m
<1>5. \A x : (\E k \in DOMAIN log2 : Says(log2[k], s, x)) <=> (x \in 1..m /\ \A d \in drop : ~Says(d, s, x))
  <2> SUFFICES ASSUME NEW x PROVE (\E k \in DOMAIN log2 : Says(log2[k], s, x)) <=> (x \in 1..m /\ \A d \in drop : ~Says(d, s, x))
    OBVIOUS
  <2>1. (\E k \in DOMAIN log2 : Says(log2[k], s, x)) <=> (\E k \in DOMAIN log : Says(log[k], s, x)) \/ Says(e, s, x)
    BY <1>2
  <2>2. \A d \in drop : Says(d, s, x) => x \in 1..n
    BY DEF Says
  <2>3. (\E k \in DOMAIN log : Says(log[k], s, x)) <=> (x \in 1..n /\ \A d \in drop : ~Says(d, s, x))
    BY DEF Faithful
  <2>4. x \in 1..m <=> x \in 1..n \/ x \in (n + 1)..m
    BY <1>1
  <2>5. ~(x \in 1..n /\ x \in (n + 1)..m)
    BY <1>1
  <2> QED
    BY <1>3, <2>1, <2>2, <2>3, <2>4, <2>5
<1>6. ASSUME NEW k \in DOMAIN log2, NEW l \in DOMAIN log2, log2[k].s = s, log2[l].s = s,
             NEW i \in DOMAIN log2[k].line, NEW j \in DOMAIN log2[l].line, k < l \/ (k = l /\ i < j)
      PROVE  log2[k].line[i] < log2[l].line[j]
  <2>1. CASE k \in DOMAIN log /\ l \in DOMAIN log
    BY <1>2, <1>6, <2>1 DEF Faithful
  <2>2. CASE k \in DOMAIN log /\ l = Len(log) + 1
    <3>1. log2[k].line[i] \in 1..n
      BY <1>2, <1>4, <1>6, <2>2
    <3>2. log2[l].line = line
      BY <1>0, <1>2, <2>2
    <3>3. log2[l].line[j] = n + j /\ j \in 1..Len(line)
      BY <1>1, <1>6, <3>2
    <3> QED
      BY <1>1, <3>1, <3>3
  <2>3. CASE k = Len(log) + 1 /\ l = Len(log) + 1
    <3>1. log2[k].line = line /\ log2[l].line = line /\ i < j
      BY <1>0, <1>2, <1>6, <2>3
    <3>2. i \in 1..Len(line) /\ j \in 1..Len(line) /\ line[i] = n + i /\ line[j] = n + j
      BY <1>1, <1>6, <3>1
    <3> QED
      BY <1>1, <3>1, <3>2
  <2>4. CASE k = Len(log) + 1 /\ l \in DOMAIN log
    BY <1>2, <1>6, <2>4
  <2> QED
    BY <1>2, <2>1, <2>2, <2>3, <2>4
<1>7. Faithful(log2, drop, s, m)
  BY <1>5, <1>6 DEF Faithful
<1> QED
  BY <1>7 DEF log2, e, m

LEMMA DroppedFaithful ==
  ASSUME NEW log, NEW drop, NEW s, NEW n \in Nat, Faithful(log, drop, s, n),
         NEW line \in Seq(Nat), \A i \in 1..Len(line) : line[i] = n + i
  PROVE  Faithful(log, drop \cup {[s |-> s, line |-> line]}, s, n + Len(line))
<1> DEFINE e == [s |-> s, line |-> line]
           m == n + Len(line)
<1>1. Len(line) \in Nat /\ m \in Nat /\ 1..m = (1..n) \cup ((n + 1)..m) /\ \A x : ~(x \in 1..n /\ x \in (n + 1)..m)
  BY LenProperties
<1>2. \A x : Says(e, s, x) <=> x \in (n + 1)..m
  BY NewLine
<1> HIDE DEF e, m
<1>3. ASSUME NEW x
      PROVE  (x \in 1..n /\ \A d \in drop : ~Says(d, s, x)) <=> (x \in 1..m /\ \A d \in drop \cup {e} : ~Says(d, s, x))
  <2>1. x \in 1..m <=> x \in 1..n \/ x \in (n + 1)..m
    BY <1>1
  <2>2. ~(x \in 1..n /\ x \in (n + 1)..m)
    BY <1>1
  <2> QED
    BY <1>2, <2>1, <2>2
<1>4. Faithful(log, drop \cup {e}, s, m)
  BY <1>3 DEF Faithful
<1> QED
  BY <1>4 DEF e, m

\* Entries of the other stream do not matter.
LEMMA OtherFaithful ==
  ASSUME NEW log \in Seq(Entry), NEW drop, NEW t, NEW n, Faithful(log, drop, t, n), NEW e \in Entry, e.s # t
  PROVE  Faithful(Append(log, e), drop, t, n) /\ Faithful(log, drop \cup {e}, t, n)
<1> DEFINE log2 == Append(log, e)
<1>1. /\ DOMAIN log2 = DOMAIN log \cup {Len(log) + 1} /\ log2[Len(log) + 1] = e
      /\ \A k \in DOMAIN log : log2[k] = log[k]
  <2>1. /\ Append(log, e) \in Seq(Entry) /\ Len(Append(log, e)) = Len(log) + 1 /\ Len(log) \in Nat
        /\ DOMAIN log = 1..Len(log) /\ DOMAIN Append(log, e) = 1..(Len(log) + 1)
        /\ \A i \in 1..Len(log) : Append(log, e)[i] = log[i]
        /\ Append(log, e)[Len(log) + 1] = e
    BY AppendSeq
  <2>2. 1..(Len(log) + 1) = (1..Len(log)) \cup {Len(log) + 1}
    BY <2>1
  <2> QED
    BY <2>1, <2>2
<1> HIDE DEF log2
<1>2. \A x : ~Says(e, t, x)
  BY DEF Says
<1>3. ASSUME NEW x PROVE (\E k \in DOMAIN log2 : Says(log2[k], t, x)) <=> (\E k \in DOMAIN log : Says(log[k], t, x))
  BY <1>1, <1>2
<1>4. \A k \in DOMAIN log2 : log2[k].s = t => k \in DOMAIN log /\ log2[k] = log[k]
  BY <1>1
<1>5. Faithful(log2, drop, t, n)
  BY <1>3, <1>4 DEF Faithful
<1>6. ASSUME NEW x PROVE (\A d \in drop : ~Says(d, t, x)) <=> (\A d \in drop \cup {e} : ~Says(d, t, x))
  BY <1>2
<1>7. Faithful(log, drop \cup {e}, t, n)
  BY <1>6 DEF Faithful
<1> QED
  BY <1>5, <1>7 DEF log2

LEMMA PiecesTypes ==
  ASSUME TypeInv, PiecesInv, NEW s \in Streams
  PROVE  /\ wrote[s] \in Nat /\ Len(pipe[s]) \in Nat /\ Len(loop[s].line) \in Nat /\ Unlogged(s) \in Nat
         /\ Taken(s) \in Nat /\ Through(s) \in Nat
         /\ s \in Both /\ loop[s] \in Loop /\ pipe[s] \in Seq(Written) /\ loop[s].line \in Seq(Nat)
<1>1. s \in Both /\ wrote[s] \in Nat /\ loop[s] \in Loop /\ pipe[s] \in Seq(Written)
  BY StreamsAre DEF TypeInv, OutputType, LoopType
<1>2. loop[s].line \in Seq(Nat)
  BY <1>1 DEF Loop
<1>3. Len(pipe[s]) \in Nat /\ Len(loop[s].line) \in Nat
  BY <1>1, <1>2, LenProperties
<1>4. Len(pipe[s]) <= wrote[s] /\ Len(loop[s].line) <= Taken(s)
  BY DEF PiecesInv, InPipe, InLine
<1>5. Unlogged(s) \in {Len(loop[s].line), 0}
  BY DEF Unlogged
<1> QED
  BY <1>1, <1>2, <1>3, <1>4, <1>5 DEF Taken, Through

LEMMA PiecesInit == Init => PiecesInv
<1> SUFFICES ASSUME Init, NEW s \in Streams
             PROVE  /\ Len(pipe[s]) = 0 /\ wrote[s] = 0 /\ loop[s].line = <<>> /\ Len(loop[s].line) = 0
                    /\ dropped = {} /\ Through(s) = 0 /\ Faithful(logged, dropped, s, Through(s))
  BY DEF PiecesInv, InPipe, InLine, DroppedTaken, Taken
<1>1. /\ wrote[s] = 0 /\ pipe[s] = <<>> /\ loop[s].line = <<>> /\ Len(<<>>) = 0 /\ DOMAIN <<>> = {}
      /\ logged = <<>> /\ dropped = {}
  BY EmptySeq DEF Init, LogInit
<1>2. Unlogged(s) = 0
  BY <1>1 DEF Unlogged
<1>3. Through(s) = 0 /\ Len(pipe[s]) = 0 /\ Len(loop[s].line) = 0
  <2>1. Len(pipe[s]) = 0 /\ Len(loop[s].line) = 0
    BY <1>1
  <2>2. Through(s) = 0 - 0 - 0
    BY <1>1, <1>2, <2>1 DEF Through, Taken
  <2> QED
    BY <2>1, <2>2
<1>4. DOMAIN logged = {} /\ \A x : x \notin 1..0
  BY <1>1
<1>5. Faithful(logged, dropped, s, 0)
  BY <1>4 DEF Faithful
<1> QED
  BY <1>1, <1>3, <1>5

\* Nothing is logged or dropped, and no stream is further than it was.
LEMMA ThroughKept ==
  ASSUME PiecesInv, Streams' = Streams, UNCHANGED <<logged, dropped>>, \A t \in Streams : Through(t)' = Through(t)
  PROVE  DroppedTaken' /\ \A t \in Streams' : Faithful(logged', dropped', t, Through(t)')
<1>1. \A t \in Streams : Faithful(logged', dropped', t, Through(t)')
  BY DEF PiecesInv
<1>2. DroppedTaken'
  BY DEF PiecesInv, DroppedTaken
<1> QED
  BY <1>1, <1>2

LEMMA PiecesWritten ==
  ASSUME TypeInv, PiecesInv, NEW s \in Streams, ProgramWrites(s)
  PROVE  PiecesInv'
<1>1. PICK eol \in BOOLEAN : pipe' = [pipe EXCEPT ![s] = Append(@, [n |-> wrote[s] + 1, eol |-> eol])]
  BY DEF ProgramWrites
<1>2. /\ wrote' = [wrote EXCEPT ![s] = @ + 1] /\ UNCHANGED <<loop, logged, dropped>> /\ Streams' = Streams /\ tty' = tty
      /\ pipe \in [Streams -> Seq(Written)] /\ wrote \in [Streams -> Nat]
  BY DEF ProgramWrites, outVars, logVars, driverVars, Streams, tty, TypeInv, OutputType, LoopType
<1> DEFINE q == pipe[s]
           e == [n |-> wrote[s] + 1, eol |-> eol]
<1>3. /\ wrote'[s] = wrote[s] + 1 /\ pipe'[s] = Append(q, e)
      /\ \A t \in Streams \ {s} : wrote'[t] = wrote[t] /\ pipe'[t] = pipe[t]
  BY <1>1, <1>2
<1>4. q \in Seq(Written) /\ e \in Written /\ e.n = wrote[s] + 1 /\ wrote[s] \in Nat
  BY <1>2 DEF Written
<1>5. Len(q) <= wrote[s] /\ \A i \in 1..Len(q) : q[i].n = wrote[s] - Len(q) + i
  BY DEF PiecesInv, InPipe, Taken
<1> HIDE DEF q, e
<1>6. /\ Len(Append(q, e)) = Len(q) + 1 /\ Len(q) \in Nat
      /\ (\A i \in 1..Len(q) : Append(q, e)[i] = q[i]) /\ Append(q, e)[Len(q) + 1] = e
  BY <1>4, AppendSeq
<1>7. Taken(s)' = wrote[s] - Len(q) /\ Taken(s) = wrote[s] - Len(q)
  <2>1. Taken(s)' = (wrote[s] + 1) - (Len(q) + 1)
    BY <1>3, <1>6 DEF Taken
  <2>2. Taken(s) = wrote[s] - Len(q)
    BY DEF Taken, q
  <2>3. (wrote[s] + 1) - (Len(q) + 1) = wrote[s] - Len(q)
    BY <1>4, <1>6
  <2> QED
    BY <2>1, <2>2, <2>3
<1>8. \A t \in Streams : Taken(t)' = Taken(t)
  BY <1>3, <1>7 DEF Taken
<1>9. InPipe'
  <2>1. Len(pipe'[s]) <= wrote'[s]
    BY <1>3, <1>4, <1>5, <1>6
  <2>2. ASSUME NEW i \in 1..Len(pipe'[s]) PROVE pipe'[s][i].n = Taken(s)' + i
    BY <1>3, <1>4, <1>5, <1>6, <1>7
  <2>3. \A t \in Streams \ {s} : Len(pipe'[t]) <= wrote'[t] /\ \A i \in 1..Len(pipe'[t]) : pipe'[t][i].n = Taken(t)' + i
    BY <1>3, <1>8 DEF PiecesInv, InPipe
  <2>4. \A t \in Streams : Len(pipe'[t]) <= wrote'[t] /\ \A i \in 1..Len(pipe'[t]) : pipe'[t][i].n = Taken(t)' + i
    BY <2>1, <2>2, <2>3, Zenon
  <2> QED
    BY <1>2, <2>4 DEF InPipe
<1>10. InLine'
  BY <1>2, <1>8 DEF PiecesInv, InLine
<1>11. \A t \in Streams : Through(t)' = Through(t)
  BY <1>2, <1>8 DEF Through, Unlogged
<1> QED
  BY <1>2, <1>9, <1>10, <1>11, ThroughKept DEF PiecesInv

LEMMA PiecesRead ==
  ASSUME TypeInv, PiecesInv, NEW s \in Streams, Read(s)
  PROVE  PiecesInv'
<1> DEFINE q == pipe[s]
           p == Head(pipe[s])
           line == loop[s].line
           l == [loop[s] EXCEPT !.line = Append(@, p.n), !.eol = p.eol,
                                !.at = IF tty THEN "fan" ELSE IF p.eol THEN "log" ELSE "read"]
<1>1. /\ loop' = [loop EXCEPT ![s] = l] /\ pipe' = [pipe EXCEPT ![s] = Tail(q)] /\ q # <<>> /\ loop[s].at = "read"
      /\ UNCHANGED <<wrote, logged, dropped>> /\ Streams' = Streams /\ tty' = tty
  BY DEF Read, outVars, logVars, driverVars, Streams, tty
<1>2. pipe \in [Streams -> Seq(Written)] /\ loop \in [Streams -> Loop] /\ wrote[s] \in Nat /\ q \in Seq(Written)
      /\ line \in Seq(Nat) /\ loop[s] \in Loop
  BY PiecesTypes DEF TypeInv, OutputType, LoopType
<1>3. l.line = Append(line, p.n) /\ l.at \in (IF tty THEN {"fan"} ELSE {"log", "read"})
  BY <1>2 DEF Loop
<1>4. /\ loop'[s] = l /\ pipe'[s] = Tail(q)
      /\ \A t \in Streams \ {s} : loop'[t] = loop[t] /\ pipe'[t] = pipe[t]
  BY <1>1, <1>2
<1>5. /\ Len(q) <= wrote[s] /\ \A i \in 1..Len(q) : q[i].n = wrote[s] - Len(q) + i
      /\ Len(line) <= Taken(s) /\ \A i \in 1..Len(line) : line[i] = Taken(s) - Len(line) + i
  BY DEF PiecesInv, InPipe, InLine, Taken
<1>6. Taken(s) = wrote[s] - Len(q)
  BY DEF Taken
<1>7. Unlogged(s) = Len(line) /\ Unlogged(s)' = Len(Append(line, p.n))
  <2>1. Unlogged(s) = Len(line)
    BY <1>1 DEF Unlogged
  <2>2. loop'[s].line = Append(line, p.n) /\ loop'[s].at \in (IF tty THEN {"fan"} ELSE {"log", "read"})
    BY <1>3, <1>4
  <2>3. Unlogged(s)' = Len(loop'[s].line)
    BY <1>1, <2>2 DEF Unlogged
  <2> QED
    BY <2>1, <2>2, <2>3
<1>8. Through(s) = Taken(s) - Unlogged(s) /\ Through(s)' = Taken(s)' - Unlogged(s)'
  BY DEF Through
<1>9. p = Head(q)
  OBVIOUS
<1> HIDE DEF q, p, line, l
<1>10. /\ Tail(q) \in Seq(Written) /\ Len(Tail(q)) = Len(q) - 1 /\ p \in Written /\ p = q[1] /\ Len(q) \in Nat \ {0}
       /\ \A i \in 1..Len(Tail(q)) : Tail(q)[i] = q[i + 1]
  BY <1>1, <1>2, <1>9, TailSeq
<1>11. p.n = Taken(s) + 1 /\ Taken(s) \in Nat /\ p.n \in Nat
  BY <1>2, <1>5, <1>6, <1>10
<1>12. Taken(s)' = Taken(s) + 1
  <2>1. Taken(s)' = wrote[s] - Len(Tail(q))
    BY <1>1, <1>4 DEF Taken
  <2> QED
    BY <1>2, <1>6, <1>10, <2>1
<1>13. /\ Len(Append(line, p.n)) = Len(line) + 1 /\ Len(line) \in Nat
       /\ (\A i \in 1..Len(line) : Append(line, p.n)[i] = line[i]) /\ Append(line, p.n)[Len(line) + 1] = p.n
  <2> DEFINE n == p.n
  <2>1. n \in Nat
    BY <1>11
  <2> HIDE DEF n
  <2>2. /\ Len(Append(line, n)) = Len(line) + 1 /\ Len(line) \in Nat
        /\ (\A i \in 1..Len(line) : Append(line, n)[i] = line[i]) /\ Append(line, n)[Len(line) + 1] = n
    BY <1>2, <2>1, AppendSeq
  <2> QED
    BY <2>2 DEF n
<1>14. InPipe'
  <2>1. Len(pipe'[s]) <= wrote'[s]
    BY <1>1, <1>2, <1>4, <1>5, <1>10
  <2>2. ASSUME NEW i \in 1..Len(pipe'[s]) PROVE pipe'[s][i].n = Taken(s)' + i
    <3>1. i + 1 \in 1..Len(q) /\ pipe'[s][i] = q[i + 1] /\ i \in Nat
      BY <1>4, <1>10
    <3>2. q[i + 1].n = Taken(s) + (i + 1)
      BY <1>5, <1>6, <3>1
    <3> QED
      BY <1>11, <1>12, <3>1, <3>2
  <2>3. \A t \in Streams \ {s} : Taken(t)' = Taken(t)
    BY <1>1, <1>4 DEF Taken
  <2>4. \A t \in Streams \ {s} : Len(pipe'[t]) <= wrote'[t] /\ \A i \in 1..Len(pipe'[t]) : pipe'[t][i].n = Taken(t)' + i
    BY <1>1, <1>4, <2>3 DEF PiecesInv, InPipe
  <2>5. \A t \in Streams : Len(pipe'[t]) <= wrote'[t] /\ \A i \in 1..Len(pipe'[t]) : pipe'[t][i].n = Taken(t)' + i
    BY <2>1, <2>2, <2>4, Zenon
  <2> QED
    BY <1>1, <2>5 DEF InPipe
<1>15. InLine'
  <2>1. loop'[s].line = Append(line, p.n)
    BY <1>3, <1>4
  <2>2. Len(Append(line, p.n)) <= Taken(s)'
    BY <1>5, <1>11, <1>12, <1>13
  <2>3. ASSUME NEW i \in 1..Len(Append(line, p.n)) PROVE Append(line, p.n)[i] = Taken(s)' - Len(Append(line, p.n)) + i
    BY <1>5, <1>11, <1>12, <1>13
  <2>4. \A t \in Streams \ {s} : Taken(t)' = Taken(t)
    BY <1>1, <1>4 DEF Taken
  <2>5. Len(loop'[s].line) <= Taken(s)' /\ \A i \in 1..Len(loop'[s].line) : loop'[s].line[i] = Taken(s)' - Len(loop'[s].line) + i
    BY <2>1, <2>2, <2>3, Zenon
  <2>6. \A t \in Streams \ {s} :
          Len(loop'[t].line) <= Taken(t)' /\ \A i \in 1..Len(loop'[t].line) : loop'[t].line[i] = Taken(t)' - Len(loop'[t].line) + i
    BY <1>4, <2>4 DEF PiecesInv, InLine
  <2>7. \A t \in Streams :
          Len(loop'[t].line) <= Taken(t)' /\ \A i \in 1..Len(loop'[t].line) : loop'[t].line[i] = Taken(t)' - Len(loop'[t].line) + i
    BY <2>5, <2>6, Zenon
  <2> QED
    BY <1>1, <2>7 DEF InLine
<1>16. Through(s)' = Through(s)
  BY <1>7, <1>8, <1>11, <1>12, <1>13
<1>17. \A t \in Streams \ {s} : Through(t)' = Through(t)
  BY <1>1, <1>4 DEF Through, Taken, Unlogged
<1> QED
  BY <1>1, <1>14, <1>15, <1>16, <1>17, ThroughKept DEF PiecesInv

\* What a loop has still to log
Pending(l) == IF l.at \in (IF tty THEN {"read", "log", "fan", "sending"} ELSE {"read", "log"}) THEN Len(l.line) ELSE 0

LEMMA PiecesMoved ==
  ASSUME TypeInv, PiecesInv, NEW s \in Streams, NEW l, loop' = [loop EXCEPT ![s] = l],
         l.line \in {loop[s].line, <<>>}, Pending(l) = Pending(loop[s]),
         UNCHANGED <<wrote, pipe, logged, dropped>>, Streams' = Streams, tty' = tty
  PROVE  PiecesInv'
<1>1. loop'[s] = l /\ \A t \in Streams \ {s} : loop'[t] = loop[t]
  BY DEF TypeInv, OutputType, LoopType
<1>2. \A t \in Streams : Taken(t)' = Taken(t) /\ Unlogged(t)' = Unlogged(t)
  BY <1>1 DEF Taken, Unlogged, Pending
<1>3. InPipe'
  BY <1>2 DEF PiecesInv, InPipe
<1>4. InLine'
  <2> SUFFICES ASSUME NEW t \in Streams
               PROVE  LET line == loop'[t].line IN
                        Len(line) <= Taken(t) /\ \A i \in 1..Len(line) : line[i] = Taken(t) - Len(line) + i
    BY <1>2 DEF InLine
  <2>1. CASE loop'[t].line = loop[t].line
    BY <2>1 DEF PiecesInv, InLine
  <2>2. CASE loop'[t].line = <<>>
    <3>1. Len(<<>>) = 0 /\ Taken(t) \in Nat
      BY EmptySeq, PiecesTypes
    <3> QED
      BY <2>2, <3>1
  <2> QED
    BY <1>1, <2>1, <2>2
<1>5. \A t \in Streams : Through(t)' = Through(t)
  BY <1>2 DEF Through
<1> QED
  BY <1>3, <1>4, <1>5, ThroughKept DEF PiecesInv

LEMMA PiecesSame ==
  ASSUME PiecesInv, UNCHANGED <<loop, wrote, pipe, logged, dropped, setup>>
  PROVE  PiecesInv'
BY DEF PiecesInv, InPipe, InLine, DroppedTaken, Faithful, Says, Through, Taken, Unlogged, Streams, tty

\* Other streams' entries are none of this one's, and what is through stays so.
LEMMA PiecesLogged ==
  ASSUME TypeInv, PiecesInv, NEW s \in Streams, LogLine(s)
  PROVE  PiecesInv'
<1> DEFINE line == loop[s].line
           e == [s |-> s, line |-> line]
           l == IF tty THEN LineDone(loop[s]) ELSE ToFan(loop[s])
<1>1. /\ loop' = [loop EXCEPT ![s] = l] /\ loop[s].at = "log" /\ (LogWritten(e) \/ LogFails(e))
      /\ UNCHANGED <<wrote, pipe>> /\ Streams' = Streams /\ tty' = tty
  BY DEF LogLine, Log, outVars, pipeVars, Streams, tty
<1>2. loop \in [Streams -> Loop] /\ loop[s] \in Loop /\ s \in Both /\ logged \in Seq(Entry) /\ e \in Entry /\ e.s = s
  BY PiecesTypes, LogLineTypes DEF TypeInv, OutputType, LoopType, LogType
<1>3. line \in Seq(Nat) /\ Len(line) \in Nat /\ Taken(s) \in Nat /\ Through(s) \in Nat
  BY PiecesTypes
<1>4. Len(line) <= Taken(s) /\ \A i \in 1..Len(line) : line[i] = Taken(s) - Len(line) + i
  BY DEF PiecesInv, InLine
<1>5. Unlogged(s) = Len(line)
  BY <1>1 DEF Unlogged
<1>6. Through(s) = Taken(s) - Len(line)
  BY <1>5 DEF Through
<1>7. \A t \in Streams : Taken(t)' = Taken(t)
  BY <1>1 DEF Taken
<1>8. l.line \in {line, <<>>} /\ (tty => l.at \in {"gone", "read"} /\ l.line = <<>>) /\ (~tty => l.at = "fan")
  BY <1>2 DEF Loop, LineDone, ToFan
<1>9. loop'[s] = l /\ \A t \in Streams \ {s} : loop'[t] = loop[t]
  BY <1>1, <1>2
<1> HIDE DEF l
<1>10. Unlogged(s)' = 0
  <2>1. Len(<<>>) = 0
    BY EmptySeq
  <2> QED
    BY <1>1, <1>8, <1>9, <2>1 DEF Unlogged
<1>11. Through(s)' = Taken(s)
  <2>1. Through(s)' = Taken(s)' - Unlogged(s)'
    BY DEF Through
  <2> QED
    BY <1>3, <1>7, <1>10, <2>1
<1>12. \A t \in Streams \ {s} : Through(t)' = Through(t)
  BY <1>1, <1>7, <1>9 DEF Through, Unlogged
<1>13. InPipe'
  BY <1>1, <1>7 DEF PiecesInv, InPipe
<1>14. InLine'
  <2>1. CASE l.line = line
    BY <1>1, <1>7, <1>9, <2>1 DEF PiecesInv, InLine
  <2>2. CASE l.line = <<>>
    <3>1. Len(loop'[s].line) = 0
      BY <1>9, <2>2, EmptySeq
    <3>2. Len(loop'[s].line) <= Taken(s)' /\ \A i \in 1..Len(loop'[s].line) : loop'[s].line[i] = Taken(s)' - Len(loop'[s].line) + i
      BY <1>3, <1>7, <3>1
    <3>3. \A t \in Streams \ {s} :
            Len(loop'[t].line) <= Taken(t)' /\ \A i \in 1..Len(loop'[t].line) : loop'[t].line[i] = Taken(t)' - Len(loop'[t].line) + i
      BY <1>7, <1>9 DEF PiecesInv, InLine
    <3>4. \A t \in Streams :
            Len(loop'[t].line) <= Taken(t)' /\ \A i \in 1..Len(loop'[t].line) : loop'[t].line[i] = Taken(t)' - Len(loop'[t].line) + i
      BY <3>2, <3>3, Zenon
    <3> QED
      BY <1>1, <3>4 DEF InLine
  <2> QED
    BY <1>8, <2>1, <2>2
<1> DEFINE n == Through(s)
<1>15. n \in Nat /\ n + Len(line) = Taken(s) /\ \A i \in 1..Len(line) : line[i] = n + i
  <2>1. n + Len(line) = Taken(s) /\ n = Taken(s) - Len(line)
    BY <1>3, <1>6
  <2> QED
    BY <1>3, <1>4, <2>1
<1>16. \A d \in dropped : d.s = s => \A x \in ToSet(d.line) : x \in 1..n
  BY DEF PiecesInv, DroppedTaken
<1>17. Faithful(logged, dropped, s, n) /\ \A t \in Streams : Faithful(logged, dropped, t, Through(t))
  BY DEF PiecesInv
<1> HIDE DEF line, n
<1>18. \A x \in 1..n : x \in 1..Taken(s)
  BY <1>3, <1>15
<1>19. CASE LogWritten(e)
  <2>1. logged' = Append(logged, e) /\ dropped' = dropped
    BY <1>19 DEF LogWritten
  <2>2. Faithful(Append(logged, [s |-> s, line |-> line]), dropped, s, n + Len(line))
    BY <1>2, <1>3, <1>15, <1>16, <1>17, LoggedFaithful
  <2>3. \A t \in Streams \ {s} : Faithful(Append(logged, e), dropped, t, Through(t))
    BY <1>2, <1>17, OtherFaithful
  <2>4. \A t \in Streams : Faithful(logged', dropped', t, Through(t)')
    BY <1>11, <1>12, <1>15, <2>1, <2>2, <2>3
  <2>5. DroppedTaken'
    <3>1. \A d \in dropped : d.s = s => \A x \in ToSet(d.line) : x \in 1..Through(s)'
      BY <1>11, <1>15, <1>16, <1>18
    <3> QED
      BY <1>1, <1>12, <2>1, <3>1 DEF PiecesInv, DroppedTaken
  <2> QED
    BY <1>1, <1>13, <1>14, <2>4, <2>5 DEF PiecesInv
<1>20. CASE LogFails(e)
  <2>1. logged' = logged /\ dropped' = dropped \cup {e}
    BY <1>20 DEF LogFails
  <2>2. Faithful(logged, dropped \cup {[s |-> s, line |-> line]}, s, n + Len(line))
    BY <1>3, <1>15, <1>17, DroppedFaithful
  <2>3. \A t \in Streams \ {s} : Faithful(logged, dropped \cup {e}, t, Through(t))
    BY <1>2, <1>17, OtherFaithful
  <2>4. \A t \in Streams : Faithful(logged', dropped', t, Through(t)')
    BY <1>11, <1>12, <1>15, <2>1, <2>2, <2>3
  <2>5. DroppedTaken'
    <3>1. \A d \in dropped : d.s = s => \A x \in ToSet(d.line) : x \in 1..Through(s)'
      BY <1>11, <1>15, <1>16, <1>18
    <3>2. \A x : Says(e, s, x) => x \in (n + 1)..(n + Len(line))
      BY <1>3, <1>15, NewLine
    <3>3. \A x \in ToSet(e.line) : x \in 1..Through(s)'
      BY <1>2, <1>3, <1>11, <1>15, <3>2 DEF Says
    <3> QED
      BY <1>1, <1>2, <1>12, <2>1, <3>1, <3>3 DEF PiecesInv, DroppedTaken
  <2> QED
    BY <1>1, <1>13, <1>14, <2>4, <2>5 DEF PiecesInv
<1> QED
  BY <1>1, <1>19, <1>20

LEMMA PiecesNext == TypeInv /\ CloseInv /\ PiecesInv /\ [Next]_vars => PiecesInv'
<1> SUFFICES ASSUME TypeInv, CloseInv, PiecesInv, [Next]_vars PROVE PiecesInv'
  OBVIOUS
<1> USE DEF outVars, pipeVars, logVars, driverVars
<1>0. Len(<<>>) = 0
  BY EmptySeq
<1>1. CASE Created
  <2>1. /\ phase = "create" /\ UNCHANGED <<setup, wrote, pipe, logged, dropped>> /\ Streams' = Streams /\ tty' = tty
        /\ loop' = (IF tty THEN [loop EXCEPT !["stdout"].at = "read"] ELSE loop)
    BY <1>1 DEF Created, Streams, tty
  <2>2. CASE tty
    <3> DEFINE s == "stdout"
               l == [loop[s] EXCEPT !.at = "read"]
    <3>1. s \in Streams /\ loop[s] \in Loop /\ loop[s].at = "off" /\ loop[s].line = <<>>
      BY <2>1, <2>2, StreamsAre DEF CloseInv, NotYet, TypeInv, OutputType, LoopType, NoLine
    <3>2. loop' = [loop EXCEPT ![s] = l] /\ l.line = <<>>
      BY <2>1, <2>2, <3>1 DEF Loop
    <3>3. Pending(l) = 0 /\ Pending(loop[s]) = 0
      BY <1>0, <3>1, <3>2 DEF Pending
    <3> HIDE DEF l, s
    <3> QED
      BY <2>1, <3>1, <3>2, <3>3, PiecesMoved
  <2>3. CASE ~tty
    BY <2>1, <2>3, PiecesSame
  <2> QED
    BY <2>2, <2>3
<1>2. CASE Registered \/ StartFails \/ ProgramEnds \/ CloseStart \/ CloseEnd
  BY <1>2, PiecesSame DEF Registered, StartFails, ProgramEnds, CloseStart, CloseEnd
<1>3. ASSUME NEW s \in Streams, ReadError(s) PROVE PiecesInv'
  <2> DEFINE l == [loop[s] EXCEPT !.end = TRUE, !.at = IF loop[s].line = <<>> THEN "gone" ELSE "log"]
  <2>1. /\ loop' = [loop EXCEPT ![s] = l] /\ loop[s].at = "read"
        /\ UNCHANGED <<wrote, pipe, logged, dropped>> /\ Streams' = Streams /\ tty' = tty
    BY <1>3 DEF ReadError, Streams, tty
  <2>2. l.line = loop[s].line /\ l.at = (IF loop[s].line = <<>> THEN "gone" ELSE "log")
    BY PiecesTypes DEF Loop
  <2> HIDE DEF l
  <2>3. Pending(l) = Pending(loop[s])
    BY <1>0, <2>1, <2>2 DEF Pending
  <2> QED
    BY <2>1, <2>2, <2>3, PiecesMoved
<1>4. ASSUME NEW s \in Streams, FanOut(s) PROVE PiecesInv'
  <2> DEFINE l == IF attachOut = <<>> THEN Sent(loop[s]) ELSE Sending(loop[s])
  <2>1. /\ loop' = [loop EXCEPT ![s] = l] /\ loop[s].at = "fan"
        /\ UNCHANGED <<wrote, pipe, logged, dropped>> /\ Streams' = Streams /\ tty' = tty
    BY <1>4 DEF FanOut, Streams, tty
  <2>2. loop[s] \in Loop
    BY PiecesTypes
  <2>3. /\ l.line \in {loop[s].line, <<>>} /\ (tty => l.line = loop[s].line /\ l.at \in {"sending", "log", "read"})
        /\ (~tty => l.at = "sending" \/ l.line = <<>>)
    BY <2>2 DEF Sent, Sending, LineDone, Loop
  <2> HIDE DEF l
  <2>4. Pending(l) = Pending(loop[s])
    BY <1>0, <2>1, <2>3 DEF Pending
  <2> QED
    BY <2>1, <2>3, <2>4, PiecesMoved
<1>5. ASSUME NEW s \in Streams, Send(s) PROVE PiecesInv'
  <2> DEFINE rest == [loop[s] EXCEPT !.todo = Tail(@)]
             l == IF rest.todo = <<>> THEN Sent(rest) ELSE rest
  <2>1. /\ loop' = [loop EXCEPT ![s] = l] /\ loop[s].at = "sending"
        /\ UNCHANGED <<wrote, pipe, logged, dropped>> /\ Streams' = Streams /\ tty' = tty
    BY <1>5 DEF Send, Streams, tty
  <2>2. loop[s] \in Loop
    BY PiecesTypes
  <2>3. /\ l.line \in {loop[s].line, <<>>} /\ (tty => l.line = loop[s].line /\ l.at \in {"sending", "log", "read"})
        /\ (~tty => l.at = "sending" \/ l.line = <<>>)
    <3>1. rest.line = loop[s].line /\ rest.at = "sending" /\ DOMAIN rest = DOMAIN loop[s]
      BY <2>1, <2>2 DEF Loop
    <3>2. DOMAIN loop[s] = {"at", "line", "eol", "end", "todo"}
      BY <2>2 DEF Loop
    <3> HIDE DEF rest
    <3> QED
      BY <3>1, <3>2 DEF Sent, LineDone
  <2> HIDE DEF l, rest
  <2>4. Pending(l) = Pending(loop[s])
    BY <1>0, <2>1, <2>3 DEF Pending
  <2> QED
    BY <2>1, <2>3, <2>4, PiecesMoved
<1>6. ASSUME NEW s \in Streams, ProgramWrites(s) \/ Read(s) \/ LogLine(s) PROVE PiecesInv'
  BY <1>6, PiecesWritten, PiecesRead, PiecesLogged
<1>7. ASSUME NEW c \in setup.clients, ClientNext(c) PROVE PiecesInv'
  <2>1. UNCHANGED <<logVars, outVars, pipeVars, loop>>
    BY <1>7 DEF ClientNext, AddAttachWriter, ClientReads, ClientGoes, RemoveAttachWriter
  <2> QED
    BY <2>1, PiecesSame
<1>8. ASSUME NEW r \in setup.readers, ReaderNext(r), UNCHANGED <<outVars, pipeVars, loop, fanVars>> PROVE PiecesInv'
  <2>1. UNCHANGED driverVars
    BY <1>8 DEF ReaderNext, ReadStart, ReadFile, ReadEnd
  <2> QED
    BY <1>8, <2>1, PiecesSame
<1>9. CASE UNCHANGED vars
  BY <1>9, PiecesSame DEF vars
<1> QED
  BY <1>1, <1>2, <1>3, <1>4, <1>5, <1>6, <1>7, <1>8, <1>9 DEF Next, LoopNext

\* The log has, stream by stream, every piece that was read from the pipes, once
\* and in order, the last line too when it has no end; but for those of entries
\* that Log failed on.
THEOREM LogHasEverything == Spec => []LogFaithful
<1>1. Init => TypeInv /\ CloseInv /\ PiecesInv
  BY TypeInit, CloseInit, PiecesInit
<1>2. TypeInv /\ CloseInv /\ PiecesInv /\ [Next]_vars => (TypeInv /\ CloseInv /\ PiecesInv)'
  BY TypeNext, CloseNext, PiecesNext
<1>3. PiecesInv => LogFaithful
  BY FaithfulIs DEF PiecesInv
<1> QED
  BY <1>1, <1>2, <1>3, PTL DEF Spec

=============================================================================
