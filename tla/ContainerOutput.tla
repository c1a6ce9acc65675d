---------------------------- MODULE ContainerOutput ----------------------------
(***************************************************************************)
(* internal/runtime's containerIO: what the program of a container writes, *)
(* on its way through the copy loops to the log (LogFiles) and to attached *)
(* clients; from the creation of the pipes in Start to the Close of        *)
(* HandleExit, or of a Start that fails.                                   *)
(*                                                                         *)
(* The program writes pieces, numbered per stream; a piece may end a line. *)
(* A copy loop is a goroutine; containerIO.mu is held by the loop that is  *)
(* "sending", from client to client, for a client that does not read makes *)
(* Write block.                                                            *)
(***************************************************************************)
EXTENDS LogFiles

CONSTANTS
  Clients,       \* Attach calls
  Interactive,   \* those with stdin, where the end of the client's input is noticed
  Setups,        \* what is tried: Config.Tty, the clients that attach, the requests
                 \* for logs, and the bound on the pieces written to each stream
  PipeSize,      \* pieces a pipe or a PTY holds
  ConnSize       \* writes a connection takes before its client reads

NoClient == "none"

ASSUME OutputConstants ==
  /\ Interactive \subseteq Clients /\ NoClient \notin Clients
  /\ Setups \subseteq [tty : BOOLEAN, clients : SUBSET Clients, readers : SUBSET Readers,
                       pieces : [{"stdout", "stderr"} -> Nat]]
  /\ PipeSize \in Nat \ {0} /\ ConnSize \in Nat \ {0}

VARIABLES
  setup,
  phase,       \* of Start: "create", "created", "up" once in Manager.active, "failed"
  alive,       \* a process holds the container's ends of the pipes, or the PTY slave
  daemonEnds,  \* the daemon holds write ends
  wrote, pipe, \* by stream: pieces written, pieces in the pipe
  loop,        \* the copy loops
  attachOut, attachBuf, attachBufFlushed,
  client, unread,
  closing,     \* Close: "no", "waiting", "done"
  \* history
  got,         \* what each client was sent
  fanned,      \* what the loops had for clients, in the order of containerIO.mu
  first        \* the first client attached

outVars == <<setup, phase, alive, daemonEnds, closing>>
pipeVars == <<wrote, pipe>>
fanVars == <<attachOut, attachBuf, attachBufFlushed, client, unread, got, fanned, first>>
vars == <<logVars, outVars, pipeVars, loop, fanVars>>

tty == setup.tty

Streams == IF tty THEN {"stdout"} ELSE {"stdout", "stderr"}

Unlocked == \A s \in Streams : loop[s].at # "sending"

-----------------------------------------------------------------------------
(* Start: newContainerIO, startCopyLoop, crun create, registration *)

Init ==
  /\ LogInit
  /\ setup \in Setups
  /\ phase = "create" /\ alive = TRUE /\ daemonEnds = ~tty
  /\ wrote = [s \in Streams |-> 0] /\ pipe = [s \in Streams |-> <<>>]
  /\ loop = [s \in Streams |-> [at |-> IF tty THEN "off" ELSE "read", line |-> <<>>,
                                eol |-> FALSE, end |-> FALSE, todo |-> <<>>]]
  /\ attachOut = <<>> /\ attachBuf = <<>> /\ attachBufFlushed = FALSE
  /\ client = [c \in Clients |-> "new"] /\ unread = [c \in Clients |-> 0]
  /\ closing = "no"
  /\ got = [c \in Clients |-> <<>>] /\ fanned = <<>> /\ first = NoClient

\* Mutation: Start keeps its copies of the write ends.
CreatedKeepsEnds ==
  /\ phase = "create"
  /\ phase' = "created"
  /\ loop' = IF tty THEN [loop EXCEPT !["stdout"].at = "read"] ELSE loop
  /\ UNCHANGED <<logVars, setup, alive, daemonEnds, closing, pipeVars, fanVars>>

\* crun create succeeded.  The daemon's write ends are closed, or the PTY has
\* come and its loop starts.
Created ==
  /\ phase = "create"
  /\ phase' = "created"
  /\ daemonEnds' = FALSE
  /\ loop' = IF tty THEN [loop EXCEPT !["stdout"].at = "read"] ELSE loop
  /\ UNCHANGED <<logVars, setup, alive, closing, pipeVars, fanVars>>

Registered ==
  /\ phase = "created"
  /\ phase' = "up"
  /\ UNCHANGED <<logVars, setup, alive, daemonEnds, closing, pipeVars, loop, fanVars>>

\* A step of Start failed: what crun create left may live on, everything else is
\* deleted before Close.
StartFails ==
  /\ phase \in {"create", "created", "up"} /\ closing = "no"
  /\ phase' = "failed" /\ closing' = "waiting"
  /\ alive' \in IF phase = "create" THEN BOOLEAN ELSE {FALSE}
  /\ daemonEnds' = FALSE
  /\ UNCHANGED <<logVars, setup, pipeVars, loop, fanVars>>

-----------------------------------------------------------------------------
(* The program *)

ProgramWrites(s) ==
  /\ alive /\ wrote[s] < setup.pieces[s] /\ Len(pipe[s]) < PipeSize
  /\ tty => phase = "up"
  /\ wrote' = [wrote EXCEPT ![s] = @ + 1]
  /\ \E eol \in BOOLEAN :
       pipe' = [pipe EXCEPT ![s] = Append(@, [n |-> wrote[s] + 1, eol |-> eol])]
  /\ UNCHANGED <<logVars, outVars, loop, fanVars>>

\* An end before Start has registered the container is ContainerLifecycle's.
ProgramEnds ==
  /\ alive /\ phase = "up"
  /\ alive' = FALSE
  /\ UNCHANGED <<logVars, setup, phase, daemonEnds, closing, pipeVars, loop, fanVars>>

-----------------------------------------------------------------------------
(* copyStream takes a line, logs it and sends it to the clients; copyStreamRaw
   sends every piece at once and logs a line when it is whole.               *)

\* Close closes the PTY master before it waits for the loop.
PtyClosed == tty /\ closing # "no"

\* No one is left to write.
AtEnd(s) == pipe[s] = <<>> /\ ~alive /\ ~daemonEnds

Read(s) ==
  /\ loop[s].at = "read" /\ pipe[s] # <<>> /\ ~PtyClosed
  /\ LET p == Head(pipe[s]) IN
     loop' = [loop EXCEPT ![s].line = Append(@, p.n), ![s].eol = p.eol,
                          ![s].at = IF tty THEN "fan" ELSE IF p.eol THEN "log" ELSE "read"]
  /\ pipe' = [pipe EXCEPT ![s] = Tail(@)]
  /\ UNCHANGED <<logVars, outVars, wrote, fanVars>>

\* Mutation: what was read of a line without end is not logged.
ReadErrorLosesPartial(s) ==
  /\ loop[s].at = "read"
  /\ (PtyClosed \/ AtEnd(s))
  /\ loop' = [loop EXCEPT ![s].end = TRUE, ![s].at = "gone", ![s].line = <<>>]
  /\ UNCHANGED <<logVars, outVars, pipeVars, fanVars>>

\* A line that has no end is logged all the same, with one.
ReadError(s) ==
  /\ loop[s].at = "read"
  /\ (PtyClosed \/ AtEnd(s))
  /\ loop' = [loop EXCEPT ![s].end = TRUE, ![s].at = IF loop[s].line = <<>> THEN "gone" ELSE "log"]
  /\ UNCHANGED <<logVars, outVars, pipeVars, fanVars>>

ToFan(l) == [l EXCEPT !.at = "fan"]

LineDone(l) == [l EXCEPT !.at = IF l.end THEN "gone" ELSE "read", !.line = <<>>]

LogLine(s) ==
  /\ loop[s].at = "log"
  /\ Log([s |-> s, line |-> loop[s].line])
  /\ loop' = [loop EXCEPT ![s] = IF tty THEN LineDone(@) ELSE ToFan(@)]
  /\ UNCHANGED <<outVars, pipeVars, fanVars>>

\* fanOutOrBuffer
Data(s) == LET line == IF tty THEN <<Last(loop[s].line)>> ELSE loop[s].line
           IN  [i \in DOMAIN line |-> [s |-> s, n |-> line[i]]]

Sending(l) == [l EXCEPT !.at = "sending", !.todo = attachOut]

Sent(l) == IF tty THEN [l EXCEPT !.at = IF l.eol THEN "log" ELSE "read"] ELSE LineDone(l)

\* Mutation: no lock is taken.
FanOutUnlocked(s) ==
  /\ loop[s].at = "fan"
  /\ fanned' = fanned \o Data(s)
  /\ attachBuf' = IF attachOut = <<>> /\ ~attachBufFlushed THEN attachBuf \o Data(s) ELSE attachBuf
  /\ loop' = [loop EXCEPT ![s] = IF attachOut = <<>> THEN Sent(@) ELSE Sending(@)]
  /\ UNCHANGED <<logVars, outVars, pipeVars, attachOut, attachBufFlushed, client, unread, got, first>>

FanOut(s) ==
  /\ loop[s].at = "fan" /\ Unlocked
  /\ fanned' = fanned \o Data(s)
  /\ attachBuf' = IF attachOut = <<>> /\ ~attachBufFlushed THEN attachBuf \o Data(s) ELSE attachBuf
  /\ loop' = [loop EXCEPT ![s] = IF attachOut = <<>> THEN Sent(@) ELSE Sending(@)]
  /\ UNCHANGED <<logVars, outVars, pipeVars, attachOut, attachBufFlushed, client, unread, got, first>>

\* The write fails if the client is gone, and waits for room if it is not.
Send(s) ==
  /\ loop[s].at = "sending"
  /\ LET c == Head(loop[s].todo) IN
     \/ /\ client[c] = "attached" /\ unread[c] < ConnSize
        /\ got' = [got EXCEPT ![c] = @ \o Data(s)]
        /\ unread' = [unread EXCEPT ![c] = @ + 1]
     \/ /\ client[c] = "gone"
        /\ UNCHANGED <<got, unread>>
  /\ LET rest == [loop[s] EXCEPT !.todo = Tail(@)] IN
     loop' = [loop EXCEPT ![s] = IF rest.todo = <<>> THEN Sent(rest) ELSE rest]
  /\ UNCHANGED <<logVars, outVars, pipeVars>>
  /\ UNCHANGED <<attachOut, attachBuf, attachBufFlushed, client, fanned, first>>

-----------------------------------------------------------------------------
(* Attach.  Manager.active keeps the container after its exit, so a client may
   come late.                                                                *)

\* Mutation: the replayed output stays in the buffer.
AddAttachWriterKeepsBuf(c) ==
  /\ client[c] = "new" /\ phase = "up" /\ Unlocked
  /\ client' = [client EXCEPT ![c] = "attached"]
  /\ attachOut' = Append(attachOut, c)
  /\ IF attachBuf = <<>> THEN UNCHANGED <<attachBufFlushed, got, unread>>
     ELSE /\ attachBufFlushed' = TRUE
          /\ got' = [got EXCEPT ![c] = attachBuf]
          /\ unread' = [unread EXCEPT ![c] = 1]
  /\ first' = IF first = NoClient THEN c ELSE first
  /\ UNCHANGED <<logVars, outVars, pipeVars, loop, fanned, attachBuf>>

\* Mutation: early output is not replayed.
AddAttachWriterNoReplay(c) ==
  /\ client[c] = "new" /\ phase = "up" /\ Unlocked
  /\ client' = [client EXCEPT ![c] = "attached"]
  /\ attachOut' = Append(attachOut, c)
  /\ attachBuf' = <<>> /\ attachBufFlushed' = TRUE
  /\ first' = IF first = NoClient THEN c ELSE first
  /\ UNCHANGED <<logVars, outVars, pipeVars, loop, fanned, got, unread>>

AddAttachWriter(c) ==
  /\ client[c] = "new" /\ phase = "up" /\ Unlocked
  /\ client' = [client EXCEPT ![c] = "attached"]
  /\ attachOut' = Append(attachOut, c)
  /\ attachBuf' = <<>>
  /\ IF attachBuf = <<>> THEN UNCHANGED <<attachBufFlushed, got, unread>>
     ELSE /\ attachBufFlushed' = TRUE
          /\ got' = [got EXCEPT ![c] = attachBuf]
          /\ unread' = [unread EXCEPT ![c] = 1]
  /\ first' = IF first = NoClient THEN c ELSE first
  /\ UNCHANGED <<logVars, outVars, pipeVars, loop, fanned>>

ClientReads(c) ==
  /\ client[c] = "attached" /\ unread[c] > 0
  /\ unread' = [unread EXCEPT ![c] = @ - 1]
  /\ UNCHANGED <<logVars, outVars, pipeVars, loop>>
  /\ UNCHANGED <<attachOut, attachBuf, attachBufFlushed, client, got, fanned, first>>

ClientGoes(c) ==
  /\ client[c] = "attached"
  /\ client' = [client EXCEPT ![c] = "gone"]
  /\ UNCHANGED <<logVars, outVars, pipeVars, loop>>
  /\ UNCHANGED <<attachOut, attachBuf, attachBufFlushed, unread, got, fanned, first>>

\* ac.done is closed by HandleExit only, after Close.
Done == closing = "done" /\ phase # "failed"

\* With stdin the end of the client's input is enough, be it gone or not.
RemoveAttachWriter(c) ==
  /\ client[c] \in {"attached", "gone"} /\ Unlocked
  /\ Done \/ c \in Interactive
  /\ client' = [client EXCEPT ![c] = "left"]
  /\ \E i \in DOMAIN attachOut : attachOut[i] = c /\ attachOut' = RemoveAt(attachOut, i)
  /\ UNCHANGED <<logVars, outVars, pipeVars, loop>>
  /\ UNCHANGED <<attachBuf, attachBufFlushed, unread, got, fanned, first>>

-----------------------------------------------------------------------------
(* Close, from HandleExit *)

CloseStart ==
  /\ phase = "up" /\ ~alive /\ closing = "no"
  /\ closing' = "waiting"
  /\ UNCHANGED <<logVars, setup, phase, alive, daemonEnds, pipeVars, loop, fanVars>>

\* Mutation: the loops are not waited for.
CloseEndAtOnce ==
  /\ closing = "waiting"
  /\ closing' = "done" /\ driver' = "closed"
  /\ UNCHANGED <<files, logged, dropped, rotations, reader>>
  /\ UNCHANGED <<setup, phase, alive, daemonEnds, pipeVars, loop, fanVars>>

CloseEnd ==
  /\ closing = "waiting"
  /\ \A s \in Streams : loop[s].at \in {"off", "gone"}
  /\ closing' = "done" /\ driver' = "closed"
  /\ UNCHANGED <<files, logged, dropped, rotations, reader>>
  /\ UNCHANGED <<setup, phase, alive, daemonEnds, pipeVars, loop, fanVars>>

-----------------------------------------------------------------------------
LoopNext(s) == Read(s) \/ ReadError(s) \/ LogLine(s) \/ FanOut(s) \/ Send(s)

ClientNext(c) ==
  AddAttachWriter(c) \/ ClientReads(c) \/ ClientGoes(c) \/ RemoveAttachWriter(c)

Next ==
  \/ Created \/ Registered \/ StartFails
  \/ \E s \in Streams : ProgramWrites(s) \/ LoopNext(s)
  \/ ProgramEnds
  \/ \E c \in setup.clients : ClientNext(c)
  \/ CloseStart \/ CloseEnd
  \/ (\E r \in setup.readers : ReaderNext(r)) /\ UNCHANGED <<outVars, pipeVars, loop, fanVars>>

Spec == Init /\ [][Next]_vars

\* Goroutines go on; nothing is asked of the program or of the clients.
FairSpec ==
  /\ Spec
  /\ \A s \in {"stdout", "stderr"} : WF_vars(s \in Streams /\ LoopNext(s))
  /\ WF_vars(CloseStart) /\ WF_vars(CloseEnd)

-----------------------------------------------------------------------------
(* Properties *)

\* Pieces the loop has and has not logged yet
Unlogged(s) ==
  IF loop[s].at \in (IF tty THEN {"read", "log", "fan", "sending"} ELSE {"read", "log"})
  THEN Len(loop[s].line) ELSE 0

\* The log has, stream by stream, every piece that was read, once and in order,
\* the last line too when it has no end; but for entries Log failed on.
LogFaithful ==
  \A s \in Streams :
    LET read == wrote[s] - Len(pipe[s]) - Unlogged(s)
        failed == UNION {ToSet(e.line) : e \in {d \in dropped : d.s = s}}
        lines == {k \in DOMAIN logged : logged[k].s = s}
        Piece(k, i) == logged[k].line[i]
    IN  /\ UNION {ToSet(logged[k].line) : k \in lines} = (1..read) \ failed
        /\ \A k, l \in lines : \A i \in DOMAIN logged[k].line, j \in DOMAIN logged[l].line :
             k < l \/ (k = l /\ i < j) => Piece(k, i) < Piece(l, j)

\* What a client is sent is a part of the container's output without a hole, in
\* the one order that all clients see, and reaches to the end of it while the
\* client is attached.
AttachContiguous ==
  \A c \in Clients : LET n == Len(got[c]) IN
    \E i \in 0..(Len(fanned) - n) :
      /\ got[c] = SubSeq(fanned, i + 1, i + n)
      /\ n > 0 /\ client[c] = "attached" /\ Unlocked => i + n = Len(fanned)

\* The first client to attach gets the output from its very beginning.
EarlyOutputKept ==
  /\ first = NoClient => attachBuf = fanned
  /\ first # NoClient => IsPrefix(got[first], fanned)

Drained == \A s \in Streams : pipe[s] = <<>> /\ Unlogged(s) = 0

\* Without a TTY nothing the program wrote is left behind: Close waits until it
\* has been taken from the pipes and logged, or Log failed on it.
PipesDrained == ~tty /\ closing = "done" => Drained

\* A client that has its connection full and does not read.
Stuck(c) == client[c] = "attached" /\ unread[c] = ConnSize

\* Once nobody can write any more Close comes back, so that HandleExit can go
\* on, unless a client that stays attached never reads again.
CloseReturns ==
  (\A c \in Clients : []<>~Stuck(c)) => (closing = "waiting" /\ ~alive ~> closing = "done")

=============================================================================
