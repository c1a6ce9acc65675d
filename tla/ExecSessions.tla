---------------------------- MODULE ExecSessions ----------------------------
(***************************************************************************)
(* internal/runtime/exec.go and its handlers: exec sessions of one         *)
(* container, the requests that start them, the crun exec process of each  *)
(* session, the copies between the process and the client, the reaper that *)
(* may take the process's status first, and the part of HandleExit that    *)
(* marks the sessions of a dead container.                                 *)
(*                                                                         *)
(* Each action is what happens between two points where another goroutine  *)
(* may run: a critical section of session.mu, a system call, a copy.       *)
(***************************************************************************)
EXTENDS Naturals, FiniteSets

CONSTANTS
  Sessions,   \* the exec ids handed out
  Callers,    \* POST /exec/{id}/start requests
  MaxOut,     \* bound: chunks of output of one process
  MaxRuns     \* bound: how often the container is started

ASSUME BoundsAssumption == MaxOut \in Nat /\ MaxRuns \in Nat \ {0}
ASSUME SomeSession == Sessions # {}

VARIABLES
  cont,       \* [status, alive, runs]: record, init process, starts so far
  exiting,    \* [pc, todo]: HandleExit of the container
  config,     \* config[e]: [tty, stdin], ExecCreateRequest
  session,    \* session[e]: [pc, started, running, exit, pty], ExecSession
  caller,     \* caller[c]: [pc, e, conn, in, out], a request and its connection
  proc,       \* proc[e]: [state, code], the crun exec process
  output      \* output[e]: [made, sent], chunks written, given to the client

vars == <<cont, exiting, config, session, caller, proc, output>>

\* Exit codes as ExecInspect shows them: none yet, the -1 of cleanup and of a
\* status somebody else collected, or the process's own.
Codes == {"0", "255"}

Bare(e) == ~config[e].tty
Entry == cont.status # "gone"        \* m.active has the container until Remove
Mine(c) == caller[c].e
At(c, label) == caller[c].pc = label
To(c, label) == caller' = [caller EXCEPT ![c].pc = label]
-----------------------------------------------------------------------------
Init ==
  /\ cont = [status |-> "running", alive |-> TRUE, runs |-> 1]
  /\ exiting = [pc |-> "idle", todo |-> {}]
  /\ config \in [Sessions -> [tty : BOOLEAN, stdin : BOOLEAN]]
  /\ session = [e \in Sessions |-> [pc |-> "none", started |-> FALSE, running |-> FALSE, exit |-> "nil", pty |-> FALSE]]
  /\ caller = [c \in Callers |-> [pc |-> "idle", e |-> CHOOSE e \in Sessions : TRUE, conn |-> FALSE, in |-> "open", out |-> "open"]]
  /\ proc = [e \in Sessions |-> [state |-> "none", code |-> "0"]]
  /\ output = [e \in Sessions |-> [made |-> 0, sent |-> 0]]

(* ExecCreate: the record is read, the session inserted later.             *)

CreateCheck(e) ==
  /\ session[e].pc = "none" /\ cont.status = "running"
  /\ session' = [session EXCEPT ![e].pc = "checked"]
  /\ UNCHANGED <<cont, exiting, config, caller, proc, output>>

CreateInsert(e) ==
  /\ session[e].pc = "checked" /\ exiting.todo = {}
  /\ session' = [session EXCEPT ![e].pc = "made"]
  /\ UNCHANGED <<cont, exiting, config, caller, proc, output>>

(* ExecStart.                                                              *)

\* The handler: a detached start has no connection and answers at once.
Request(c, e) ==
  /\ At(c, "idle") /\ session[e].pc = "made"
  /\ \E conn \in BOOLEAN :
       caller' = [caller EXCEPT ![c] = [pc |-> "called", e |-> e, conn |-> conn, in |-> "open", out |-> "open"]]
  /\ UNCHANGED <<cont, exiting, config, session, proc, output>>

\* Mutant: started is looked at under the lock and set under it later.
TakeLate(c) ==
  LET e == Mine(c) IN
  /\ \/ /\ At(c, "called")
        /\ To(c, IF session[e].started THEN "failed" ELSE "taking")
        /\ UNCHANGED session
     \/ /\ At(c, "taking")
        /\ session' = [session EXCEPT ![e].started = TRUE]
        /\ To(c, "taken")
  /\ UNCHANGED <<cont, exiting, config, proc, output>>

Take(c) ==
  LET e == Mine(c) IN
  /\ At(c, "called")
  /\ session' = [session EXCEPT ![e].started = TRUE]
  /\ To(c, IF session[e].started THEN "failed" ELSE "taken")
  /\ UNCHANGED <<cont, exiting, config, proc, output>>

LookupActive(c) ==
  /\ At(c, "taken")
  /\ To(c, IF Entry THEN "spec" ELSE "failed")
  /\ UNCHANGED <<cont, exiting, config, session, proc, output>>

\* The container's config.json is read from its bundle, the process file
\* written next to it: neither works once the bundle is removed.
WriteSpec(c) ==
  /\ At(c, "spec")
  /\ \/ Entry /\ To(c, "start")
     \/ To(c, "failed")
  /\ UNCHANGED <<cont, exiting, config, session, proc, output>>

StartCmd(c) ==
  LET e == Mine(c) IN
  /\ At(c, "start")
  /\ \/ /\ proc' = [proc EXCEPT ![e].state = "alive"]
        /\ To(c, IF config[e].tty THEN "pty" ELSE "mark")
     \/ To(c, "failed") /\ UNCHANGED proc
  /\ UNCHANGED <<cont, exiting, config, session, output>>

\* The PTY arrives over the console socket, or CrunOperationTimeout passes:
\* crun is then killed and waited for.
ReceivePTY(c) ==
  LET e == Mine(c) IN
  /\ At(c, "pty")
  /\ \/ To(c, "mark") /\ UNCHANGED proc
     \/ /\ proc' = [proc EXCEPT ![e].state = "waited"]
        /\ To(c, "failed")
  /\ UNCHANGED <<cont, exiting, config, session, output>>

Mark(c) ==
  LET e == Mine(c) IN
  /\ At(c, "mark")
  /\ session' = [session EXCEPT ![e].running = TRUE, ![e].pty = config[e].tty]
  /\ To(c, "waiting")
  /\ UNCHANGED <<cont, exiting, config, proc, output>>

\* cmd.Wait collects the status unless the reaper has: then it has an error
\* that is no ExitError.
Wait(c) ==
  LET e == Mine(c) IN
  /\ At(c, "waiting") /\ proc[e].state \in {"exited", "reaped"}
  /\ proc' = [proc EXCEPT ![e] = [state |-> "waited", code |-> IF @.state = "reaped" THEN "-1" ELSE @.code]]
  /\ To(c, "copies")
  /\ UNCHANGED <<cont, exiting, config, session, output>>

OutputOver(c) == output[Mine(c)].sent = output[Mine(c)].made \/ caller[c].out = "gone"
InputOver(c) == caller[c].in = "over"

\* Mutants: the TTY's copies are not waited for, or both are.
CopiesIgnored(c) ==
  caller[c].conn /\ Bare(Mine(c)) => OutputOver(c) /\ (config[Mine(c)].stdin => InputOver(c))
CopiesBoth(c) ==
  caller[c].conn => OutputOver(c) /\ (config[Mine(c)].stdin \/ config[Mine(c)].tty => InputOver(c))

\* A TTY session waits for either of its copies; with pipes cmd.Wait itself
\* waits for all of them, stdin's too when it is attached.
CopiesOver(c) ==
  caller[c].conn =>
    IF Bare(Mine(c)) THEN OutputOver(c) /\ (config[Mine(c)].stdin => InputOver(c))
                     ELSE OutputOver(c) \/ InputOver(c)

\* finishExec; then the PTY is closed and the handler closes the connection.
\* A copy that failed, with pipes, replaces the error of a status 0: -1.
Finish(c) ==
  LET e == Mine(c)
      copyFails == Bare(e) /\ caller[c].out = "gone" /\ proc[e].code = "0" IN
  /\ At(c, "copies") /\ CopiesOver(c)
  /\ \E code \in {proc[e].code} \cup (IF copyFails THEN {"-1"} ELSE {}) :
       session' = [session EXCEPT ![e] = [pc |-> @.pc, started |-> @.started, running |-> FALSE, exit |-> code, pty |-> FALSE]]
  /\ To(c, "done")
  /\ UNCHANGED <<cont, exiting, config, proc, output>>

\* ExecInspect
Inspect(e) == [running |-> session[e].running, exit |-> session[e].exit]

(* The other side of the connection: the client.                           *)

\* It closes its half, or types once nobody reads: the copy of stdin ends.
EndInput(c) ==
  /\ caller[c].conn /\ caller[c].pc \notin {"failed", "done"} /\ ~InputOver(c)
  /\ caller' = [caller EXCEPT ![c].in = "over"]
  /\ UNCHANGED <<cont, exiting, config, session, proc, output>>

HangUp(c) ==
  /\ caller[c].conn /\ caller[c].pc \notin {"failed", "done"} /\ caller[c].out = "open"
  /\ caller' = [caller EXCEPT ![c].in = "over", ![c].out = "gone"]
  /\ UNCHANGED <<cont, exiting, config, session, proc, output>>

\* io.Copy from the PTY (once it is there) or the pipes to the client.
Copy(c) ==
  LET e == Mine(c) IN
  /\ caller[c].conn /\ caller[c].out = "open"
  /\ caller[c].pc \in {"waiting", "copies"} \/ (At(c, "mark") /\ Bare(e))
  /\ output[e].sent < output[e].made
  /\ output' = [output EXCEPT ![e].sent = @ + 1]
  /\ UNCHANGED <<cont, exiting, config, session, caller, proc>>

(* The process, and whoever collects it.                                   *)

Write(e) ==
  /\ proc[e].state = "alive" /\ cont.alive /\ output[e].made < MaxOut
  /\ output' = [output EXCEPT ![e].made = @ + 1]
  /\ UNCHANGED <<cont, exiting, config, session, caller, proc>>

\* It ends by itself, with the container, or at once when crun finds the
\* container dead.
Ends(e) ==
  /\ proc[e].state = "alive"
  /\ \E code \in Codes : proc' = [proc EXCEPT ![e] = [state |-> "exited", code |-> code]]
  /\ UNCHANGED <<cont, exiting, config, session, caller, output>>

\* reapChildren's Wait4(-1) takes any child; HandleExit knows no such pid.
Reap(e) ==
  /\ proc[e].state = "exited"
  /\ proc' = [proc EXCEPT ![e].state = "reaped"]
  /\ UNCHANGED <<cont, exiting, config, session, caller, output>>

(* The container.                                                          *)

Dies ==
  /\ cont.alive
  /\ cont' = [cont EXCEPT !.alive = FALSE]
  /\ UNCHANGED <<exiting, config, session, caller, proc, output>>

\* HandleExit, once the init process is reaped; cleanupExecSessions keeps
\* execMu until it has been through the sessions it found.
Notice ==
  /\ ~cont.alive /\ cont.status = "running" /\ exiting.pc = "idle"
  /\ exiting' = [pc |-> "cleanup", todo |-> {e \in Sessions : session[e].pc = "made"}]
  /\ UNCHANGED <<cont, config, session, caller, proc, output>>

\* Mutant: every session of the container gets the code.
CleanupAny(e) ==
  /\ exiting.pc = "cleanup" /\ e \in exiting.todo
  /\ session' = [session EXCEPT ![e].running = FALSE, ![e].exit = "-1"]
  /\ exiting' = [exiting EXCEPT !.todo = @ \ {e}]
  /\ UNCHANGED <<cont, config, caller, proc, output>>

\* cleanupExecSessions, one session.mu at a time.
Cleanup(e) ==
  /\ exiting.pc = "cleanup" /\ e \in exiting.todo
  /\ session' = IF session[e].running
                THEN [session EXCEPT ![e].running = FALSE, ![e].exit = "-1"]
                ELSE session
  /\ exiting' = [exiting EXCEPT !.todo = @ \ {e}]
  /\ UNCHANGED <<cont, config, caller, proc, output>>

RecordExit ==
  /\ exiting.pc = "cleanup" /\ exiting.todo = {}
  /\ exiting' = [exiting EXCEPT !.pc = "idle"]
  /\ cont' = [cont EXCEPT !.status = "exited"]
  /\ UNCHANGED <<config, session, caller, proc, output>>

Restart ==
  /\ cont.status = "exited" /\ cont.runs < MaxRuns
  /\ cont' = [status |-> "running", alive |-> TRUE, runs |-> cont.runs + 1]
  /\ UNCHANGED <<exiting, config, session, caller, proc, output>>

Remove ==
  /\ cont.status = "exited"
  /\ cont' = [cont EXCEPT !.status = "gone"]
  /\ UNCHANGED <<exiting, config, session, caller, proc, output>>

Server(c) ==
  Take(c) \/ LookupActive(c) \/ WriteSpec(c) \/ StartCmd(c) \/ ReceivePTY(c) \/ Mark(c) \/ Wait(c) \/ Finish(c)
Client(c) == EndInput(c) \/ HangUp(c) \/ \E e \in Sessions : Request(c, e)
HandleExit == Notice \/ RecordExit \/ \E e \in Sessions : Cleanup(e)

Next ==
  \/ \E c \in Callers : Server(c) \/ Client(c) \/ Copy(c)
  \/ \E e \in Sessions : CreateCheck(e) \/ CreateInsert(e) \/ Write(e) \/ Ends(e) \/ Reap(e)
  \/ Dies \/ HandleExit \/ Restart \/ Remove

Spec == Init /\ [][Next]_vars

\* Goroutines and copies run; crun exec does not outlive the container. No
\* client has to close anything, no process has to end.
Fairness ==
  /\ \A c \in Callers : WF_vars(Server(c)) /\ WF_vars(Copy(c))
  /\ \A e \in Sessions : WF_vars(~cont.alive /\ Ends(e))
  /\ WF_vars(HandleExit)

FairSpec == Spec /\ Fairness
-----------------------------------------------------------------------------
\* The variables have their types.
TypeOK ==
  /\ cont \in [status : {"running", "exited", "gone"}, alive : BOOLEAN, runs : 1 .. MaxRuns]
  /\ exiting \in [pc : {"idle", "cleanup"}, todo : SUBSET Sessions]
  /\ config \in [Sessions -> [tty : BOOLEAN, stdin : BOOLEAN]]
  /\ session \in [Sessions -> [pc : {"none", "checked", "made"}, started : BOOLEAN, running : BOOLEAN,
                               exit : Codes \cup {"nil", "-1"}, pty : BOOLEAN]]
  /\ caller \in [Callers -> [pc : {"idle", "called", "taken", "spec", "start", "pty", "mark", "waiting",
                                   "copies", "done", "failed"},
                             e : Sessions, conn : BOOLEAN, in : {"open", "over"}, out : {"open", "gone"}]]
  /\ proc \in [Sessions -> [state : {"none", "alive", "exited", "reaped", "waited"}, code : Codes \cup {"-1"}]]
  /\ output \in [Sessions -> [made : 0 .. MaxOut, sent : 0 .. MaxOut]]

\* Two requests never run the same session, however they interleave: the
\* check and the set of started are one critical section (exec.go:89-96).
Running(c) == caller[c].pc \in {"taken", "spec", "start", "pty", "mark", "waiting", "copies", "done"}
StartedOnce == \A c, d \in Callers : Running(c) /\ Running(d) /\ Mine(c) = Mine(d) => c = d

\* A session that shows a code has ended for good, and its code may only
\* change from the -1 of cleanup to what finishExec finds: a client that
\* polls ExecInspect and saw the process's own code never sees another
\* (exec.go:242-246 against 323-328).
CodeSettles ==
  [][\A e \in Sessions : Inspect(e).exit # "nil" =>
       /\ ~Inspect(e)'.running
       /\ Inspect(e)'.exit # Inspect(e).exit => Inspect(e).exit = "-1"]_vars

\* When ExecStart returns without an error, a client that has not stopped
\* sending has all the output; with pipes, one that has does too
\* (exec.go:173-187, 209-224).
OutputWhole ==
  \A c \in Callers :
    At(c, "done") /\ caller[c].conn /\ caller[c].out = "open" /\ (Bare(Mine(c)) \/ ~InputOver(c))
      => output[Mine(c)].sent = output[Mine(c)].made

\* A session whose process is over stops running, whatever the client does,
\* unless its stdin is a pipe the client keeps open (exec.go:205-207, 224).
HeldByClient(e) ==
  Bare(e) /\ config[e].stdin /\ \E c \in Callers : Mine(c) = e /\ At(c, "copies") /\ ~InputOver(c)
SessionsEnd ==
  \A e \in Sessions :
    (session[e].running /\ proc[e].state # "alive") ~> (~session[e].running \/ HeldByClient(e))

=============================================================================
