------------------------- MODULE ExecSessionsProofs -------------------------
(***************************************************************************)
(* For any sessions and any requests: a session is run once, the code it   *)
(* shows is final once it is the process's own, and a start that returns   *)
(* without an error has given its client all the output.                   *)
(***************************************************************************)
EXTENDS ExecSessions, TLAPS

Before == {"taken", "spec", "start", "pty", "mark"}

(* A request past the critical section of Take owns its session.  Until it  *)
(* has marked it running nobody has given it a code; until it finishes, at  *)
(* most cleanup has.                                                        *)
Owns == \A c \in Callers : Running(c) => session[Mine(c)].started
Fresh == \A c \in Callers : caller[c].pc \in Before =>
           ~session[Mine(c)].running /\ session[Mine(c)].exit = "nil"
Pending == \A c \in Callers : caller[c].pc \in {"waiting", "copies"} => session[Mine(c)].exit \in {"nil", "-1"}
Unstarted == \A e \in Sessions : ~session[e].started => ~session[e].running /\ session[e].exit = "nil"
Settled == \A e \in Sessions : session[e].exit # "nil" => ~session[e].running

IInv == TypeOK /\ StartedOnce /\ Owns /\ Fresh /\ Pending /\ Unstarted /\ Settled

SessionType == [pc : {"none", "checked", "made"}, started : BOOLEAN, running : BOOLEAN,
                exit : Codes \cup {"nil", "-1"}, pty : BOOLEAN]
CallerPCs == {"idle", "called", "taken", "spec", "start", "pty", "mark", "waiting", "copies", "done", "failed"}
CallerType == [pc : CallerPCs, e : Sessions, conn : BOOLEAN, in : {"open", "over"}, out : {"open", "gone"}]

LEMMA InitIInv == Init => IInv
<1> SUFFICES ASSUME Init PROVE IInv
  OBVIOUS
<1>1. TypeOK
  <2>1. (CHOOSE e \in Sessions : TRUE) \in Sessions
    BY SomeSession
  <2>2. /\ cont \in [status : {"running", "exited", "gone"}, alive : BOOLEAN, runs : 1 .. MaxRuns]
        /\ exiting \in [pc : {"idle", "cleanup"}, todo : SUBSET Sessions]
        /\ output \in [Sessions -> [made : 0 .. MaxOut, sent : 0 .. MaxOut]]
    BY BoundsAssumption DEF Init
  <2>3. caller \in [Callers -> CallerType]
    BY <2>1 DEF Init, CallerType, CallerPCs
  <2>4. session \in [Sessions -> SessionType]
    BY DEF Init, SessionType
  <2>5. proc \in [Sessions -> [state : {"none", "alive", "exited", "reaped", "waited"}, code : Codes \cup {"-1"}]]
    BY DEF Init, Codes
  <2> QED BY <2>2, <2>3, <2>4, <2>5 DEF Init, TypeOK, CallerType, CallerPCs, SessionType
<1>2. StartedOnce /\ Owns /\ Fresh /\ Pending
  BY DEF Init, StartedOnce, Owns, Fresh, Pending, Running, Before
<1>3. Unstarted /\ Settled
  BY DEF Init, Unstarted, Settled
<1> QED BY <1>1, <1>2, <1>3 DEF IInv

LEMMA SessionTypes ==
  ASSUME NEW e \in Sessions, session \in [Sessions -> SessionType]
  PROVE  /\ \A pc \in {"checked", "made"} : [session EXCEPT ![e].pc = pc] \in [Sessions -> SessionType]
         /\ [session EXCEPT ![e].started = TRUE] \in [Sessions -> SessionType]
         /\ [session EXCEPT ![e].running = TRUE, ![e].pty = TRUE] \in [Sessions -> SessionType]
         /\ [session EXCEPT ![e].running = TRUE, ![e].pty = FALSE] \in [Sessions -> SessionType]
         /\ [session EXCEPT ![e].running = FALSE, ![e].exit = "-1"] \in [Sessions -> SessionType]
         /\ \A code \in Codes \cup {"-1"} :
              [session EXCEPT ![e] = [pc |-> @.pc, started |-> @.started, running |-> FALSE, exit |-> code, pty |-> FALSE]] \in [Sessions -> SessionType]
<1>1. \A pc \in {"checked", "made"} : [session EXCEPT ![e].pc = pc] \in [Sessions -> SessionType]
  BY DEF SessionType
<1>2. [session EXCEPT ![e].started = TRUE] \in [Sessions -> SessionType]
  BY DEF SessionType
<1>3. [session EXCEPT ![e].running = TRUE, ![e].pty = TRUE] \in [Sessions -> SessionType]
  BY DEF SessionType
<1>6. [session EXCEPT ![e].running = TRUE, ![e].pty = FALSE] \in [Sessions -> SessionType]
  BY DEF SessionType
<1>4. [session EXCEPT ![e].running = FALSE, ![e].exit = "-1"] \in [Sessions -> SessionType]
  BY DEF SessionType
<1>5. \A code \in Codes \cup {"-1"} :
        [session EXCEPT ![e] = [pc |-> @.pc, started |-> @.started, running |-> FALSE, exit |-> code, pty |-> FALSE]] \in [Sessions -> SessionType]
  BY DEF SessionType
<1> QED BY <1>1, <1>2, <1>3, <1>4, <1>5, <1>6, Zenon

LEMMA CallerTypes ==
  ASSUME NEW c \in Callers, caller \in [Callers -> CallerType]
  PROVE  /\ \A pc \in CallerPCs : [caller EXCEPT ![c].pc = pc] \in [Callers -> CallerType]
         /\ \A e \in Sessions : /\ [caller EXCEPT ![c] = [pc |-> "called", e |-> e, conn |-> TRUE, in |-> "open", out |-> "open"]] \in [Callers -> CallerType]
                               /\ [caller EXCEPT ![c] = [pc |-> "called", e |-> e, conn |-> FALSE, in |-> "open", out |-> "open"]] \in [Callers -> CallerType]
         /\ [caller EXCEPT ![c].in = "over"] \in [Callers -> CallerType]
         /\ [caller EXCEPT ![c].in = "over", ![c].out = "gone"] \in [Callers -> CallerType]
         /\ Mine(c) \in Sessions
<1>1. \A pc \in CallerPCs : [caller EXCEPT ![c].pc = pc] \in [Callers -> CallerType]
  BY DEF CallerType
<1>2. ASSUME NEW e \in Sessions
      PROVE  /\ [caller EXCEPT ![c] = [pc |-> "called", e |-> e, conn |-> TRUE, in |-> "open", out |-> "open"]] \in [Callers -> CallerType]
             /\ [caller EXCEPT ![c] = [pc |-> "called", e |-> e, conn |-> FALSE, in |-> "open", out |-> "open"]] \in [Callers -> CallerType]
  <2>1. [caller EXCEPT ![c] = [pc |-> "called", e |-> e, conn |-> TRUE, in |-> "open", out |-> "open"]] \in [Callers -> CallerType]
    BY DEF CallerType, CallerPCs
  <2>2. [caller EXCEPT ![c] = [pc |-> "called", e |-> e, conn |-> FALSE, in |-> "open", out |-> "open"]] \in [Callers -> CallerType]
    BY DEF CallerType, CallerPCs
  <2> QED BY <2>1, <2>2
<1>3. [caller EXCEPT ![c].in = "over"] \in [Callers -> CallerType]
  BY DEF CallerType
<1>4. [caller EXCEPT ![c].in = "over", ![c].out = "gone"] \in [Callers -> CallerType]
  BY DEF CallerType
<1>5. Mine(c) \in Sessions
  BY DEF CallerType, Mine
<1> QED BY <1>1, <1>2, <1>3, <1>4, <1>5, Zenon

ProcType == [state : {"none", "alive", "exited", "reaped", "waited"}, code : Codes \cup {"-1"}]
OutType == [made : 0 .. MaxOut, sent : 0 .. MaxOut]

LEMMA ProcTypes ==
  ASSUME NEW e \in Sessions, proc \in [Sessions -> ProcType]
  PROVE  /\ \A st \in {"alive", "waited", "reaped"} : [proc EXCEPT ![e].state = st] \in [Sessions -> ProcType]
         /\ \A d \in Codes : [proc EXCEPT ![e] = [state |-> "exited", code |-> d]] \in [Sessions -> ProcType]
         /\ \A d \in Codes \cup {"-1"} : [proc EXCEPT ![e] = [state |-> "waited", code |-> d]] \in [Sessions -> ProcType]
         /\ proc[e].code \in Codes \cup {"-1"}
BY DEF ProcType

LEMMA NextType == TypeOK /\ [Next]_vars => TypeOK'
<1> SUFFICES ASSUME TypeOK, [Next]_vars PROVE TypeOK'
  OBVIOUS
<1> DEFINE ContOK == cont \in [status : {"running", "exited", "gone"}, alive : BOOLEAN, runs : 1 .. MaxRuns]
           ExitingOK == exiting \in [pc : {"idle", "cleanup"}, todo : SUBSET Sessions]
           ConfigOK == config \in [Sessions -> [tty : BOOLEAN, stdin : BOOLEAN]]
           SessionOK == session \in [Sessions -> SessionType]
           CallerOK == caller \in [Callers -> CallerType]
           ProcOK == proc \in [Sessions -> ProcType]
           OutputOK == output \in [Sessions -> OutType]
           Goal == (ContOK /\ ExitingOK /\ ConfigOK /\ SessionOK /\ CallerOK /\ ProcOK /\ OutputOK)'
<1>0. ContOK /\ ExitingOK /\ ConfigOK /\ SessionOK /\ CallerOK /\ ProcOK /\ OutputOK
  BY DEF TypeOK, SessionType, CallerType, CallerPCs, ProcType, OutType
<1>1. ASSUME NEW c \in Callers
      PROVE  /\ \A pc \in CallerPCs : To(c, pc) => CallerOK'
             /\ Mine(c) \in Sessions
  <2>1. ASSUME NEW pc \in CallerPCs, To(c, pc) PROVE CallerOK'
    <3>1. [caller EXCEPT ![c].pc = pc] \in [Callers -> CallerType]
      BY <1>0, CallerTypes
    <3> QED BY <2>1, <3>1 DEF To
  <2>2. Mine(c) \in Sessions
    BY <1>0, CallerTypes
  <2> QED BY <2>1, <2>2
<1>2. {"taken", "spec", "start", "pty", "mark", "waiting", "copies", "done", "failed"} \subseteq CallerPCs
  BY DEF CallerPCs
<1>3. ASSUME NEW c \in Callers, Take(c) PROVE Goal
  <2>1. CallerOK'
    BY <1>1, <1>2, <1>3 DEF Take
  <2>2. SessionOK'
    BY <1>0, <1>1, <1>3, SessionTypes DEF Take
  <2> QED BY <1>0, <1>3, <2>1, <2>2 DEF Take
<1>4. ASSUME NEW c \in Callers, LookupActive(c) \/ WriteSpec(c) PROVE Goal
  <2>1. CallerOK'
    BY <1>1, <1>2, <1>4 DEF LookupActive, WriteSpec
  <2> QED BY <1>0, <1>4, <2>1 DEF LookupActive, WriteSpec
<1>5. ASSUME NEW c \in Callers, StartCmd(c) \/ ReceivePTY(c) PROVE Goal
  <2>1. CallerOK'
    BY <1>1, <1>2, <1>5 DEF StartCmd, ReceivePTY
  <2>2. ProcOK'
    <3>0. /\ [proc EXCEPT ![Mine(c)].state = "alive"] \in [Sessions -> ProcType]
          /\ [proc EXCEPT ![Mine(c)].state = "waited"] \in [Sessions -> ProcType]
      BY <1>0, <1>1, ProcTypes
    <3>1. CASE StartCmd(c)
      BY <1>0, <3>0, <3>1 DEF StartCmd
    <3>2. CASE ReceivePTY(c)
      BY <1>0, <3>0, <3>2 DEF ReceivePTY
    <3> QED BY <1>5, <3>1, <3>2
  <2> QED BY <1>0, <1>5, <2>1, <2>2 DEF StartCmd, ReceivePTY
<1>6. ASSUME NEW c \in Callers, Mark(c) PROVE Goal
  <2>1. CallerOK'
    BY <1>1, <1>2, <1>6 DEF Mark
  <2>2. config[Mine(c)].tty = TRUE \/ config[Mine(c)].tty = FALSE
    BY <1>0, <1>1
  <2>4. /\ [session EXCEPT ![Mine(c)].running = TRUE, ![Mine(c)].pty = TRUE] \in [Sessions -> SessionType]
        /\ [session EXCEPT ![Mine(c)].running = TRUE, ![Mine(c)].pty = FALSE] \in [Sessions -> SessionType]
    BY <1>0, <1>1, SessionTypes
  <2>3. SessionOK'
    BY <1>6, <2>2, <2>4 DEF Mark
  <2> QED BY <1>0, <1>6, <2>1, <2>3 DEF Mark
<1>7. ASSUME NEW c \in Callers, Wait(c) PROVE Goal
  <2>1. CallerOK'
    BY <1>1, <1>2, <1>7 DEF Wait
  <2>2. ProcOK'
    BY <1>0, <1>1, <1>7, ProcTypes DEF Wait
  <2> QED BY <1>0, <1>7, <2>1, <2>2 DEF Wait
<1>8. ASSUME NEW c \in Callers, Finish(c) PROVE Goal
  <2>1. CallerOK'
    BY <1>1, <1>2, <1>8 DEF Finish
  <2>2. proc[Mine(c)].code \in Codes \cup {"-1"}
    BY <1>0, <1>1, ProcTypes
  <2>3. SessionOK'
    <3>1. PICK d \in Codes \cup {"-1"} :
            session' = [session EXCEPT ![Mine(c)] = [pc |-> @.pc, started |-> @.started, running |-> FALSE,
                                                     exit |-> d, pty |-> FALSE]]
      BY <1>8, <2>2 DEF Finish
    <3> QED BY <1>0, <1>1, <3>1, SessionTypes
  <2> QED BY <1>0, <1>8, <2>1, <2>3 DEF Finish
<1>9. ASSUME NEW c \in Callers, EndInput(c) \/ HangUp(c) PROVE Goal
  <2>1. CallerOK'
    <3>1. CASE EndInput(c)
      BY <1>0, <3>1, CallerTypes DEF EndInput
    <3>2. CASE HangUp(c)
      BY <1>0, <3>2, CallerTypes DEF HangUp
    <3> QED BY <1>9, <3>1, <3>2
  <2> QED BY <1>0, <1>9, <2>1 DEF EndInput, HangUp
<1>10. ASSUME NEW c \in Callers, NEW e \in Sessions, Request(c, e) PROVE Goal
  <2>1. CallerOK'
    <3>1. PICK b \in BOOLEAN :
            caller' = [caller EXCEPT ![c] = [pc |-> "called", e |-> e, conn |-> b, in |-> "open", out |-> "open"]]
      BY <1>10 DEF Request
    <3>2. CASE b = TRUE
      BY <1>0, <3>1, <3>2, CallerTypes
    <3>3. CASE b = FALSE
      BY <1>0, <3>1, <3>3, CallerTypes
    <3> QED BY <3>2, <3>3
  <2> QED BY <1>0, <1>10, <2>1 DEF Request
<1>11. ASSUME NEW c \in Callers, Copy(c) PROVE Goal
  <2>1. OutputOK'
    BY <1>0, <1>1, <1>11, BoundsAssumption DEF Copy, OutType
  <2> QED BY <1>0, <1>11, <2>1 DEF Copy
<1>12. ASSUME NEW e \in Sessions, CreateCheck(e) \/ CreateInsert(e) PROVE Goal
  <2>1. SessionOK'
    <3>1. CASE CreateCheck(e)
      BY <1>0, <3>1, SessionTypes DEF CreateCheck
    <3>2. CASE CreateInsert(e)
      BY <1>0, <3>2, SessionTypes DEF CreateInsert
    <3> QED BY <1>12, <3>1, <3>2
  <2> QED BY <1>0, <1>12, <2>1 DEF CreateCheck, CreateInsert
<1>13. ASSUME NEW e \in Sessions, Write(e) PROVE Goal
  <2>1. OutputOK'
    BY <1>0, <1>13, BoundsAssumption DEF Write, OutType
  <2> QED BY <1>0, <1>13, <2>1 DEF Write
<1>14. ASSUME NEW e \in Sessions, Ends(e) \/ Reap(e) PROVE Goal
  <2>1. ProcOK'
    <3>1. CASE Ends(e)
      <4>1. PICK d \in Codes : proc' = [proc EXCEPT ![e] = [state |-> "exited", code |-> d]]
        BY <3>1 DEF Ends
      <4>2. \A k \in Codes : [proc EXCEPT ![e] = [state |-> "exited", code |-> k]] \in [Sessions -> ProcType]
        BY <1>0, ProcTypes
      <4> QED BY <4>1, <4>2
    <3>0. [proc EXCEPT ![e].state = "reaped"] \in [Sessions -> ProcType]
      BY <1>0, ProcTypes
    <3>2. CASE Reap(e)
      <4>1. proc' = [proc EXCEPT ![e].state = "reaped"]
        BY <3>2 DEF Reap
      <4> QED BY <3>0, <4>1
    <3> QED BY <1>14, <3>1, <3>2
  <2> QED BY <1>0, <1>14, <2>1 DEF Ends, Reap
<1>15. ASSUME NEW e \in Sessions, Cleanup(e) PROVE Goal
  <2>1. SessionOK'
    BY <1>0, <1>15, SessionTypes DEF Cleanup
  <2>2. ExitingOK'
    BY <1>0, <1>15 DEF Cleanup
  <2> QED BY <1>0, <1>15, <2>1, <2>2 DEF Cleanup
<1>16. ASSUME Dies \/ RecordExit \/ Restart \/ Remove PROVE Goal
  <2>1. ContOK'
    <3>1. CASE Dies
      BY <1>0, <3>1 DEF Dies
    <3>2. CASE RecordExit
      BY <1>0, <3>2 DEF RecordExit
    <3>3. CASE Restart
      BY <1>0, <3>3, BoundsAssumption DEF Restart
    <3>4. CASE Remove
      BY <1>0, <3>4 DEF Remove
    <3> QED BY <1>16, <3>1, <3>2, <3>3, <3>4
  <2>2. ExitingOK'
    BY <1>0, <1>16 DEF Dies, RecordExit, Restart, Remove
  <2> QED BY <1>0, <1>16, <2>1, <2>2 DEF Dies, RecordExit, Restart, Remove
<1>17. ASSUME Notice PROVE Goal
  BY <1>0, <1>17 DEF Notice
<1>18. ASSUME UNCHANGED vars PROVE Goal
  BY <1>0, <1>18 DEF vars
<1>19. Goal
  BY <1>3, <1>4, <1>5, <1>6, <1>7, <1>8, <1>9, <1>10, <1>11, <1>12, <1>13, <1>14, <1>15, <1>16, <1>17, <1>18
  DEF Next, Server, Client, HandleExit
<1> QED BY <1>19 DEF TypeOK, SessionType, CallerType, CallerPCs, ProcType, OutType

(* What the invariant needs to know of a step: who moves, and how far.      *)

LEMMA NextOwns == IInv /\ [Next]_vars => (StartedOnce /\ Owns /\ Fresh /\ Pending /\ Unstarted /\ Settled)'
<1> SUFFICES ASSUME IInv, [Next]_vars
             PROVE  (StartedOnce /\ Owns /\ Fresh /\ Pending /\ Unstarted /\ Settled)'
  OBVIOUS
<1> DEFINE Inv == StartedOnce /\ Owns /\ Fresh /\ Pending /\ Unstarted /\ Settled
<1>0. session \in [Sessions -> SessionType] /\ caller \in [Callers -> CallerType]
  BY DEF IInv, TypeOK, SessionType, CallerType, CallerPCs
<1>1. \A c \in Callers : Mine(c) \in Sessions
  BY <1>0, CallerTypes
<1> USE DEF IInv, StartedOnce, Owns, Fresh, Pending, Unstarted, Settled, Running, Before, Mine, At, To
<1>2. ASSUME NEW c \in Callers, Take(c) PROVE Inv'
  BY <1>0, <1>1, <1>2 DEF Take, SessionType, CallerType
<1>3. ASSUME NEW c \in Callers, LookupActive(c) \/ WriteSpec(c) \/ StartCmd(c) \/ ReceivePTY(c) PROVE Inv'
  BY <1>0, <1>1, <1>3 DEF LookupActive, WriteSpec, StartCmd, ReceivePTY, CallerType
<1>4. ASSUME NEW c \in Callers, Mark(c) PROVE Inv'
  <2>1. /\ caller[c].pc = "mark" /\ Mine(c) \in Sessions
        /\ session[Mine(c)].exit = "nil" /\ session[Mine(c)].started
    BY <1>0, <1>1, <1>4 DEF Mark
  <2>2. ASSUME NEW e \in Sessions
        PROVE  /\ session'[e].started = session[e].started /\ session'[e].exit = session[e].exit
               /\ e # Mine(c) => session'[e] = session[e]
    BY <1>0, <2>1, <1>4 DEF Mark, SessionType
  <2>3. ASSUME NEW d \in Callers
        PROVE  /\ caller'[d].e = caller[d].e
               /\ d # c => caller'[d] = caller[d]
               /\ d = c => caller'[d].pc = "waiting"
    BY <1>0, <1>4 DEF Mark, CallerType
  <2>4. \A d \in Callers : d # c /\ Running(d) => Mine(d) # Mine(c)
    BY <2>1
  <2>5. StartedOnce' /\ Owns'
    BY <1>1, <2>1, <2>2, <2>3
  <2>6. Fresh' /\ Pending'
    BY <1>1, <2>1, <2>2, <2>3, <2>4
  <2>7. Unstarted' /\ Settled'
    BY <2>1, <2>2
  <2> QED BY <2>5, <2>6, <2>7
<1>5. ASSUME NEW c \in Callers, Wait(c) PROVE Inv'
  BY <1>0, <1>1, <1>5 DEF Wait, CallerType
<1>6. ASSUME NEW c \in Callers, Finish(c) PROVE Inv'
  BY <1>0, <1>1, <1>6 DEF Finish, SessionType, CallerType
<1>7. ASSUME NEW c \in Callers, EndInput(c) \/ HangUp(c) PROVE Inv'
  BY <1>0, <1>1, <1>7, SMTT(30) DEF EndInput, HangUp, CallerType
<1>8. ASSUME NEW c \in Callers, NEW e \in Sessions, Request(c, e) PROVE Inv'
  BY <1>0, <1>1, <1>8 DEF Request, CallerType
<1>9. ASSUME NEW e \in Sessions, CreateCheck(e) \/ CreateInsert(e) PROVE Inv'
  <2>1. UNCHANGED caller
    BY <1>9 DEF CreateCheck, CreateInsert
  <2>2. ASSUME NEW d \in Sessions
        PROVE  /\ session'[d].started = session[d].started /\ session'[d].exit = session[d].exit
               /\ session'[d].running = session[d].running
    BY <1>0, <1>9 DEF CreateCheck, CreateInsert, SessionType
  <2> QED BY <1>1, <2>1, <2>2
<1>10. ASSUME NEW e \in Sessions, Cleanup(e) PROVE Inv'
  <2>1. UNCHANGED caller
    BY <1>10 DEF Cleanup
  <2>2. ASSUME NEW d \in Sessions
        PROVE  /\ session'[d].started = session[d].started
               /\ \/ session'[d] = session[d]
                  \/ session[d].running /\ ~session'[d].running /\ session'[d].exit = "-1"
    BY <1>0, <1>10 DEF Cleanup, SessionType
  <2> QED BY <1>1, <2>1, <2>2
<1>11. CASE UNCHANGED <<session, caller>>
  BY <1>11
<1> QED
  BY <1>2, <1>3, <1>4, <1>5, <1>6, <1>7, <1>8, <1>9, <1>10, <1>11
  DEF Next, Server, Client, HandleExit, Copy, Write, Ends, Reap, Dies, Notice, RecordExit, Restart, Remove, vars

LEMMA Invariance == Spec => []IInv
<1>1. IInv /\ [Next]_vars => IInv'
  BY NextType, NextOwns DEF IInv
<1> QED BY <1>1, InitIInv, PTL DEF Spec

\* Sessions, requests, the process and its output keep their types.
THEOREM TypeCorrect == Spec => []TypeOK
<1>1. IInv => TypeOK
  BY DEF IInv
<1> QED BY <1>1, Invariance, PTL

\* However many requests race, a session is run by one (exec.go:89-96).
THEOREM RunOnce == Spec => []StartedOnce
<1>1. IInv => StartedOnce
  BY DEF IInv
<1> QED BY <1>1, Invariance, PTL

\* A code that is shown and is the process's own is shown for good, and a
\* session that shows one never runs again (exec.go:229-251, 315-331).
THEOREM CodesSettle == Spec => CodeSettles
<1> DEFINE Step == \A e \in Sessions : Inspect(e).exit # "nil" =>
                     /\ ~Inspect(e)'.running
                     /\ Inspect(e)'.exit # Inspect(e).exit => Inspect(e).exit = "-1"
<1>1. IInv /\ [Next]_vars => [Step]_vars
  <2> SUFFICES ASSUME IInv, Next, NEW e \in Sessions, session[e].exit # "nil"
               PROVE  ~session'[e].running /\ (session'[e].exit # session[e].exit => session[e].exit = "-1")
    BY DEF Inspect
  <2>0. session \in [Sessions -> SessionType] /\ caller \in [Callers -> CallerType]
    BY DEF IInv, TypeOK, SessionType, CallerType, CallerPCs
  <2>1. ~session[e].running
    BY DEF IInv, Settled
  <2>2. ASSUME NEW c \in Callers, Take(c) PROVE session'[e].running = session[e].running /\ session'[e].exit = session[e].exit
    BY <2>0, <2>2 DEF Take, SessionType
  <2>3. ASSUME NEW c \in Callers, Mark(c) PROVE session'[e] = session[e]
    <3>1. Mine(c) # e
      BY <2>3 DEF Mark, At, IInv, Fresh, Before
    <3> QED BY <2>0, <2>3, <3>1 DEF Mark
  <2>4. ASSUME NEW c \in Callers, Finish(c)
        PROVE  ~session'[e].running /\ (session'[e].exit # session[e].exit => session[e].exit = "-1")
    <3>1. Mine(c) = e => session[e].exit = "-1"
      BY <2>4 DEF Finish, At, IInv, Pending
    <3> QED BY <2>0, <2>1, <2>4, <3>1 DEF Finish
  <2>5. ASSUME NEW d \in Sessions, CreateCheck(d) \/ CreateInsert(d)
        PROVE  session'[e].running = session[e].running /\ session'[e].exit = session[e].exit
    BY <2>0, <2>5 DEF CreateCheck, CreateInsert, SessionType
  <2>6. ASSUME NEW d \in Sessions, Cleanup(d) PROVE session'[e] = session[e]
    BY <2>0, <2>1, <2>6 DEF Cleanup
  <2>7. CASE session' = session
    BY <2>1, <2>7
  <2> QED
    BY <2>1, <2>2, <2>3, <2>4, <2>5, <2>6, <2>7
    DEF Next, Server, Client, HandleExit, LookupActive, WriteSpec, StartCmd, ReceivePTY, Wait, EndInput, HangUp, Request,
        Copy, Write, Ends, Reap, Dies, Notice, RecordExit, Restart, Remove
<1>2. Spec => [][Step]_vars
  BY <1>1, Invariance, PTL DEF Spec
<1> QED BY <1>2 DEF CodeSettles
-----------------------------------------------------------------------------
(* A process that has been waited for stays so: no other request starts one *)
(* for its session, and it writes no more.                                  *)
Collected == \A c \in Callers : caller[c].pc \in {"copies", "done"} => proc[Mine(c)].state = "waited"

LEMMA InitCollected == Init => Collected /\ OutputWhole
BY DEF Init, Collected, OutputWhole, At

LEMMA NextCollected == IInv /\ Collected /\ [Next]_vars => Collected'
<1> SUFFICES ASSUME IInv, Collected, [Next]_vars PROVE Collected'
  OBVIOUS
<1>0. caller \in [Callers -> CallerType] /\ proc \in [Sessions -> ProcType]
  BY DEF IInv, TypeOK, CallerType, CallerPCs, ProcType
<1>1. \A c \in Callers : Mine(c) \in Sessions
  BY <1>0, CallerTypes
<1> USE DEF Collected, Mine, At, To
\* Only one request of a session gets as far as its process.
<1>2. ASSUME NEW c \in Callers, StartCmd(c) \/ ReceivePTY(c) \/ Wait(c) PROVE Collected'
  <2>1. ASSUME NEW d \in Callers, d # c, caller[d].pc \in {"copies", "done"} PROVE Mine(d) # Mine(c)
    BY <1>2, <2>1 DEF StartCmd, ReceivePTY, Wait, IInv, StartedOnce, Running
  <2>2. CASE StartCmd(c)
    BY <1>0, <1>1, <2>1, <2>2 DEF StartCmd, CallerType, ProcType
  <2>3. CASE ReceivePTY(c)
    BY <1>0, <1>1, <2>1, <2>3 DEF ReceivePTY, CallerType, ProcType
  <2>4. CASE Wait(c)
    BY <1>0, <1>1, <2>1, <2>4 DEF Wait, CallerType, ProcType
  <2> QED BY <1>2, <2>2, <2>3, <2>4
<1>3. ASSUME NEW c \in Callers,
             Take(c) \/ LookupActive(c) \/ WriteSpec(c) \/ Mark(c) \/ EndInput(c) \/ HangUp(c)
      PROVE  Collected'
  BY <1>0, <1>3 DEF Take, LookupActive, WriteSpec, Mark, EndInput, HangUp, CallerType
<1>4. ASSUME NEW c \in Callers, Finish(c) PROVE Collected'
  BY <1>0, <1>4 DEF Finish, CallerType
<1>5. ASSUME NEW c \in Callers, NEW e \in Sessions, Request(c, e) PROVE Collected'
  BY <1>0, <1>5 DEF Request, CallerType
<1>6. ASSUME NEW e \in Sessions, Ends(e) \/ Reap(e) PROVE Collected'
  BY <1>0, <1>1, <1>6 DEF Ends, Reap, ProcType
<1>7. CASE UNCHANGED <<caller, proc>>
  BY <1>7
<1> QED
  BY <1>2, <1>3, <1>4, <1>5, <1>6, <1>7
  DEF Next, Server, Client, HandleExit, Copy, CreateCheck, CreateInsert, Write, Cleanup, Dies, Notice,
      RecordExit, Restart, Remove, vars

LEMMA NextWhole == IInv /\ Collected /\ OutputWhole /\ [Next]_vars => OutputWhole'
<1> SUFFICES ASSUME IInv, Collected, OutputWhole, [Next]_vars PROVE OutputWhole'
  OBVIOUS
<1>0. caller \in [Callers -> CallerType] /\ output \in [Sessions -> OutType]
  BY DEF IInv, TypeOK, CallerType, CallerPCs, OutType
<1>1. \A c \in Callers : Mine(c) \in Sessions
  BY <1>0, CallerTypes
<1> USE DEF OutputWhole, Mine, At, To, Bare, InputOver, OutputOver
<1>2. ASSUME NEW c \in Callers, Finish(c) PROVE OutputWhole'
  BY <1>0, <1>2 DEF Finish, CopiesOver, CallerType
\* The copies of a request that is done are over, and so is its process.
<1>3. ASSUME NEW c \in Callers, Copy(c) PROVE OutputWhole'
  <2>1. ASSUME NEW d \in Callers, At(d, "done") PROVE Mine(d) # Mine(c)
    BY <1>3, <2>1 DEF Copy, IInv, StartedOnce, Running
  <2> QED BY <1>0, <1>1, <1>3, <2>1 DEF Copy, OutType
<1>4. ASSUME NEW e \in Sessions, Write(e) PROVE OutputWhole'
  <2>1. ASSUME NEW d \in Callers, At(d, "done") PROVE Mine(d) # e
    BY <1>4, <2>1 DEF Write, Collected
  <2> QED BY <1>0, <1>1, <1>4, <2>1 DEF Write, OutType
<1>5. ASSUME NEW c \in Callers, EndInput(c) \/ HangUp(c) PROVE OutputWhole'
  BY <1>0, <1>5 DEF EndInput, HangUp, CallerType
<1>6. ASSUME NEW c \in Callers, NEW e \in Sessions, Request(c, e) PROVE OutputWhole'
  BY <1>0, <1>6 DEF Request, CallerType
<1>7. ASSUME NEW c \in Callers,
             \/ Take(c) \/ LookupActive(c) \/ WriteSpec(c) \/ StartCmd(c) \/ ReceivePTY(c)
             \/ Mark(c) \/ Wait(c)
      PROVE  OutputWhole'
  BY <1>0, <1>7, SMTT(30) DEF Take, LookupActive, WriteSpec, StartCmd, ReceivePTY, Mark, Wait, CallerType
<1>8. CASE UNCHANGED <<caller, config, output>>
  BY <1>8
<1> QED
  BY <1>2, <1>3, <1>4, <1>5, <1>6, <1>7, <1>8
  DEF Next, Server, Client, HandleExit, CreateCheck, CreateInsert, Ends, Reap, Cleanup, Dies, Notice,
      RecordExit, Restart, Remove, vars

\* A start that returns without an error has given its client every chunk the
\* process wrote, whoever else asks for the session and whoever reaps the
\* process; with a TTY, if the client was still sending (exec.go:173-187, 209-224).
THEOREM OutputIsWhole == Spec => []OutputWhole
<1>1. IInv /\ [Next]_vars => IInv'
  BY NextType, NextOwns DEF IInv
<1> QED BY <1>1, InitIInv, InitCollected, NextCollected, NextWhole, PTL DEF Spec

=============================================================================
