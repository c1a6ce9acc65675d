----------------------- MODULE ContainerLifecycleProofs -----------------------
(* What holds of ContainerLifecycle for every choice of its constants.        *)
EXTENDS ContainerLifecycle, TLAPS

-----------------------------------------------------------------------------
(* Typing.  TypeOK alone is not inductive: an exit code is read from code and *)
(* acExit at the pid a goroutine holds, which must be a pid by then.          *)

Holding == {"s_net", "s_reg", "w_done", "w_code"}

ThreadInv == ThreadOK /\ \A t \in Threads : pc[t] \in Holding => my[t] \in Pids

DaemonInv == DaemonOK /\ (rp.pc # "idle" => rp.pid \in Pids)

TypeInv == ProcOK /\ DiskOK /\ MemOK /\ ThreadInv /\ DaemonInv

LEMMA Bounds ==
  /\ MaxPid \in Nat /\ MaxCrash \in Nat
  /\ 0 \in 0..MaxPid /\ Pids \subseteq 0..MaxPid /\ Pids \subseteq Nat
  /\ Codes \subseteq Nat /\ 0 \in Codes /\ Killed \in Codes
BY ConstantsOK DEF ConstantsOK, Pids, Codes, Killed

LEMMA NoRecType == NoRec \in Record /\ Created \in Record
BY Bounds DEF NoRec, Created, Record, Statuses, NoPid

LEMMA ExitedType == ASSUME NEW r \in Record, NEW c \in Codes PROVE Exited(r, c) \in Record
BY Bounds DEF Exited, Record, Statuses, NoPid

LEMMA RunningType ==
  ASSUME NEW r \in Record, NEW n \in 0..MaxPid PROVE Running(r, n) \in Record
BY DEF Running, Record, Statuses

LEMMA StatusType ==
  ASSUME NEW r \in Record, NEW s \in Statuses, NEW b \in BOOLEAN, NEW n \in Nat
  PROVE  /\ [r EXCEPT !.status = s] \in Record
         /\ [r EXCEPT !.status = s, !.paused = b] \in Record
         /\ [r EXCEPT !.restarts = n, !.status = s] \in Record
BY DEF Record

LEMMA UpdateType == ASSUME rec \in Record, NEW r \in Record PROVE UpdateContainer(r) \in Record
BY DEF UpdateContainer

LEMMA Frame ==
  /\ ProcOK /\ UNCHANGED procVars => ProcOK'
  /\ DiskOK /\ UNCHANGED diskVars => DiskOK'
  /\ MemOK /\ UNCHANGED memVars => MemOK'
  /\ ThreadInv /\ UNCHANGED threadVars => ThreadInv'
  /\ DaemonInv /\ UNCHANGED daemonVars => DaemonInv'
BY DEF ProcOK, DiskOK, MemOK, ThreadInv, ThreadOK, DaemonInv, DaemonOK, Alive,
       procVars, diskVars, memVars, threadVars, daemonVars

\* The control-flow helpers keep the goroutines' variables typed.
LEMMA GotoType ==
  ASSUME ThreadInv, NEW t \in Threads, NEW label \in Labels, Goto(t, label),
         label \in Holding => my[t] \in Pids
  PROVE  ThreadInv'
BY DEF ThreadInv, ThreadOK, Goto, NoResult, Results

LEMMA FinishType ==
  ASSUME ThreadInv, NEW t \in Threads, NEW result \in Results, Finish(t, result)
  PROVE  ThreadInv'
BY NoRecType, Bounds DEF ThreadInv, ThreadOK, Finish, Results, Labels, Holding, NoPid, NoCode

LEMMA SnapshotType ==
  ASSUME ThreadInv, DiskOK, NEW t \in Threads, NEW label \in Labels \ Holding,
         Snapshot(t, label)
  PROVE  ThreadInv'
BY DEF ThreadInv, ThreadOK, DiskOK, Snapshot, NoResult, Results

LEMMA FinishWaitType ==
  ASSUME ThreadInv, NEW t \in Threads, NEW c \in Codes, FinishWait(t, c)
  PROVE  ThreadInv'
BY Bounds DEF ThreadInv, ThreadOK, FinishWait, Results, Labels, Holding, NoPid

LEMMA StopReturnType ==
  ASSUME ThreadInv, NEW t \in Threads, StopReturn(t)
  PROVE  ThreadInv'
BY FinishType, GotoType DEF StopReturn, Results, Labels, Holding

LEMMA KillInitType ==
  ASSUME ProcOK, KillInit, UNCHANGED <<orphans, pids>>,
         crunPid' \in {crunPid, NoPid}, frozen' \in BOOLEAN
  PROVE  ProcOK'
BY Bounds DEF ProcOK, KillInit, Alive, Corpse, NoPid

LEMMA CrunDeleteType == ASSUME ProcOK, CrunDelete PROVE ProcOK'
BY KillInitType DEF CrunDelete, NoPid

-----------------------------------------------------------------------------
(* One lemma per operation of Manager *)

LEMMA StartType ==
  ASSUME TypeInv, NEW t \in Threads, StartGet(t) \/ StartStep(t)
  PROVE  TypeInv'
<1> USE DEF TypeInv
<1>1. CASE StartGet(t)
  BY <1>1, Frame, FinishType, SnapshotType DEF StartGet, Results, Labels, Holding
<1>2. CASE StartCreate(t)
  <2>1. CASE pids' = pids
    BY <1>2, <2>1, Frame, FinishType DEF StartCreate, ProcOK, Results
  <2>2. CASE pids' # pids
    <3>1. /\ pids + 1 \in Pids /\ pids' = pids + 1 /\ crunPid' = pids + 1
          /\ frozen' = FALSE /\ proc' = [proc EXCEPT ![pids + 1] = "ready"]
          /\ UNCHANGED <<code, orphans>>
      BY <1>2, <2>2, Bounds DEF StartCreate, ProcOK, Pids, procVars
    <3>2. ProcOK'
      BY <3>1, Bounds DEF ProcOK
    <3>3. ThreadInv'
      BY <1>2, <2>2, <3>1 DEF StartCreate, ThreadInv, ThreadOK, Labels, Holding, Pids, procVars
    <3> QED BY <1>2, <3>2, <3>3, Frame DEF StartCreate
  <2> QED BY <2>1, <2>2
<1>3. CASE StartNetwork(t)
  <2>1. my[t] \in 0..MaxPid /\ my[t] \in Pids /\ snap[t] \in Record
    BY <1>3 DEF StartNetwork, At, ThreadInv, ThreadOK, Holding
  <2>2. DiskOK'
    BY <1>3, <2>1, UpdateType DEF StartNetwork, DiskOK
  <2>3. ThreadInv'
    BY <1>3, <2>1, GotoType DEF StartNetwork, Labels, Holding
  <2> QED BY <1>3, <2>2, <2>3, Frame DEF StartNetwork
<1>4. CASE StartRegister(t)
  BY <1>4, Frame, GotoType, Bounds
     DEF StartRegister, At, ThreadInv, ThreadOK, MemOK, Labels, Holding
<1>5. CASE StartRecord(t)
  BY <1>5, Frame, GotoType, UpdateType, RunningType
     DEF StartRecord, DiskOK, ThreadInv, ThreadOK, Labels, Holding
<1>6. CASE StartExec(t)
  BY <1>6, Frame, GotoType, FinishType DEF StartExec, Alive, ProcOK, Labels, Holding, Results
<1>7. CASE StartUnregister(t)
  BY <1>7, Frame, GotoType, Bounds DEF StartUnregister, MemOK, Labels, Holding, NoPid
<1>8. CASE StartUndo(t)
  BY <1>8, Frame, GotoType, CrunDeleteType DEF StartUndo, Labels, Holding
<1>9. CASE StartClose(t)
  BY <1>9, Frame, FinishType DEF StartClose, Results
<1> QED BY <1>1, <1>2, <1>3, <1>4, <1>5, <1>6, <1>7, <1>8, <1>9 DEF StartStep

LEMMA StopType ==
  ASSUME TypeInv, NEW t \in Threads,
         StopStep(t) \/ \E op \in Ops, then \in {"return", "start"} : CallStop(t, op, then)
  PROVE  TypeInv'
<1> USE DEF TypeInv
<1>1. CASE \E op \in Ops, then \in {"return", "start"} : CallStop(t, op, then)
  BY <1>1, Frame DEF CallStop, NoResult, ThreadInv, ThreadOK, Labels, Holding, Results
<1>2. CASE StopGet(t)
  BY <1>2, Frame, FinishType, GotoType, StopReturnType DEF StopGet, Results, Labels, Holding
<1>3. CASE StopResume(t)
  BY <1>3, Frame, GotoType DEF StopResume, ProcOK, Labels, Holding
<1>4. CASE StopMark(t)
  BY <1>4, Frame, GotoType DEF StopMark, MemOK, Labels, Holding
<1>5. CASE StopPick(t)
  BY <1>5, Frame DEF StopPick, ThreadInv, ThreadOK, MemOK, Labels, Holding
<1>6. CASE StopWait(t)
  BY <1>6, Frame, GotoType, StopReturnType DEF StopWait, Labels, Holding
<1>7. CASE StopKill(t)
  <2>1. ProcOK'
    BY <1>7, KillInitType DEF StopKill, ProcOK
  <2> QED BY <1>7, <2>1, Frame, GotoType DEF StopKill, Labels, Holding
<1>8. CASE StopWaitAgain(t)
  BY <1>8, Frame, GotoType DEF StopWaitAgain, Labels, Holding
<1>9. CASE StopDelete(t)
  BY <1>9, Frame, StopReturnType, CrunDeleteType DEF StopDelete
<1> QED BY <1>1, <1>2, <1>3, <1>4, <1>5, <1>6, <1>7, <1>8, <1>9 DEF StopStep

LEMMA PauseType ==
  ASSUME TypeInv, NEW t \in Threads, KillGet(t) \/ PauseGet(t) \/ UnpauseGet(t) \/ PauseStep(t)
  PROVE  TypeInv'
<1> USE DEF TypeInv
<1>1. CASE KillGet(t)
  BY <1>1, Frame, FinishType, GotoType DEF KillGet, Results, Labels, Holding
<1>2. CASE PauseGet(t)
  BY <1>2, Frame, FinishType, SnapshotType DEF PauseGet, Results, Labels, Holding
<1>3. CASE UnpauseGet(t)
  BY <1>3, Frame, FinishType, SnapshotType DEF UnpauseGet, Results, Labels, Holding
<1>4. CASE KillSend(t)
  <2>1. ProcOK'
    BY <1>4, KillInitType DEF KillSend, ProcOK
  <2> QED BY <1>4, <2>1, Frame, FinishType DEF KillSend, Results
<1>5. CASE PauseFreeze(t)
  <2>1. frozen' \in BOOLEAN
    BY <1>5 DEF PauseFreeze, Alive, ProcOK
  <2> QED BY <1>5, <2>1, Frame, FinishType, GotoType DEF PauseFreeze, ProcOK, Results, Labels, Holding
<1>6. CASE UnpauseThaw(t)
  BY <1>6, Frame, FinishType, GotoType DEF UnpauseThaw, ProcOK, Results, Labels, Holding
<1>7. CASE PauseWrite(t)
  <2>1. [snap[t] EXCEPT !.status = "paused", !.paused = TRUE] \in Record
    BY StatusType DEF ThreadInv, ThreadOK, Statuses
  <2> QED BY <1>7, <2>1, Frame, FinishType, UpdateType DEF PauseWrite, DiskOK, Results
<1>8. CASE UnpauseWrite(t)
  <2>1. [snap[t] EXCEPT !.status = "running", !.paused = FALSE] \in Record
    BY StatusType DEF ThreadInv, ThreadOK, Statuses
  <2> QED BY <1>8, <2>1, Frame, FinishType, UpdateType DEF UnpauseWrite, DiskOK, Results
<1> QED BY <1>1, <1>2, <1>3, <1>4, <1>5, <1>6, <1>7, <1>8 DEF PauseStep

LEMMA RemoveType ==
  ASSUME TypeInv, NEW t \in Threads,
         RemoveStep(t) \/ \E force \in BOOLEAN : RemoveGet(t, force)
  PROVE  TypeInv'
<1> USE DEF TypeInv
<1>1. CASE \E force \in BOOLEAN : RemoveGet(t, force)
  <2>1. ThreadInv'
    BY <1>1, FinishType, GotoType
       DEF RemoveGet, NoResult, ThreadInv, ThreadOK, Results, Labels, Holding
  <2> QED BY <1>1, <2>1, Frame DEF RemoveGet
<1>2. CASE RemoveDisconnect(t)
  BY <1>2, Frame, GotoType, Bounds DEF RemoveDisconnect, DiskOK, Labels, Holding, NoPid
<1>3. CASE RemoveDelete(t)
  BY <1>3, Frame, GotoType, CrunDeleteType DEF RemoveDelete, Labels, Holding
<1>4. CASE RemoveBundle(t)
  BY <1>4, Frame, GotoType DEF RemoveBundle, DiskOK, Labels, Holding
<1>5. CASE RemoveStore(t)
  BY <1>5, Frame, GotoType, NoRecType DEF RemoveStore, DiskOK, Labels, Holding
<1>6. CASE RemoveUnregister(t)
  BY <1>6, Frame, FinishType, Bounds DEF RemoveUnregister, MemOK, Results, NoPid
<1> QED BY <1>1, <1>2, <1>3, <1>4, <1>5, <1>6 DEF RemoveStep

LEMMA WaitType ==
  ASSUME TypeInv, NEW t \in Threads, WaitGet(t) \/ WaitStep(t) \/ WaitCancel(t)
  PROVE  TypeInv'
<1> USE DEF TypeInv
<1>1. rec.exit \in Codes /\ (pc[t] = "w_code" => acExit[my[t]] \in Codes)
  BY DEF DiskOK, Record, MemOK, ThreadInv, Holding
<1>2. CASE WaitGet(t)
  BY <1>1, <1>2, Frame, FinishType, FinishWaitType, GotoType DEF WaitGet, Results, Labels, Holding
<1>3. CASE WaitPick(t)
  BY <1>3, Frame, Bounds DEF WaitPick, ThreadInv, ThreadOK, MemOK, Labels, Holding, NoPid, Pids
<1>4. CASE WaitDone(t)
  BY <1>4, Frame, GotoType DEF WaitDone, At, ThreadInv, Labels, Holding
<1>5. CASE WaitCode(t)
  BY <1>1, <1>5, Frame, FinishWaitType DEF WaitCode, At
<1>6. CASE WaitPoll(t)
  BY <1>1, <1>6, Frame, FinishWaitType, GotoType, Bounds DEF WaitPoll, Labels, Holding
<1>7. CASE WaitCancel(t)
  BY <1>7, Frame, FinishType DEF WaitCancel, Results
<1> QED BY <1>2, <1>3, <1>4, <1>5, <1>6, <1>7 DEF WaitStep

LEMMA DaemonDiesType ==
  ASSUME TypeInv, DaemonDies, crashes' \in 0..MaxCrash PROVE TypeInv'
<1> USE DEF TypeInv
<1>1. ProcOK'
  BY Bounds DEF DaemonDies, ProcOK, Pids
<1>2. DiskOK' /\ MemOK'
  BY Frame, Bounds DEF DaemonDies, MemOK, NoPid
<1>3. ThreadInv'
  BY NoRecType, Bounds
     DEF DaemonDies, ThreadInv, ThreadOK, Labels, Holding, Results, NoPid, NoCode
<1>4. DaemonInv'
  BY NoRecType, Bounds DEF DaemonDies, DaemonInv, DaemonOK, RpIdle, NoPid
<1> QED BY <1>1, <1>2, <1>3, <1>4

LEMMA ReaperType ==
  ASSUME TypeInv, ReaperStep PROVE TypeInv'
<1> USE DEF TypeInv
<1>1. rp.pc # "idle" => rp.pid \in Pids /\ code[rp.pid] \in Codes
  BY DEF DaemonInv, ProcOK
<1>2. rp.rec \in Record /\ rp.ac \in 0..MaxPid
  BY DEF DaemonInv, DaemonOK
<1>3. RpIdle \in [pc : {"idle"}, pid : 0..MaxPid, ac : 0..MaxPid, rec : Record]
  BY NoRecType, Bounds DEF RpIdle, NoPid
<1>4. ASSUME NEW n \in Pids, ReapWait(n) PROVE TypeInv'
  BY <1>3, <1>4, Frame, Bounds DEF ReapWait, ProcOK, DaemonInv, DaemonOK
<1>5. CASE ReapFile
  BY <1>1, <1>5, Frame DEF ReapFile, ReaperAt, DiskOK, DaemonInv, DaemonOK
<1>6. CASE ExitLookup
  <2>1. DaemonInv'
    BY <1>3, <1>6 DEF ExitLookup, ReaperAt, MemOK, DaemonInv, DaemonOK, RpIdle
  <2>2. MemOK'
    BY <1>1, <1>6 DEF ExitLookup, ReaperAt, MemOK
  <2> QED BY <1>6, <2>1, <2>2, Frame DEF ExitLookup
<1>7. CASE ExitRead
  BY <1>7, Frame DEF ExitRead, ReaperAt, DiskOK, DaemonInv, DaemonOK
<1>8. CASE ExitWrite
  <2>1. Exited(rp.rec, code[rp.pid]) \in Record
    BY <1>1, <1>2, <1>8, ExitedType DEF ExitWrite, ReaperAt
  <2> QED BY <1>8, <2>1, Frame, UpdateType DEF ExitWrite, ReaperAt, DiskOK, DaemonInv, DaemonOK
<1>9. CASE ExitDisconnect
  BY <1>9, Frame, Bounds DEF ExitDisconnect, ReaperAt, DiskOK, DaemonInv, DaemonOK, NoPid
<1>10. CASE ExitClose
  <2>1. CASE rp.ac # NoPid /\ done[rp.ac]
    BY <1>10, <2>1, DaemonDiesType DEF ExitClose, DaemonInv, DaemonOK
  <2>2. CASE ~(rp.ac # NoPid /\ done[rp.ac])
    <3>1. done' \in [Pids -> BOOLEAN]
      BY <1>10, <2>2 DEF ExitClose, MemOK
    <3>2. MemOK'
      BY <1>10, <2>2, <3>1 DEF ExitClose, MemOK
    <3>3. DaemonInv'
      BY <1>3, <1>10, <2>2 DEF ExitClose, ReaperAt, DaemonInv, DaemonOK, RpIdle
    <3> QED BY <1>10, <2>2, <3>2, <3>3, Frame DEF ExitClose
  <2> QED BY <2>1, <2>2
<1>11. CASE ExitAfter
  <2> DEFINE again == [rp.rec EXCEPT !.restarts = @ + 1, !.status = "restarting"]
  <2>1. again \in Record
    <3>1. rp.rec.restarts + 1 \in Nat
      BY <1>2 DEF Record
    <3> QED BY <1>2, <3>1, StatusType DEF Statuses
  <2>2. rec' = rec \/ rec' = UpdateContainer(again)
    BY <1>11 DEF ExitAfter
  <2>3. DiskOK'
    BY <1>11, <2>1, <2>2, UpdateType DEF ExitAfter, DiskOK
  <2>4. \/ UNCHANGED threadVars
        \/ \E w \in Workers, label \in {"r_get", "backoff"}, r \in {NoRec, again} :
             /\ pc' = [pc EXCEPT ![w] = label]
             /\ job' = [job EXCEPT ![w] = r]
             /\ UNCHANGED <<my, snap, cont, ret, got>>
    BY <1>11 DEF ExitAfter
  <2> HIDE DEF again
  <2>5. ThreadInv'
    BY <2>1, <2>4, NoRecType, Frame DEF ThreadInv, ThreadOK, Labels, Holding, Threads
  <2>6. DaemonInv'
    BY <1>3, <1>11 DEF ExitAfter, DaemonInv, DaemonOK, RpIdle
  <2> QED BY <1>11, <2>3, <2>5, <2>6, Frame DEF ExitAfter
<1> QED BY <1>4, <1>5, <1>6, <1>7, <1>8, <1>9, <1>10, <1>11 DEF ReaperStep

LEMMA WorkerType ==
  ASSUME TypeInv, NEW t \in Threads, Backoff(t) \/ RestartFailed(t)
  PROVE  TypeInv'
<1> USE DEF TypeInv
<1>1. CASE Backoff(t)
  BY <1>1, Frame, GotoType DEF Backoff, Labels, Holding
<1>2. CASE RestartFailed(t)
  <2>1. [job[t] EXCEPT !.status = "exited"] \in Record
    BY StatusType DEF ThreadInv, ThreadOK, Statuses
  <2> QED BY <1>2, <2>1, Frame, FinishType, UpdateType DEF RestartFailed, DiskOK, Results
<1> QED BY <1>1, <1>2

LEMMA EnvironmentType ==
  ASSUME TypeInv,
         OomRead \/ OomWrite \/ (\E n \in Pids : ProcExit(n)) \/ Crash \/ Boot
  PROVE  TypeInv'
<1> USE DEF TypeInv
<1>1. CASE OomRead
  BY <1>1, Frame DEF OomRead, DiskOK, MemOK, DaemonInv, DaemonOK
<1>2. CASE OomWrite
  BY <1>2, Frame, UpdateType, NoRecType DEF OomWrite, DiskOK, DaemonInv, DaemonOK
<1>3. ASSUME NEW n \in Pids, ProcExit(n) PROVE TypeInv'
  BY <1>3, Frame, Bounds DEF ProcExit, Corpse, ProcOK, Codes
<1>4. CASE Crash
  BY <1>4, DaemonDiesType, Bounds DEF Crash, DaemonInv, DaemonOK
<1>5. CASE Boot
  <2>1. ProcOK'
    BY <1>5, CrunDeleteType, Frame DEF Boot
  <2>2. RecoveredExit \in Codes
    BY Bounds DEF RecoveredExit, DiskOK, NoCode
  <2>3. Exited(rec, RecoveredExit) \in Record
    BY <2>2, ExitedType DEF DiskOK
  <2>4. DiskOK'
    BY <1>5, <2>3, NoRecType DEF Boot, DiskOK, NoCode
  <2>5. DaemonInv'
    BY <1>5 DEF Boot, DaemonInv, DaemonOK
  <2> QED BY <1>5, <2>1, <2>4, <2>5, Frame DEF Boot
<1> QED BY <1>1, <1>2, <1>3, <1>4, <1>5

-----------------------------------------------------------------------------
(* A step is one of the operations above. *)
LEMMA NextCases ==
  ASSUME Next
  PROVE  \/ \E t \in Threads :
              \/ StartGet(t) \/ StartStep(t) \/ StopStep(t)
              \/ \E op \in Ops \ {"wait"}, then \in {"return", "start"} : CallStop(t, op, then)
              \/ KillGet(t) \/ PauseGet(t) \/ UnpauseGet(t) \/ PauseStep(t)
              \/ RemoveStep(t) \/ (\E force \in BOOLEAN : RemoveGet(t, force))
              \/ WaitGet(t) \/ WaitStep(t) \/ WaitCancel(t)
              \/ Backoff(t) \/ RestartFailed(t)
         \/ ReaperStep
         \/ OomRead \/ OomWrite \/ (\E n \in Pids : ProcExit(n)) \/ Crash \/ Boot
BY DEF Next, Proceed, Call, Threads, Ops

LEMMA TypeInit == ASSUME Init PROVE TypeInv
<1>1. ProcOK
  BY Bounds DEF Init, ProcOK, NoPid
<1>2. DiskOK /\ MemOK
  BY NoRecType, Bounds DEF Init, DiskOK, MemOK, NoPid, NoCode
<1>3. ThreadInv
  BY NoRecType, Bounds DEF Init, ThreadInv, ThreadOK, Labels, Holding, Results, NoPid, NoCode
<1>4. DaemonInv
  BY NoRecType, Bounds DEF Init, DaemonInv, DaemonOK, RpIdle, NoPid
<1> QED BY <1>1, <1>2, <1>3, <1>4 DEF TypeInv

LEMMA TypeStep == ASSUME TypeInv, [Next]_vars PROVE TypeInv'
<1>1. CASE Next
  BY <1>1, NextCases, StartType, StopType, PauseType, RemoveType, WaitType, ReaperType,
     WorkerType, EnvironmentType
<1>2. CASE UNCHANGED vars
  BY <1>2, Frame DEF vars, TypeInv
<1> QED BY <1>1, <1>2

\* Every variable keeps its type, whatever the clients, workers, policies and
\* bounds.
THEOREM TypeCorrect == Spec => []TypeOK
<1>1. TypeInv => TypeOK
  BY DEF TypeInv, TypeOK, ThreadInv, DaemonInv
<1> QED BY <1>1, TypeInit, TypeStep, PTL DEF Spec

-----------------------------------------------------------------------------
(* A record that is gone stays gone: every writer but Remove and RecoverOrphans *)
(* goes through UpdateContainer, and those two never write a live record over   *)
(* an absent one.                                                               *)

LEMMA Update == ASSUME ~Exists, NEW r, rec' = UpdateContainer(r) PROVE rec' = rec
BY DEF UpdateContainer

LEMMA AbsentStep == ASSUME ~Exists, [Next]_vars PROVE ~Exists'
<1> SUFFICES ASSUME Next PROVE ~Exists'
  BY DEF vars, diskVars, Exists
<1>1. rec' = rec \/ rec' = NoRec => ~Exists'
  BY DEF Exists, NoRec
<1>2. ASSUME NEW t \in Threads, StartGet(t) \/ StartStep(t) PROVE ~Exists'
  BY <1>1, <1>2, Update DEF StartGet, StartStep, StartCreate, StartNetwork, StartRegister,
     StartRecord, StartExec, StartUnregister, StartUndo, StartClose, diskVars
<1>3. ASSUME NEW t \in Threads,
             StopStep(t) \/ \E op \in Ops, then \in {"return", "start"} : CallStop(t, op, then)
      PROVE  ~Exists'
  BY <1>1, <1>3 DEF CallStop, StopStep, StopGet, StopResume, StopMark, StopPick, StopWait,
     StopKill, StopWaitAgain, StopDelete, diskVars
<1>4. ASSUME NEW t \in Threads, KillGet(t) \/ PauseGet(t) \/ UnpauseGet(t) \/ PauseStep(t)
      PROVE  ~Exists'
  BY <1>1, <1>4, Update DEF KillGet, PauseGet, UnpauseGet, PauseStep, KillSend, PauseFreeze,
     PauseWrite, UnpauseThaw, UnpauseWrite, diskVars
<1>5. ASSUME NEW t \in Threads, RemoveStep(t) \/ \E force \in BOOLEAN : RemoveGet(t, force)
      PROVE  ~Exists'
  BY <1>1, <1>5 DEF RemoveStep, RemoveGet, RemoveDisconnect, RemoveDelete, RemoveBundle,
     RemoveStore, RemoveUnregister, diskVars
<1>6. ASSUME NEW t \in Threads,
             \/ WaitGet(t) \/ WaitStep(t) \/ WaitCancel(t)
             \/ Backoff(t) \/ RestartFailed(t)
      PROVE  ~Exists'
  BY <1>1, <1>6, Update DEF WaitGet, WaitStep, WaitPick, WaitDone, WaitCode, WaitPoll,
     WaitCancel, Backoff, RestartFailed, diskVars
<1>7. CASE ReaperStep
  BY <1>1, <1>7, Update DEF ReaperStep, ReapWait, ReapFile, ExitLookup, ExitRead, ExitWrite,
     ExitDisconnect, ExitClose, ExitAfter, DaemonDies, diskVars
<1>8. CASE OomRead \/ OomWrite \/ (\E n \in Pids : ProcExit(n)) \/ Crash
  BY <1>1, <1>8, Update DEF OomRead, OomWrite, ProcExit, Crash, DaemonDies, diskVars
<1>9. CASE Boot
  BY <1>1, <1>9 DEF Boot, Exists
<1> QED BY <1>2, <1>3, <1>4, <1>5, <1>6, <1>7, <1>8, <1>9, NextCases

\* A removed container never comes back, whoever holds a copy of its record.
THEOREM RemovalIsFinal == Spec => RemovedStaysRemoved
<1>1. [Next]_vars => [~Exists => ~Exists']_vars
  BY AbsentStep
<1> QED BY <1>1, PTL DEF Spec, RemovedStaysRemoved

-----------------------------------------------------------------------------
(* The restart count.  The record in the store is bounded because every copy of *)
(* it in flight is: whichever goroutine writes last, it writes a bounded count. *)

Within(r) == r.restarts <= cfg.max

CopiesWithin == \A t \in Threads : Within(snap[t]) /\ Within(job[t])

Retrying == cfg.policy = "on-failure" /\ cfg.max > 0

RetryInv ==
  Retrying => Within(rec) /\ Within(rp.rec) /\ Within(oom.rec) /\ CopiesWithin

LEMMA NoRecWithin == ASSUME DiskOK, Retrying PROVE Within(NoRec) /\ Within(Created)
BY ConstantsOK DEF ConstantsOK, DiskOK, Retrying, Within, NoRec, Created

\* The edits made to a copy keep its count.
LEMMA EditsKeepCount ==
  ASSUME NEW r \in Record, NEW s, NEW b, NEW n
  PROVE  /\ Running(r, n).restarts = r.restarts
         /\ Exited(r, n).restarts = r.restarts
         /\ [r EXCEPT !.status = s].restarts = r.restarts
         /\ [r EXCEPT !.status = s, !.paused = b].restarts = r.restarts
BY DEF Record, Running, Exited

\* So do the control-flow helpers: the copies they take are of the record.
LEMMA ControlWithin ==
  ASSUME TypeInv, Retrying, Within(rec), CopiesWithin, UNCHANGED cfg, NEW t \in Threads,
         \/ \E label \in Labels : Goto(t, label) \/ Snapshot(t, label)
         \/ \E result \in Results : Finish(t, result)
         \/ \E c \in Codes : FinishWait(t, c)
         \/ StopReturn(t)
         \/ UNCHANGED <<snap, job>>
  PROVE  CopiesWithin'
<1> USE DEF CopiesWithin, Within
<1>1. CASE \E label \in Labels : Goto(t, label) \/ Snapshot(t, label)
  BY <1>1 DEF Goto, Snapshot, TypeInv, ThreadInv, ThreadOK
<1>2. ASSUME NEW result \in Results, Finish(t, result) PROVE CopiesWithin'
  BY <1>2, NoRecWithin DEF Finish, TypeInv, ThreadInv, ThreadOK
<1>3. CASE StopReturn(t)
  BY <1>2, <1>3 DEF StopReturn, Goto, Results
<1>4. CASE UNCHANGED <<snap, job>> \/ \E c \in Codes : FinishWait(t, c)
  BY <1>4 DEF FinishWait
<1> QED BY <1>1, <1>2, <1>3, <1>4

LEMMA RetryThreads ==
  ASSUME TypeInv, Retrying, RetryInv, NEW t \in Threads,
         \/ StartGet(t) \/ StartStep(t) \/ StopStep(t)
         \/ \E op \in Ops, then \in {"return", "start"} : CallStop(t, op, then)
         \/ KillGet(t) \/ PauseGet(t) \/ UnpauseGet(t) \/ PauseStep(t)
         \/ RemoveStep(t) \/ (\E force \in BOOLEAN : RemoveGet(t, force))
         \/ WaitGet(t) \/ WaitStep(t) \/ WaitCancel(t)
         \/ Backoff(t) \/ RestartFailed(t)
  PROVE  UNCHANGED <<cfg, rp, oom>> /\ Within(rec)' /\ CopiesWithin'
<1> USE DEF Labels, Results
<1>1. /\ snap[t] \in Record /\ job[t] \in Record /\ rec \in Record
      /\ rec.exit \in Codes /\ 0 \in Codes
      /\ pc[t] = "w_code" => acExit[my[t]] \in Codes
  BY Bounds DEF TypeInv, ThreadInv, ThreadOK, DiskOK, MemOK, Record, Holding
<1>2. Within(rec) /\ Within(snap[t]) /\ Within(job[t]) /\ CopiesWithin
  BY DEF RetryInv, CopiesWithin
<1>3. ASSUME NEW r, Within(r), UNCHANGED cfg, rec' = UpdateContainer(r) PROVE Within(rec)'
  BY <1>2, <1>3 DEF UpdateContainer, Within
<1>4. ASSUME UNCHANGED <<rec, cfg>> PROVE Within(rec)'
  BY <1>2, <1>4 DEF Within
<1>5. CASE StartGet(t) \/ StartStep(t)
  <2>1. Within(Running(snap[t], my[t]))
    BY <1>1, <1>2, EditsKeepCount DEF Within
  <2> QED BY <1>2, <1>3, <1>4, <1>5, <2>1, ControlWithin
             DEF StartGet, StartStep, StartCreate, StartNetwork, StartRegister, StartRecord,
                 StartExec, StartUnregister, StartUndo, StartClose, diskVars, daemonVars
<1>6. CASE StopStep(t) \/ \E op \in Ops, then \in {"return", "start"} : CallStop(t, op, then)
  BY <1>2, <1>4, <1>6, ControlWithin
     DEF CallStop, StopStep, StopGet, StopResume, StopMark, StopPick, StopWait, StopKill,
         StopWaitAgain, StopDelete, diskVars, daemonVars
<1>7. CASE KillGet(t) \/ PauseGet(t) \/ UnpauseGet(t) \/ PauseStep(t)
  <2>1. /\ Within([snap[t] EXCEPT !.status = "paused", !.paused = TRUE])
        /\ Within([snap[t] EXCEPT !.status = "running", !.paused = FALSE])
    BY <1>1, <1>2, EditsKeepCount DEF Within
  <2> QED BY <1>2, <1>3, <1>4, <1>7, <2>1, ControlWithin
             DEF KillGet, PauseGet, UnpauseGet, PauseStep, KillSend, PauseFreeze, PauseWrite,
                 UnpauseThaw, UnpauseWrite, diskVars, daemonVars
<1>8. CASE RemoveStep(t) \/ \E force \in BOOLEAN : RemoveGet(t, force)
  <2>1. CASE RemoveStore(t)
    BY <1>2, <2>1, ControlWithin, NoRecWithin DEF RemoveStore, TypeInv, Within, daemonVars
  <2>2. CASE ~RemoveStore(t)
    BY <1>2, <1>4, <1>8, <2>2, ControlWithin
       DEF RemoveStep, RemoveGet, RemoveDisconnect, RemoveDelete, RemoveBundle,
           RemoveUnregister, diskVars, daemonVars
  <2> QED BY <2>1, <2>2
<1>9. CASE WaitGet(t) \/ WaitStep(t) \/ WaitCancel(t)
  BY <1>1, <1>2, <1>4, <1>9, ControlWithin
     DEF WaitGet, WaitStep, WaitPick, WaitDone, WaitCode, WaitPoll, WaitCancel, At,
         diskVars, daemonVars
<1>10. CASE Backoff(t) \/ RestartFailed(t)
  <2>1. Within([job[t] EXCEPT !.status = "exited"])
    BY <1>1, <1>2, EditsKeepCount DEF Within
  <2> QED BY <1>2, <1>3, <1>4, <1>10, <2>1, ControlWithin
             DEF Backoff, RestartFailed, diskVars, daemonVars
<1> QED BY <1>5, <1>6, <1>7, <1>8, <1>9, <1>10

\* The reaper: the count grows only where ShouldRestart found it below the limit.
LEMMA RetryReaper ==
  ASSUME TypeInv, Retrying, RetryInv, ReaperStep
  PROVE  UNCHANGED cfg /\ RetryInv'
<1> USE DEF RetryInv, CopiesWithin, Within
<1> DEFINE limit == ShouldRestart(rp.rec, code[rp.pid], rp.ac # NoPid /\ manual[rp.ac])
<1>1. rp.rec \in Record /\ rec \in Record
  BY DEF TypeInv, DaemonInv, DaemonOK, DiskOK
<1>2. Within(NoRec) /\ RpIdle.rec = NoRec
  BY NoRecWithin DEF TypeInv, RpIdle
<1>3. CASE (\E n \in Pids : ReapWait(n)) \/ ReapFile \/ ExitLookup \/ ExitDisconnect
  BY <1>1, <1>2, <1>3 DEF ReapWait, ReapFile, ExitLookup, ExitDisconnect, RpIdle,
     diskVars, threadVars,
     TypeInv, DaemonInv, DaemonOK
<1>4. CASE ExitRead
  BY <1>1, <1>4 DEF ExitRead, diskVars, threadVars,
     TypeInv, DaemonInv, DaemonOK
<1>5. CASE ExitWrite
  <2>1. Within(Exited(rp.rec, code[rp.pid]))
    BY <1>1, EditsKeepCount DEF Retrying
  <2> QED BY <1>1, <1>5, <2>1 DEF ExitWrite, UpdateContainer, Retrying, threadVars,
     TypeInv, DaemonInv, DaemonOK
<1>6. CASE ExitClose
  BY <1>1, <1>2, <1>6 DEF ExitClose, DaemonDies, diskVars, threadVars,
     TypeInv, DaemonInv, DaemonOK
<1>7. CASE ExitAfter
  <2> DEFINE again == [rp.rec EXCEPT !.restarts = @ + 1, !.status = "restarting"]
  <2>1. ASSUME limit PROVE Within(again)
    <3>1. rp.rec.restarts < cfg.max /\ rp.rec.restarts \in Nat /\ cfg.max \in Nat
      BY <1>1, <2>1, ConstantsOK DEF ShouldRestart, Retrying, Record, ConstantsOK, TypeInv, DiskOK
    <3> QED BY <1>1, <3>1 DEF Record
  <2>2. UNCHANGED cfg /\ rp' = RpIdle /\ oom' = oom
    BY <1>7 DEF ExitAfter
  <2>3. rec' = rec \/ (limit /\ rec' = UpdateContainer(again))
    BY <1>7 DEF ExitAfter
  <2>4. \/ UNCHANGED threadVars
        \/ \E w \in Workers, x \in {NoRec, again} :
             /\ x = NoRec \/ limit
             /\ job' = [job EXCEPT ![w] = x]
             /\ UNCHANGED snap
    BY <1>7 DEF ExitAfter
  <2> HIDE DEF again, limit
  <2>5. Within(rec)' /\ Within(rp.rec)' /\ Within(oom.rec)'
    BY <1>2, <2>1, <2>2, <2>3 DEF UpdateContainer
  <2>6. CopiesWithin'
    BY <1>2, <2>1, <2>2, <2>4 DEF threadVars, TypeInv, ThreadInv, ThreadOK
  <2> QED BY <2>2, <2>5, <2>6
<1> QED BY <1>3, <1>4, <1>5, <1>6, <1>7 DEF ReaperStep

LEMMA RetryEnvironment ==
  ASSUME TypeInv, Retrying, RetryInv,
         OomRead \/ OomWrite \/ (\E n \in Pids : ProcExit(n)) \/ Crash \/ Boot
  PROVE  UNCHANGED cfg /\ RetryInv'
<1> USE DEF RetryInv, CopiesWithin, Within
<1>1. Within(NoRec)
  BY NoRecWithin DEF TypeInv
<1>2. CASE OomRead
  BY <1>2 DEF OomRead, diskVars, threadVars
<1>5. CASE OomWrite
  BY <1>1, <1>5 DEF OomWrite, UpdateContainer, threadVars, TypeInv, DaemonInv, DaemonOK
<1>3. CASE (\E n \in Pids : ProcExit(n)) \/ Crash
  BY <1>1, <1>3 DEF ProcExit, Crash, DaemonDies, RpIdle, diskVars, threadVars, daemonVars
<1>4. CASE Boot
  <2>1. Within(Exited(rec, RecoveredExit))
    BY EditsKeepCount DEF TypeInv, DiskOK
  <2> QED BY <1>1, <1>4, <2>1 DEF Boot, threadVars
<1> QED BY <1>2, <1>3, <1>4, <1>5

\* The HostConfig of a container never changes.
LEMMA ConfigStep == ASSUME [Next]_vars PROVE UNCHANGED cfg
<1> SUFFICES ASSUME Next PROVE UNCHANGED cfg
  BY DEF vars, diskVars
<1> USE DEF diskVars
<1>1. ASSUME NEW t \in Threads,
             \/ StartGet(t) \/ StartStep(t)
             \/ StopStep(t) \/ \E op \in Ops, then \in {"return", "start"} : CallStop(t, op, then)
      PROVE  UNCHANGED cfg
  BY <1>1 DEF StartGet, StartStep, StartCreate, StartNetwork, StartRegister, StartRecord,
     StartExec, StartUnregister, StartUndo, StartClose, CallStop, StopStep, StopGet, StopResume,
     StopMark, StopPick, StopWait, StopKill, StopWaitAgain, StopDelete
<1>2. ASSUME NEW t \in Threads,
             \/ KillGet(t) \/ PauseGet(t) \/ UnpauseGet(t) \/ PauseStep(t)
             \/ RemoveStep(t) \/ \E force \in BOOLEAN : RemoveGet(t, force)
      PROVE  UNCHANGED cfg
  BY <1>2 DEF KillGet, PauseGet, UnpauseGet, PauseStep, KillSend, PauseFreeze, PauseWrite,
     UnpauseThaw, UnpauseWrite, RemoveStep, RemoveGet, RemoveDisconnect, RemoveDelete,
     RemoveBundle, RemoveStore, RemoveUnregister
<1>3. ASSUME NEW t \in Threads,
             \/ WaitGet(t) \/ WaitStep(t) \/ WaitCancel(t)
             \/ Backoff(t) \/ RestartFailed(t)
      PROVE  UNCHANGED cfg
  BY <1>3 DEF WaitGet, WaitStep, WaitPick, WaitDone, WaitCode, WaitPoll, WaitCancel, Backoff,
     RestartFailed
<1>4. CASE ReaperStep
  BY <1>4 DEF ReaperStep, ReapWait, ReapFile, ExitLookup, ExitRead, ExitWrite, ExitDisconnect,
     ExitClose, ExitAfter, DaemonDies
<1>5. CASE OomRead \/ OomWrite \/ (\E n \in Pids : ProcExit(n)) \/ Crash \/ Boot
  BY <1>5 DEF OomRead, OomWrite, ProcExit, Crash, DaemonDies, Boot
<1> QED BY <1>1, <1>2, <1>3, <1>4, <1>5, NextCases

LEMMA RetryStep == ASSUME TypeInv, RetryInv, [Next]_vars PROVE RetryInv'
<1>1. CASE UNCHANGED vars
  BY <1>1 DEF vars, diskVars, threadVars, daemonVars, RetryInv, Retrying, CopiesWithin, Within
<1>2. CASE Next /\ Retrying
  <2>1. CASE ReaperStep
    BY <1>2, <2>1, RetryReaper
  <2>2. CASE OomRead \/ OomWrite \/ (\E n \in Pids : ProcExit(n)) \/ Crash \/ Boot
    BY <1>2, <2>2, RetryEnvironment
  <2>3. CASE UNCHANGED <<cfg, rp, oom>> /\ Within(rec)' /\ CopiesWithin'
    BY <1>2, <2>3 DEF RetryInv, Within
  <2> QED BY <1>2, <2>1, <2>2, <2>3, NextCases, RetryThreads
<1>3. CASE ~Retrying
  BY <1>3, ConfigStep DEF RetryInv, Retrying
<1> QED BY <1>1, <1>2, <1>3

LEMMA RetryInit == ASSUME Init PROVE RetryInv
BY TypeInit, NoRecWithin DEF Init, RetryInv, TypeInv, RpIdle, CopiesWithin

\* The RestartCount of a container with on-failure:max never passes max, in
\* whatever order the goroutines holding copies of its record write them.
THEOREM RestartsNeverExceed == Spec => []RestartsBounded
<1>1. RetryInv => RestartsBounded
  BY DEF RetryInv, Retrying, Within, RestartsBounded
<1>2. Init => TypeInv /\ RetryInv
  BY TypeInit, RetryInit
<1>3. TypeInv /\ RetryInv /\ [Next]_vars => TypeInv' /\ RetryInv'
  BY TypeStep, RetryStep
<1> QED BY <1>1, <1>2, <1>3, PTL DEF Spec

-----------------------------------------------------------------------------
(* One client.  While a single client acts on the container and the others   *)
(* only wait for it, nothing goes wrong.  The invariant says where the       *)
(* record, the tables, the init and the reaper stand for each step a of that *)
(* client, which has the pid x and the copy s of the record.                 *)

Serial(m) ==
  /\ m \in Clients /\ Allowed[m] \cap {"pause", "unpause"} = {}
  /\ \A c \in Clients \ {m} : Allowed[c] \subseteq {"wait"}
  /\ ~OomWatch
  /\ \A g \in Configs : g.policy = "no" /\ ~g.autoRemove

Waiting == {"idle", "w_pick", "w_done", "w_code", "w_poll"}
StartLabels == {"s_create", "s_net", "s_reg", "s_run", "s_exec", "s_unreg", "s_undo", "s_close"}
\* Steps before which nothing in particular holds
Quiet == Waiting \cup {"s_get", "p_get", "p_resume", "p_mark", "p_pick", "p_kill", "p_wait2", "p_del",
                       "k_send", "r_get", "r_disc"}
Busy == StartLabels \cup {"p_wait", "r_del", "r_bundle", "r_store", "r_unreg"}
\* Steps still to come that something relies on
Owing == {"s_run", "s_exec", "s_unreg", "s_undo", "r_unreg"}

OneDriver(m) ==
  /\ pc[m] \in Quiet \cup Busy
  /\ \A t \in Threads \ {m} : pc[t] \in Waiting
  /\ \A t \in Threads : job[t] = NoRec /\ (pc[t] = "w_code" => done[my[t]])
  /\ daemon = "down" => \A t \in Threads : pc[t] = "idle"
  /\ oom.pc = "idle"

\* At most the last init made is alive, and crun knows no other.
OneInit ==
  /\ \A n \in Pids : n > pids => proc[n] = "none"
  /\ crunPid \in {NoPid, pids} /\ \A n \in Pids : Alive(n) => n = crunPid
  /\ orphans \subseteq 1..pids

DownInv ==
  daemon = "down" =>
    active = NoPid /\ pidMap = {} /\ rp = RpIdle /\ (\A n \in Pids : ~done[n]) /\ crashes > 0

Names(n) == rec.status = "running" /\ rec.running /\ rec.pid = n

\* The death of n is still to be written in the record.
InHand(n) == n \in pidMap \/ (rp.pid = n /\ rp.pc \in {"read", "write"})

\* Until it is, the record says that n runs, and no other Start gets past it.
HandInv(a, x) ==
  \A n \in Pids : InHand(n) =>
    /\ n = pids
    /\ n \in pidMap => n \notin orphans /\ active \in {n, NoPid}
    /\ Names(n) \/ ~Exists \/ (a = "s_run" /\ x = n)

StartInv(a, x) ==
  /\ a \in StartLabels => Exists
  /\ a \in {"s_create", "s_net", "s_reg"} => \A n \in Pids : ~InHand(n)
  /\ a \in {"s_net", "s_reg", "s_run", "s_exec", "s_unreg", "s_undo"} =>
       x \in Pids /\ x = pids /\ crunPid = pids /\ x \notin orphans
  /\ a \in {"s_net", "s_reg", "s_run", "s_exec"} => proc[x] # "exec"
  /\ a \in {"s_run", "s_exec"} => x \in pidMap \/ ~Alive(x)

ExecInv(a, x) ==
  \A n \in Pids : proc[n] = "exec" =>
    Names(n) /\ (daemon = "up" => n \in pidMap \/ (a = "s_undo" /\ x = n))

FreshInv(a, x) ==
  \A n \in pidMap :
    \/ proc[n] \in {"ready", "exec", "zombie"}
    \/ rp.pid = n /\ rp.pc \in {"file", "lookup"}
    \/ x = n /\ a \in {"s_run", "s_exec", "s_unreg"}

\* The activeContainer HandleExit has is that of the pid, which it has taken out
\* of pidMap; it closes each one once.
DoneInv ==
  /\ rp.ac \in {NoPid, rp.pid} /\ (rp.pc \in {"idle", "file", "lookup"} => rp.ac = NoPid)
  /\ rp.pc # "idle" => proc[rp.pid] = "gone"
  /\ rp.pc \in {"read", "write"} => rp.pid \notin pidMap
  /\ \A n \in Pids : done[n] => proc[n] = "gone" /\ (rp.pid = n => rp.pc = "after")

RemoveInv(a) ==
  /\ a \in {"r_bundle", "r_store", "r_unreg"} \/ ~Exists => crunPid = NoPid
  /\ a \in {"r_store", "r_unreg"} \/ ~Exists => ~bundle
  /\ a \in {"r_del", "r_bundle", "r_store", "r_unreg"} => ep = NoPid
  /\ ~Exists /\ crashes = 0 => ep = NoPid
  /\ ~Exists => active = NoPid \/ a = "r_unreg"

StopInv(a, x) == a = "p_wait" => x = active /\ active # NoPid

\* HandleExit has written the record for n.
Settled(n) == done[n] \/ (rp.ac = n /\ rp.pc \in {"disc", "close"})
Told(n, r) == \E k \in n..pids : r.exit = code[k] /\ ~Alive(k)

\* The record and acExit have the code of n, or the record that of a later init.
CodeInv(a, x, s) ==
  /\ \A n \in Pids : done[n] \/ rp.ac = n => acExit[n] = code[n]
  /\ Exists => \A n \in Pids : Settled(n) => Told(n, rec) \/ Names(n)
  /\ a \in {"s_create", "s_net", "s_reg", "s_run"} =>
       /\ s.status # "absent"
       /\ \A n \in Pids : Settled(n) => Told(n, s) \/ (a = "s_run" /\ n = x)

Core(a, x, s) ==
  /\ OneInit /\ DownInv /\ HandInv(a, x) /\ StartInv(a, x) /\ ExecInv(a, x) /\ FreshInv(a, x)
  /\ DoneInv /\ RemoveInv(a) /\ StopInv(a, x) /\ CodeInv(a, x, s)

SerialInv(m) == OneDriver(m) /\ Core(pc[m], my[m], snap[m])

\* The client's own variables are read once and written once.
LEMMA CoreAt ==
  ASSUME NEW m, NEW a, NEW x, NEW s, Core(pc[m], my[m], snap[m]), pc[m] = a, my[m] = x, snap[m] = s
  PROVE  Core(a, x, s)
<1>1. OneInit /\ DownInv /\ DoneInv
  BY DEF Core
<1>2. HandInv(a, x) /\ StartInv(a, x)
  BY DEF Core, HandInv, StartInv
<1>3. ExecInv(a, x) /\ FreshInv(a, x) /\ RemoveInv(a) /\ StopInv(a, x)
  BY DEF Core, ExecInv, FreshInv, RemoveInv, StopInv
<1>4. CodeInv(a, x, s)
  BY DEF Core, CodeInv
<1> QED
  BY <1>1, <1>2, <1>3, <1>4 DEF Core

LEMMA CoreBack ==
  ASSUME NEW m, NEW a, NEW x, NEW s, Core(a, x, s)', pc'[m] = a, my'[m] = x, snap'[m] = s
  PROVE  Core(pc[m], my[m], snap[m])'
<1>1. OneInit' /\ DownInv' /\ DoneInv'
  BY DEF Core
<1>2. HandInv(pc[m], my[m])'
  BY DEF Core, HandInv
<1>3. StartInv(pc[m], my[m])'
  BY DEF Core, StartInv
<1>4. ExecInv(pc[m], my[m])' /\ FreshInv(pc[m], my[m])' /\ RemoveInv(pc[m])' /\ StopInv(pc[m], my[m])'
  BY DEF Core, ExecInv, FreshInv, RemoveInv, StopInv
<1>5. CodeInv(pc[m], my[m], snap[m])'
  BY DEF Core, CodeInv
<1> QED
  BY <1>1, <1>2, <1>3, <1>4, <1>5 DEF Core

\* To a quiet step, from one nothing relies on
LEMMA CoreMoves ==
  ASSUME NEW a, NEW x, NEW s, NEW b \in Quiet, NEW y, NEW r, Core(a, x, s), a \notin Owing
  PROVE  Core(b, y, r)
BY DEF Core, HandInv, StartInv, ExecInv, FreshInv, RemoveInv, StopInv, CodeInv, Quiet, Waiting, Owing, StartLabels

LEMMA CoreSame ==
  ASSUME NEW a, NEW x, NEW s, Core(a, x, s),
         UNCHANGED <<proc, code, orphans, pids, crunPid, rec, bundle, ep, active, pidMap, done, acExit>>,
         UNCHANGED <<rp, daemon, crashes>>
  PROVE  Core(a, x, s)'
BY DEF Core, OneInit, DownInv, HandInv, StartInv, ExecInv, FreshInv, DoneInv, RemoveInv, StopInv, CodeInv,
       Names, InHand, Settled, Told, Alive, Exists

\* A code told once was a dead init's, and stays its code.
LEMMA ToldStays ==
  ASSUME TypeInv, pids' \in {pids, pids + 1},
         \A k \in 1..pids : ~Alive(k) => ~Alive(k)' /\ code'[k] = code[k]
  PROVE  \A n \in Pids : \A r : Told(n, r) => Told(n, r)'
BY Bounds DEF Told, TypeInv, ProcOK, Pids

\* An init dies.
LEMMA CoreDies ==
  ASSUME TypeInv, NEW a, NEW x, NEW s, Core(a, x, s), NEW n \in Pids, Alive(n), NEW c,
         proc' = [proc EXCEPT ![n] = Corpse(n)], code' = [code EXCEPT ![n] = c],
         UNCHANGED <<orphans, pids, crunPid, diskVars, memVars, daemonVars>>
  PROVE  Core(a, x, s)'
<1> USE DEF diskVars, memVars, daemonVars
<1>1. proc \in [Pids -> {"none", "ready", "exec", "zombie", "gone"}] /\ code \in [Pids -> Codes]
  BY DEF TypeInv, ProcOK
<1>2. proc[n] \in {"ready", "exec"} /\ proc'[n] \in {"gone", "zombie"} /\ ~Alive(n)'
      /\ \A k \in Pids : k # n => proc'[k] = proc[k] /\ code'[k] = code[k]
  BY <1>1 DEF Alive, Corpse
<1>3. \A k : Alive(k)' => Alive(k)
  BY <1>2 DEF Alive
<1>4. OneInit' /\ DownInv'
  BY <1>2, <1>3 DEF Core, OneInit, DownInv
<1>5. HandInv(a, x)'
  BY DEF Core, HandInv, InHand, Names, Exists
<1>6. StartInv(a, x)'
  BY <1>2, <1>3 DEF Core, StartInv, InHand, Exists
<1>7. ExecInv(a, x)'
  BY <1>2 DEF Core, ExecInv, Names
<1>8. FreshInv(a, x)'
  BY <1>1, <1>2 DEF Core, FreshInv, HandInv, InHand, Corpse, TypeInv, MemOK
<1>9. DoneInv'
  BY <1>2 DEF Core, DoneInv, TypeInv, DaemonInv
<1>10. RemoveInv(a)' /\ StopInv(a, x)'
  BY DEF Core, RemoveInv, StopInv, Exists
<1>11. CodeInv(a, x, s)'
  <2>1. ~done[n] /\ rp.ac # n
    BY <1>2 DEF Core, DoneInv, NoPid, Pids, TypeInv, DaemonInv
  <2>2. \A k \in Pids : Settled(k)' => Settled(k) /\ k # n
    BY <2>1 DEF Settled
  <2>3. \A k \in Pids : \A r : Told(k, r) => Told(k, r)'
    BY <1>2, <1>3, ToldStays, Bounds DEF TypeInv, ProcOK, Pids
  <2> QED
    BY <1>2, <2>1, <2>2, <2>3 DEF Core, CodeInv, Names, Exists
<1> QED
  BY <1>4, <1>5, <1>6, <1>7, <1>8, <1>9, <1>10, <1>11 DEF Core

LEMMA CoreKill ==
  ASSUME TypeInv, NEW a, NEW x, NEW s, Core(a, x, s), KillInit \/ UNCHANGED <<proc, code>>,
         UNCHANGED <<orphans, pids, crunPid, frozen, diskVars, memVars, daemonVars>>
  PROVE  Core(a, x, s)'
<1>1. CASE KillInit /\ Alive(crunPid)
  BY <1>1, CoreDies DEF KillInit, Alive
<1>2. CASE UNCHANGED <<proc, code>>
  BY <1>2, CoreSame DEF diskVars, memVars, daemonVars
<1> QED
  BY <1>1, <1>2 DEF KillInit

\* crun delete --force: whatever lived is dead, and nothing waits for it but
\* HandleExit.
LEMMA CoreDelete ==
  ASSUME TypeInv, NEW a, NEW x, NEW s, Core(a, x, s), CrunDelete,
         UNCHANGED <<diskVars, memVars, daemonVars>>, NEW b, NEW y, NEW r,
         \/ a \notin Owing /\ b \in Quiet
         \/ a = "s_undo" /\ b = "s_close"
         \/ a = "r_del" /\ b = "r_bundle"
  PROVE  Core(b, y, r)' /\ \A n \in Pids : ~Alive(n)'
<1> USE DEF diskVars, memVars, daemonVars
<1>1. proc \in [Pids -> {"none", "ready", "exec", "zombie", "gone"}] /\ code \in [Pids -> Codes]
  BY DEF TypeInv, ProcOK
<1>2. /\ crunPid' = NoPid /\ pids' = pids /\ orphans' = orphans
      /\ \A k \in Pids : ~Alive(k) => proc'[k] = proc[k] /\ code'[k] = code[k]
      /\ \A k \in Pids : Alive(k) => proc'[k] = Corpse(k)
  BY <1>1 DEF CrunDelete, KillInit, Core, OneInit, Alive
<1>3. \A k : ~Alive(k)'
  BY <1>2 DEF Alive, Corpse
<1>4. OneInit' /\ DownInv'
  BY <1>2, <1>3 DEF Core, OneInit, DownInv, Alive
<1>5. HandInv(b, y)'
  BY <1>2 DEF Core, HandInv, InHand, Names, Exists, Owing
<1>6. StartInv(b, y)'
  BY DEF Core, StartInv, Exists, StartLabels, Quiet, Waiting
<1>7. ExecInv(b, y)'
  BY <1>3 DEF ExecInv, Alive
<1>8. FreshInv(b, y)'
  BY <1>2 DEF Core, FreshInv, HandInv, InHand, Corpse, TypeInv, MemOK, Owing, Alive
<1>9. DoneInv'
  BY <1>2 DEF Core, DoneInv, TypeInv, DaemonInv, Alive
<1>10. RemoveInv(b)' /\ StopInv(b, y)'
  BY <1>2 DEF Core, RemoveInv, StopInv, Exists, Quiet, Waiting, Owing
<1>11. CodeInv(b, y, r)'
  <2>1. \A k \in Pids : done[k] \/ rp.ac = k => ~Alive(k)
    BY DEF Core, DoneInv, NoPid, Pids, TypeInv, DaemonInv, Alive
  <2>2. \A k \in Pids : Settled(k)' => Settled(k)
    BY DEF Settled
  <2>3. \A k \in Pids : \A q : Told(k, q) => Told(k, q)'
    BY <1>2, <1>3, ToldStays, Bounds DEF TypeInv, ProcOK, Pids
  <2> QED
    BY <1>2, <2>1, <2>2, <2>3 DEF Core, CodeInv, Names, Exists, Quiet, Waiting
<1> QED
  BY <1>3, <1>4, <1>5, <1>6, <1>7, <1>8, <1>9, <1>10, <1>11 DEF Core

\* The steps of Start

LEMMA CoreStarts ==
  ASSUME NEW a \in {"idle", "s_get"}, NEW x, NEW s, Core(a, x, s), Exists, rec.status # "running"
  PROVE  Core("s_create", x, rec)
<1>1. \A n \in Pids : ~InHand(n) /\ ~Names(n)
  BY DEF Core, HandInv, Names
<1>2. HandInv("s_create", x) /\ StartInv("s_create", x)
  BY <1>1 DEF HandInv, StartInv
<1>3. ExecInv("s_create", x) /\ FreshInv("s_create", x)
  BY DEF Core, ExecInv, FreshInv
<1>4. RemoveInv("s_create") /\ StopInv("s_create", x)
  BY DEF Core, RemoveInv, StopInv
<1>5. CodeInv("s_create", x, rec)
  BY <1>1 DEF Core, CodeInv, Exists
<1> QED
  BY <1>2, <1>3, <1>4, <1>5 DEF Core

LEMMA CoreCreates ==
  ASSUME TypeInv, NEW x, NEW s, Core("s_create", x, s), NEW b \in {"s_net", "s_close"},
         NEW y, y = pids + 1, bundle /\ ~Alive(crunPid) /\ pids < MaxPid, pids' = pids + 1 /\ crunPid' = pids + 1,
         proc' = [proc EXCEPT ![pids + 1] = "ready"],
         UNCHANGED <<code, orphans, diskVars, memVars, daemonVars>>
  PROVE  Core(b, y, s)'
<1> USE DEF diskVars, memVars, daemonVars
<1>1. /\ proc \in [Pids -> {"none", "ready", "exec", "zombie", "gone"}] /\ code \in [Pids -> Codes]
      /\ pids + 1 \in Pids /\ pids \in Nat /\ orphans \subseteq 1..pids /\ pids + 1 \notin orphans
      /\ Pids \subseteq Nat
  BY Bounds DEF TypeInv, ProcOK, Core, OneInit, Pids
<1>2. /\ proc[pids + 1] = "none" /\ proc'[pids + 1] = "ready"
      /\ \A k \in Pids : k # pids + 1 => proc'[k] = proc[k] /\ ~Alive(k)
  BY <1>1 DEF Core, OneInit, Alive, NoPid
<1>3. \A k \in Pids : ~InHand(k)
  BY DEF Core, StartInv
<1>4. pidMap = {} /\ rp.pc \notin {"read", "write"}
  BY <1>3 DEF InHand, TypeInv, MemOK, DaemonInv
<1>5. OneInit'
  BY <1>1, <1>2 DEF OneInit, Core, Alive
<1>6. DownInv' /\ HandInv(b, y)'
  BY <1>3, <1>4 DEF Core, DownInv, HandInv, InHand
<1>7. StartInv(b, y)'
  BY <1>1, <1>2, <1>4 DEF Core, StartInv, StartLabels, Exists, InHand
<1>8. ExecInv(b, y)' /\ FreshInv(b, y)'
  BY <1>2, <1>4 DEF ExecInv, FreshInv, Alive
<1>9. DoneInv'
  BY <1>2 DEF Core, DoneInv, TypeInv, DaemonInv
<1>10. RemoveInv(b)' /\ StopInv(b, y)'
  BY DEF Core, StartInv, StartLabels, RemoveInv, StopInv, Exists
<1>11. CodeInv(b, y, s)'
  <2>1. \A n \in Pids : \A r : Told(n, r) => Told(n, r)'
    BY <1>1, <1>2, ToldStays, Bounds DEF Alive, Pids
  <2>2. \A n \in Pids : Settled(n)' => Settled(n)
    BY DEF Settled
  <2> QED
    BY <2>1, <2>2 DEF Core, CodeInv, Exists, Names
<1> QED
  BY <1>5, <1>6, <1>7, <1>8, <1>9, <1>10, <1>11 DEF Core

\* While nothing is in hand no program runs.
LEMMA NothingRuns ==
  ASSUME TypeInv, NEW a \in {"s_create", "s_net", "s_reg"}, NEW x, NEW s, Core(a, x, s), daemon = "up"
  PROVE  /\ \A n \in Pids : proc[n] # "exec" /\ ~InHand(n)
         /\ pidMap = {} /\ rp.pc \notin {"read", "write"}
<1>1. \A n \in Pids : ~InHand(n)
  BY DEF Core, StartInv
<1>2. pidMap = {} /\ rp.pc \notin {"read", "write"}
  BY <1>1 DEF InHand, TypeInv, MemOK, DaemonInv
<1> QED
  BY <1>1, <1>2 DEF Core, ExecInv

LEMMA CoreConnects ==
  ASSUME TypeInv, NEW x, NEW s, Core("s_net", x, s), daemon = "up", NEW b,
         \/ b = "s_reg" /\ rec' = UpdateContainer(s)
         \/ b = "s_undo" /\ rec' = rec,
         UNCHANGED <<bundle, procVars, memVars, daemonVars>>
  PROVE  Core(b, x, s)'
<1> USE DEF procVars, memVars, daemonVars
<1>1. /\ \A n \in Pids : proc[n] # "exec" /\ ~InHand(n)
      /\ pidMap = {} /\ rp.pc \notin {"read", "write"}
  BY NothingRuns
<1>2. Exists /\ Exists' /\ (b = "s_reg" => rec' = s) /\ (b = "s_undo" => rec' = rec)
  BY DEF Core, StartInv, StartLabels, CodeInv, Exists, UpdateContainer
<1>3. OneInit' /\ DownInv' /\ HandInv(b, x)'
  BY <1>1 DEF Core, OneInit, DownInv, HandInv, InHand, Alive
<1>4. StartInv(b, x)'
  BY <1>1, <1>2 DEF Core, StartInv, StartLabels, InHand
<1>5. ExecInv(b, x)' /\ FreshInv(b, x)' /\ DoneInv'
  BY <1>1 DEF Core, ExecInv, FreshInv, DoneInv
<1>6. RemoveInv(b)' /\ StopInv(b, x)'
  BY <1>2 DEF RemoveInv, StopInv
<1>7. CodeInv(b, x, s)'
  <2>1. \A n, r : Told(n, r)' <=> Told(n, r)
    BY DEF Told, Alive
  <2>2. \A n : Settled(n)' <=> Settled(n)
    BY DEF Settled
  <2>3. CASE b = "s_reg"
    BY <1>2, <2>1, <2>2, <2>3 DEF Core, CodeInv
  <2>4. CASE b = "s_undo"
    BY <1>2, <2>1, <2>2, <2>4 DEF Core, CodeInv, Names
  <2> QED
    BY <2>3, <2>4
<1> QED
  BY <1>3, <1>4, <1>5, <1>6, <1>7 DEF Core

LEMMA CoreRegisters ==
  ASSUME TypeInv, NEW x, NEW s, Core("s_reg", x, s), daemon = "up",
         active' = x, pidMap' = pidMap \cup {x},
         UNCHANGED <<manual, done, acExit, procVars, diskVars, daemonVars>>
  PROVE  Core("s_run", x, s)'
<1> USE DEF procVars, diskVars, daemonVars
<1>1. /\ \A n \in Pids : proc[n] # "exec" /\ ~InHand(n)
      /\ pidMap = {} /\ rp.pc \notin {"read", "write"}
  BY NothingRuns
<1>2. x \in Pids /\ x = pids /\ crunPid = pids /\ x \notin orphans /\ pidMap' = {x} /\ Exists
  BY <1>1 DEF Core, StartInv, StartLabels
<1>3. OneInit' /\ DownInv' /\ HandInv("s_run", x)'
  BY <1>1, <1>2 DEF Core, OneInit, DownInv, HandInv, InHand, Alive
<1>4. StartInv("s_run", x)'
  BY <1>1, <1>2 DEF StartInv, Exists
<1>5. ExecInv("s_run", x)' /\ FreshInv("s_run", x)' /\ DoneInv'
  BY <1>1, <1>2 DEF Core, ExecInv, FreshInv, DoneInv
<1>6. RemoveInv("s_run")' /\ StopInv("s_run", x)'
  BY <1>2 DEF RemoveInv, StopInv, Exists
<1>7. CodeInv("s_run", x, s)'
  BY DEF Core, CodeInv, Told, Alive, Settled, Exists, Names
<1> QED
  BY <1>3, <1>4, <1>5, <1>6, <1>7 DEF Core

LEMMA CoreRecords ==
  ASSUME TypeInv, NEW x, NEW s \in Record, Core("s_run", x, s),
         rec' = UpdateContainer(Running(s, x)),
         UNCHANGED <<bundle, exitFile, ep, cfg, procVars, memVars, daemonVars>>
  PROVE  Core("s_exec", x, s)'
<1> USE DEF procVars, memVars, daemonVars
<1>1. x \in Pids /\ x = pids /\ crunPid = pids /\ x \notin orphans /\ Exists /\ proc[x] # "exec"
  BY DEF Core, StartInv, StartLabels
<1>2. Exists' /\ rec'.exit = s.exit /\ Names(x)'
  BY <1>1 DEF UpdateContainer, Running, Names, Exists, Record
<1>3. OneInit' /\ DownInv'
  BY DEF Core, OneInit, DownInv, Alive
<1>4. HandInv("s_exec", x)'
  BY <1>1, <1>2 DEF Core, HandInv, InHand, Names
<1>5. StartInv("s_exec", x)'
  BY <1>2 DEF Core, StartInv, Alive
<1>6. ExecInv("s_exec", x)' /\ FreshInv("s_exec", x)' /\ DoneInv'
  <2>1. \A n \in Pids : proc[n] # "exec"
    BY <1>1 DEF Core, OneInit, Alive
  <2> QED
    BY <2>1 DEF Core, ExecInv, FreshInv, DoneInv
<1>7. RemoveInv("s_exec")' /\ StopInv("s_exec", x)'
  BY <1>2 DEF RemoveInv, StopInv
<1>8. CodeInv("s_exec", x, s)'
  <2>1. \A n : Told(n, s) => Told(n, rec)'
    BY <1>2 DEF Told, Alive
  <2>2. \A n \in Pids : Settled(n)' => Told(n, s) \/ n = x
    BY DEF Core, CodeInv, Settled
  <2>3. \A n \in Pids : Settled(n)' => Told(n, rec)' \/ Names(n)'
    BY <1>2, <2>1, <2>2
  <2>4. \A n \in Pids : done'[n] \/ rp'.ac = n => acExit'[n] = code'[n]
    BY DEF Core, CodeInv
  <2> QED
    BY <2>3, <2>4 DEF CodeInv
<1> QED
  BY <1>3, <1>4, <1>5, <1>6, <1>7, <1>8 DEF Core

LEMMA CoreRuns ==
  ASSUME TypeInv, NEW x, NEW s, Core("s_exec", x, s), daemon = "up",
         NEW b \in {"idle", "s_unreg"}, NEW y, NEW r, b = "s_unreg" => y = x,
         Alive(crunPid) /\ proc[crunPid] = "ready" /\ proc' = [proc EXCEPT ![crunPid] = "exec"],
         UNCHANGED <<code, orphans, pids, crunPid, frozen, diskVars, memVars, daemonVars>>
  PROVE  Core(b, y, r)'
<1> USE DEF diskVars, memVars, daemonVars
<1>1. x \in Pids /\ x = pids /\ crunPid = x /\ x \notin orphans /\ Exists
  BY DEF Core, StartInv, StartLabels
<1>2. /\ proc[x] = "ready" /\ proc'[x] = "exec"
      /\ \A k \in Pids : k # x => proc'[k] = proc[k] /\ ~Alive(k)
  BY <1>1 DEF Core, OneInit, TypeInv, ProcOK
<1>3. x \in pidMap /\ Names(x)
  BY <1>1, <1>2 DEF Core, StartInv, HandInv, InHand, Alive
<1>4. \A k : Alive(k)' <=> Alive(k)
  BY <1>1, <1>2 DEF Alive
<1>5. OneInit' /\ DownInv'
  BY <1>1, <1>2, <1>4 DEF Core, OneInit, DownInv
<1>6. HandInv(b, y)'
  BY DEF Core, HandInv, InHand, Names, Exists
<1>7. StartInv(b, y)'
  BY <1>1 DEF StartInv, Exists, StartLabels
<1>8. ExecInv(b, y)' /\ FreshInv(b, y)' /\ DoneInv'
  <2>1. ExecInv(b, y)'
    BY <1>2, <1>3 DEF ExecInv, Names, Alive
  <2>2. FreshInv(b, y)'
    BY <1>1, <1>2 DEF Core, HandInv, InHand, FreshInv, TypeInv, MemOK
  <2>3. DoneInv'
    BY <1>2 DEF Core, DoneInv, TypeInv, DaemonInv
  <2> QED
    BY <2>1, <2>2, <2>3
<1>9. RemoveInv(b)' /\ StopInv(b, y)'
  BY <1>1 DEF RemoveInv, StopInv, Exists
<1>10. CodeInv(b, y, r)'
  BY <1>4 DEF Core, CodeInv, Told, Settled, Exists, Names
<1> QED
  BY <1>5, <1>6, <1>7, <1>8, <1>9, <1>10 DEF Core

LEMMA CoreFails ==
  ASSUME NEW x, NEW s, Core("s_exec", x, s)
  PROVE  Core("s_unreg", x, s)
BY DEF Core, HandInv, StartInv, ExecInv, FreshInv, RemoveInv, StopInv, CodeInv, StartLabels

LEMMA CoreUnregisters ==
  ASSUME TypeInv, NEW x, NEW s, Core("s_unreg", x, s),
         active' = NoPid, pidMap' = pidMap \ {x},
         UNCHANGED <<manual, done, acExit, procVars, diskVars, daemonVars>>
  PROVE  Core("s_undo", x, s)'
<1> USE DEF procVars, diskVars, daemonVars
<1>1. x \in Pids /\ x = pids /\ crunPid = pids /\ x \notin orphans /\ Exists
  BY DEF Core, StartInv, StartLabels
<1>2. pidMap' = {}
  BY <1>1 DEF Core, HandInv, InHand, TypeInv, MemOK
<1>3. OneInit' /\ DownInv' /\ HandInv("s_undo", x)'
  BY <1>2 DEF Core, OneInit, DownInv, HandInv, InHand, Alive, Names, Exists
<1>4. StartInv("s_undo", x)'
  BY <1>1 DEF StartInv, Exists
<1>5. ExecInv("s_undo", x)' /\ FreshInv("s_undo", x)' /\ DoneInv'
  BY <1>1, <1>2 DEF Core, OneInit, Alive, ExecInv, FreshInv, DoneInv, Names
<1>6. RemoveInv("s_undo")' /\ StopInv("s_undo", x)'
  BY <1>1 DEF RemoveInv, StopInv, Exists
<1>7. CodeInv("s_undo", x, s)'
  BY DEF Core, CodeInv, Told, Alive, Settled, Exists, Names
<1> QED
  BY <1>3, <1>4, <1>5, <1>6, <1>7 DEF Core

\* The steps of Stop and Remove

LEMMA CoreWaits ==
  ASSUME NEW a \in Quiet, NEW x, NEW s, Core(a, x, s), active # NoPid
  PROVE  Core("p_wait", active, s)
<1>1. HandInv("p_wait", active) /\ StartInv("p_wait", active)
  BY DEF Core, HandInv, StartInv, StartLabels, Quiet, Waiting
<1>2. ExecInv("p_wait", active) /\ FreshInv("p_wait", active)
  BY DEF Core, ExecInv, FreshInv, Quiet, Waiting
<1>3. RemoveInv("p_wait") /\ StopInv("p_wait", active) /\ CodeInv("p_wait", active, s)
  BY DEF Core, RemoveInv, StopInv, CodeInv, Quiet, Waiting
<1> QED
  BY <1>1, <1>2, <1>3 DEF Core

LEMMA CoreRemoves ==
  ASSUME TypeInv, NEW a, NEW x, NEW s, Core(a, x, s), NEW b, NEW y, NEW r,
         \/ /\ a = "r_disc" /\ b = "r_del" /\ ep' = NoPid
            /\ UNCHANGED <<rec, bundle, exitFile, cfg, active>>
         \/ /\ a = "r_bundle" /\ b = "r_store" /\ bundle' = FALSE
            /\ UNCHANGED <<rec, ep, cfg, active>>
         \/ /\ a = "r_store" /\ b = "r_unreg" /\ rec' = NoRec
            /\ UNCHANGED <<bundle, exitFile, ep, cfg, active>>
         \/ /\ a = "r_unreg" /\ b = "idle" /\ active' = NoPid
            /\ UNCHANGED diskVars,
         UNCHANGED <<pidMap, manual, done, acExit, procVars, daemonVars>>
  PROVE  Core(b, y, r)'
<1> USE DEF procVars, diskVars, daemonVars
<1>1. OneInit' /\ DownInv' /\ DoneInv'
  BY DEF Core, OneInit, DownInv, DoneInv, Alive
<1>2. HandInv(b, y)'
  BY DEF Core, HandInv, InHand, Names, Exists, NoRec
<1>3. StartInv(b, y)'
  BY DEF StartInv, StartLabels
<1>4. ExecInv(b, y)'
  <2>1. CASE a = "r_store"
    BY <2>1 DEF Core, RemoveInv, OneInit, Alive, ExecInv, NoPid, Pids
  <2>2. CASE a # "r_store"
    BY <2>2 DEF Core, ExecInv, Names
  <2> QED
    BY <2>1, <2>2
<1>5. FreshInv(b, y)'
  BY DEF Core, FreshInv
<1>6. RemoveInv(b)' /\ StopInv(b, y)'
  BY DEF Core, RemoveInv, StopInv, Exists, NoRec
<1>7. CodeInv(b, y, r)'
  BY DEF Core, CodeInv, Told, Alive, Settled, Exists, Names, NoRec
<1> QED
  BY <1>1, <1>2, <1>3, <1>4, <1>5, <1>6, <1>7 DEF Core

\* The reaper's steps, wherever the client is

LEMMA CoreReaps ==
  ASSUME TypeInv, NEW a, NEW x, NEW s, Core(a, x, s), NEW n \in Pids, ReapWait(n)
  PROVE  Core(a, x, s)'
<1> USE DEF ReapWait, diskVars, memVars
<1>1. /\ proc \in [Pids -> {"none", "ready", "exec", "zombie", "gone"}]
      /\ rp.pc = "idle" /\ rp'.pid = n /\ rp'.pc \in {"file", "lookup"} /\ rp'.ac = NoPid
  BY DEF TypeInv, ProcOK, RpIdle, ReaperAt
<1>2. /\ proc[n] = "zombie" /\ proc'[n] = "gone" /\ \A k \in Pids : k # n => proc'[k] = proc[k]
      /\ \A k : Alive(k)' <=> Alive(k)
  BY <1>1 DEF Alive
<1>3. \A k : InHand(k)' => InHand(k)
  BY <1>1 DEF InHand
<1>4. OneInit' /\ DownInv'
  BY <1>2 DEF Core, OneInit, DownInv, ReaperAt
<1>5. HandInv(a, x)' /\ StartInv(a, x)'
  BY <1>2, <1>3 DEF Core, HandInv, StartInv, Names, Exists
<1>6. ExecInv(a, x)' /\ FreshInv(a, x)'
  BY <1>1, <1>2 DEF Core, ExecInv, FreshInv, Names, TypeInv, MemOK
<1>7. DoneInv'
  BY <1>1, <1>2 DEF Core, DoneInv
<1>8. RemoveInv(a)' /\ StopInv(a, x)'
  BY DEF Core, RemoveInv, StopInv, Exists
<1>9. CodeInv(a, x, s)'
  <2>1. \A k \in Pids : rp'.ac # k
    BY <1>1 DEF NoPid, Pids
  <2>2. \A k, r : Told(k, r)' <=> Told(k, r)
    BY <1>2 DEF Told
  <2> QED
    BY <2>1, <2>2 DEF Core, CodeInv, Settled, Names, Exists
<1> QED
  BY <1>4, <1>5, <1>6, <1>7, <1>8, <1>9 DEF Core

LEMMA CoreFiles ==
  ASSUME TypeInv, NEW a, NEW x, NEW s, Core(a, x, s), ReapFile
  PROVE  Core(a, x, s)'
<1> USE DEF ReapFile, procVars, memVars
<1>1. /\ rp'.pid = rp.pid /\ rp'.ac = rp.ac /\ rp.pc = "file" /\ rp'.pc = "lookup" /\ rp.pid \in Pids
  BY DEF TypeInv, DaemonInv, DaemonOK, ReaperAt
<1>2. OneInit' /\ DownInv'
  BY DEF Core, OneInit, DownInv, Alive, ReaperAt
<1>3. HandInv(a, x)' /\ StartInv(a, x)'
  BY <1>1 DEF Core, HandInv, StartInv, InHand, Names, Exists, Alive
<1>4. ExecInv(a, x)' /\ FreshInv(a, x)' /\ DoneInv'
  BY <1>1 DEF Core, ExecInv, FreshInv, DoneInv, Names
<1>5. RemoveInv(a)' /\ StopInv(a, x)'
  BY DEF Core, RemoveInv, StopInv, Exists
<1>6. CodeInv(a, x, s)'
  BY <1>1 DEF Core, CodeInv, Settled, Told, Alive, Names, Exists
<1> QED
  BY <1>2, <1>3, <1>4, <1>5, <1>6 DEF Core

LEMMA CoreLooks ==
  ASSUME TypeInv, NEW a, NEW x, NEW s, Core(a, x, s), ExitLookup
  PROVE  Core(a, x, s)'
<1> USE DEF ExitLookup, procVars, diskVars
<1>1. /\ rp.pc = "lookup" /\ rp.pid \in Pids /\ proc[rp.pid] = "gone" /\ daemon = "up"
      /\ ~done[rp.pid] /\ acExit \in [Pids -> Codes]
  BY DEF TypeInv, DaemonInv, DaemonOK, MemOK, ReaperAt, Core, DoneInv
<1>2. OneInit'
  BY DEF Core, OneInit, Alive
<1>3. CASE rp.pid \in pidMap
  <2>1. /\ rp'.pid = rp.pid /\ rp'.ac = active /\ rp'.pc = "read" /\ pidMap' = pidMap \ {rp.pid}
        /\ UNCHANGED <<active, done, daemon, crashes, oom, manual>>
        /\ acExit' = IF active = NoPid THEN acExit ELSE [acExit EXCEPT ![active] = code[rp.pid]]
    BY <1>3 DEF TypeInv, DaemonInv, DaemonOK
  <2>2. active \in {rp.pid, NoPid} /\ rp.pid = pids /\ pidMap' = {}
    BY <1>1, <1>3, <2>1 DEF Core, HandInv, InHand, TypeInv, MemOK
  <2>3. \A n \in Pids : InHand(n)' => InHand(n)
    BY <1>3, <2>1 DEF InHand
  <2>4. DownInv' /\ HandInv(a, x)'
    BY <1>1, <2>1, <2>2, <2>3 DEF DownInv, Core, HandInv, Names, Exists
  <2>5. StartInv(a, x)'
    BY <1>1, <2>1, <2>3 DEF Core, StartInv, Exists, Alive
  <2>6. ExecInv(a, x)' /\ FreshInv(a, x)'
    BY <1>1, <2>1, <2>2 DEF Core, ExecInv, FreshInv, Names
  <2>7. DoneInv'
    BY <1>1, <2>1, <2>2 DEF Core, DoneInv
  <2>8. RemoveInv(a)' /\ StopInv(a, x)'
    BY <2>1 DEF Core, RemoveInv, StopInv, Exists
  <2>9. CodeInv(a, x, s)'
    <3>1. \A n \in Pids : done'[n] \/ rp'.ac = n => acExit'[n] = code'[n]
      BY <1>1, <2>1, <2>2 DEF Core, CodeInv, NoPid, Pids
    <3>2. \A n \in Pids : Settled(n)' => Settled(n)
      BY <2>1 DEF Settled
    <3> QED
      BY <3>1, <3>2 DEF Core, CodeInv, Told, Alive, Names, Exists
  <2> QED
    BY <1>2, <2>4, <2>5, <2>6, <2>7, <2>8, <2>9 DEF Core
<1>4. CASE rp.pid \notin pidMap
  <2>1. rp' = RpIdle /\ UNCHANGED <<memVars, daemon, crashes, oom>>
    BY <1>4 DEF memVars
  <2>2. rp'.pid = NoPid /\ rp'.ac = NoPid /\ rp'.pc = "idle" /\ NoPid \notin Pids
    BY <2>1 DEF RpIdle, NoPid, Pids
  <2> USE DEF memVars
  <2>3. DownInv' /\ HandInv(a, x)' /\ StartInv(a, x)'
    BY <1>1, <2>1, <2>2 DEF Core, DownInv, HandInv, StartInv, InHand, Names, Exists, Alive
  <2>4. ExecInv(a, x)' /\ FreshInv(a, x)' /\ DoneInv'
    BY <1>4, <2>1, <2>2 DEF Core, ExecInv, FreshInv, DoneInv, Names
  <2>5. RemoveInv(a)' /\ StopInv(a, x)'
    BY <2>1 DEF Core, RemoveInv, StopInv, Exists
  <2>6. CodeInv(a, x, s)'
    BY <2>1, <2>2 DEF Core, CodeInv, Settled, Told, Alive, Names, Exists
  <2> QED
    BY <1>2, <2>3, <2>4, <2>5, <2>6 DEF Core
<1> QED
  BY <1>3, <1>4

LEMMA CoreReads ==
  ASSUME TypeInv, NEW a, NEW x, NEW s, Core(a, x, s), ExitRead
  PROVE  Core(a, x, s)'
<1> USE DEF ExitRead, procVars, diskVars, memVars
<1>1. /\ rp.pc = "read" /\ daemon = "up" /\ rp'.pid = rp.pid /\ rp'.ac = rp.ac
      /\ rp'.pc = IF Exists THEN "write" ELSE "close"
  BY DEF TypeInv, DaemonInv, DaemonOK, ReaperAt
<1>2. OneInit' /\ DownInv'
  BY <1>1 DEF Core, OneInit, DownInv, Alive
<1>3. HandInv(a, x)' /\ StartInv(a, x)'
  BY <1>1 DEF Core, HandInv, StartInv, InHand, Names, Exists, Alive
<1>4. ExecInv(a, x)' /\ FreshInv(a, x)' /\ DoneInv'
  BY <1>1 DEF Core, ExecInv, FreshInv, DoneInv, Names
<1>5. RemoveInv(a)' /\ StopInv(a, x)'
  BY DEF Core, RemoveInv, StopInv, Exists
<1>6. CodeInv(a, x, s)'
  <2>1. Exists => \A n : Settled(n)' => Settled(n)
    BY <1>1 DEF Settled
  <2>2. a \in {"s_create", "s_net", "s_reg", "s_run"} => Exists
    BY DEF Core, StartInv, StartLabels
  <2> QED
    BY <1>1, <2>1, <2>2 DEF Core, CodeInv, Told, Alive, Names, Exists
<1> QED
  BY <1>2, <1>3, <1>4, <1>5, <1>6 DEF Core

LEMMA CoreWrites ==
  ASSUME TypeInv, NEW a, NEW x, NEW s, Core(a, x, s), ExitWrite
  PROVE  Core(a, x, s)'
<1> USE DEF ExitWrite, procVars, memVars
<1>1. /\ rp.pc = "write" /\ daemon = "up" /\ rp.pid \in Pids /\ proc[rp.pid] = "gone"
      /\ rp'.pc = "disc" /\ rp'.pid = rp.pid /\ rp'.ac = rp.ac /\ rp.rec \in Record
      /\ rp.pid \notin pidMap
  BY DEF TypeInv, DaemonInv, DaemonOK, ReaperAt, Core, DoneInv
<1>2. InHand(rp.pid) /\ rp.pid = pids /\ (Names(pids) \/ ~Exists \/ (a = "s_run" /\ x = pids))
  BY <1>1 DEF InHand, Core, HandInv
<1>3. pidMap = {} /\ \A n : ~InHand(n)'
  BY <1>1, <1>2 DEF Core, HandInv, InHand, TypeInv, MemOK
<1>4. a \notin {"s_create", "s_net", "s_reg"}
  BY <1>1, <1>2 DEF Core, StartInv
<1>5. \A n \in Pids : proc[n] # "exec"
  BY <1>1, <1>2, <1>3 DEF Core, ExecInv, StartInv
<1>6. /\ Exists' <=> Exists
      /\ Exists => rec'.exit = code[pids]
      /\ ~Exists => rec' = rec
  BY <1>1, <1>2 DEF Exists, UpdateContainer, Exited, Record
<1>7. OneInit' /\ DownInv' /\ HandInv(a, x)'
  BY <1>1, <1>3 DEF Core, OneInit, DownInv, HandInv, Alive
<1>8. StartInv(a, x)'
  BY <1>4, <1>6 DEF Core, StartInv, Alive
<1>9. ExecInv(a, x)' /\ FreshInv(a, x)' /\ DoneInv'
  BY <1>1, <1>3, <1>5 DEF Core, ExecInv, FreshInv, DoneInv
<1>10. RemoveInv(a)' /\ StopInv(a, x)'
  BY <1>6 DEF Core, RemoveInv, StopInv
<1>11. CodeInv(a, x, s)'
  <2>1. ASSUME Exists, NEW n \in Pids, Settled(n)' PROVE Told(n, rec)'
    <3>1. done[n] \/ n = rp.pid
      BY <1>1, <2>1 DEF Settled, Core, DoneInv, NoPid, Pids
    <3>2. n <= pids
      BY <1>2, <3>1 DEF Core, DoneInv, OneInit, TypeInv, ProcOK, Pids
    <3>3. pids \in n..pids /\ ~Alive(pids)'
      BY <1>1, <1>2, <3>2, Bounds DEF Alive, Pids
    <3> QED
      BY <1>6, <2>1, <3>3 DEF Told
  <2>2. ASSUME a = "s_run", NEW n \in Pids, Settled(n)' PROVE Settled(n) \/ n = x
    <3>1. x = pids
      BY <2>2 DEF Core, StartInv
    <3> QED
      BY <1>1, <1>2, <2>2, <3>1 DEF Settled, Core, DoneInv, NoPid, Pids
  <2>3. \A n : Told(n, s)' <=> Told(n, s)
    BY DEF Told, Alive
  <2> QED
    BY <1>1, <1>4, <1>6, <2>1, <2>2, <2>3 DEF Core, CodeInv
<1> QED
  BY <1>7, <1>8, <1>9, <1>10, <1>11 DEF Core

LEMMA CoreDisconnects ==
  ASSUME TypeInv, NEW a, NEW x, NEW s, Core(a, x, s), ExitDisconnect
  PROVE  Core(a, x, s)'
<1> USE DEF ExitDisconnect, procVars, memVars
<1>1. /\ rp.pc = "disc" /\ daemon = "up" /\ rp'.pid = rp.pid /\ rp'.ac = rp.ac /\ rp'.pc = "close"
  BY DEF TypeInv, DaemonInv, DaemonOK, ReaperAt
<1>2. OneInit' /\ DownInv'
  BY <1>1 DEF Core, OneInit, DownInv, Alive
<1>3. HandInv(a, x)' /\ StartInv(a, x)'
  BY <1>1 DEF Core, HandInv, StartInv, InHand, Names, Exists, Alive
<1>4. ExecInv(a, x)' /\ FreshInv(a, x)' /\ DoneInv'
  BY <1>1 DEF Core, ExecInv, FreshInv, DoneInv, Names
<1>5. RemoveInv(a)' /\ StopInv(a, x)'
  BY DEF Core, RemoveInv, StopInv, Exists
<1>6. CodeInv(a, x, s)'
  BY <1>1 DEF Core, CodeInv, Settled, Told, Alive, Names, Exists
<1> QED
  BY <1>2, <1>3, <1>4, <1>5, <1>6 DEF Core

\* The channel HandleExit closes is open: the daemon does not panic.
LEMMA CoreCloses ==
  ASSUME TypeInv, NEW a, NEW x, NEW s, Core(a, x, s), ExitClose
  PROVE  Core(a, x, s)' /\ UNCHANGED <<threadVars, oom, daemon>>
<1>1. /\ rp.pc = "close" /\ daemon = "up" /\ rp.pid \in Pids /\ proc[rp.pid] = "gone"
      /\ rp.ac \in {NoPid, rp.pid} /\ ~done[rp.pid] /\ done \in [Pids -> BOOLEAN]
  BY DEF ExitClose, TypeInv, DaemonInv, DaemonOK, MemOK, ReaperAt, Core, DoneInv
<1>2. /\ done' = IF rp.ac = NoPid THEN done ELSE [done EXCEPT ![rp.ac] = TRUE]
      /\ rp' = IF rp.rec = NoRec THEN RpIdle ELSE [rp EXCEPT !.pc = "after"]
      /\ UNCHANGED <<active, pidMap, manual, acExit, procVars, diskVars, threadVars>>
      /\ UNCHANGED <<oom, daemon, crashes>>
  BY <1>1 DEF ExitClose
<1> USE DEF procVars, diskVars
<1>3. \/ rp'.pc = "idle" /\ rp'.ac = NoPid /\ rp'.pid = NoPid
      \/ rp'.pc = "after" /\ rp'.ac = rp.ac /\ rp'.pid = rp.pid
  BY <1>2 DEF RpIdle, TypeInv, DaemonInv, DaemonOK
<1>4. /\ \A n \in Pids : done'[n] <=> done[n] \/ n = rp.ac
      /\ NoPid \notin Pids
  BY <1>1, <1>2 DEF NoPid, Pids
<1>5. OneInit' /\ DownInv'
  BY <1>1, <1>2 DEF Core, OneInit, DownInv, Alive
<1>6. HandInv(a, x)' /\ StartInv(a, x)'
  BY <1>1, <1>2, <1>3 DEF Core, HandInv, StartInv, InHand, Names, Exists, Alive
<1>7. ExecInv(a, x)' /\ FreshInv(a, x)'
  BY <1>1, <1>2, <1>3 DEF Core, ExecInv, FreshInv, Names
<1>8. DoneInv'
  BY <1>1, <1>2, <1>3, <1>4 DEF Core, DoneInv
<1>9. RemoveInv(a)' /\ StopInv(a, x)'
  BY <1>2 DEF Core, RemoveInv, StopInv, Exists
<1>10. CodeInv(a, x, s)'
  <2>1. \A n \in Pids : Settled(n)' => Settled(n)
    BY <1>1, <1>3, <1>4 DEF Settled
  <2>2. \A n \in Pids : done'[n] \/ rp'.ac = n => done[n] \/ rp.ac = n
    BY <1>3, <1>4
  <2> QED
    BY <1>2, <2>1, <2>2 DEF Core, CodeInv, Told, Alive, Names, Exists
<1> QED
  BY <1>2, <1>5, <1>6, <1>7, <1>8, <1>9, <1>10 DEF Core

LEMMA CoreEnds ==
  ASSUME TypeInv, NEW a, NEW x, NEW s, Core(a, x, s), ExitAfter, cfg.policy = "no" /\ ~cfg.autoRemove
  PROVE  Core(a, x, s)' /\ UNCHANGED <<threadVars, oom, daemon>>
<1>1. /\ UNCHANGED <<procVars, diskVars, memVars, threadVars, oom, daemon, crashes>>
      /\ rp' = RpIdle /\ rp.pc = "after" /\ daemon = "up"
  BY DEF ExitAfter, ShouldRestart, ReaperAt, diskVars
<1>2. rp'.pid = NoPid /\ rp'.ac = NoPid /\ rp'.pc = "idle" /\ NoPid \notin Pids
  BY <1>1 DEF RpIdle, NoPid, Pids
<1> USE DEF procVars, diskVars, memVars
<1>3. OneInit' /\ DownInv' /\ DoneInv'
  BY <1>1, <1>2 DEF Core, OneInit, DownInv, DoneInv, Alive
<1>4. HandInv(a, x)' /\ StartInv(a, x)'
  BY <1>1, <1>2 DEF Core, HandInv, StartInv, InHand, Names, Exists, Alive
<1>5. ExecInv(a, x)' /\ FreshInv(a, x)'
  BY <1>1 DEF Core, ExecInv, FreshInv, Names
<1>6. RemoveInv(a)' /\ StopInv(a, x)'
  BY <1>1 DEF Core, RemoveInv, StopInv, Exists
<1>7. CodeInv(a, x, s)'
  BY <1>1, <1>2 DEF Core, CodeInv, Settled, Told, Alive, Names, Exists
<1> QED
  BY <1>1, <1>3, <1>4, <1>5, <1>6, <1>7 DEF Core

\* Death and rebirth of the daemon

LEMMA CoreCrashes ==
  ASSUME TypeInv, NEW a, NEW x, NEW s, Core(a, x, s), Crash, NEW y, NEW r
  PROVE  Core("idle", y, r)'
<1> USE DEF Crash, DaemonDies, diskVars
<1>1. /\ \A k : Alive(k)' <=> Alive(k)
      /\ \A k \in Pids : (proc'[k] = "none" <=> proc[k] = "none") /\ (proc'[k] = "exec" <=> proc[k] = "exec")
  BY DEF Alive, TypeInv, ProcOK
<1>2. rp'.pid = NoPid /\ rp'.ac = NoPid /\ rp'.pc = "idle" /\ NoPid \notin Pids
  BY DEF RpIdle, NoPid, Pids
<1>3. OneInit'
  BY <1>1 DEF Core, OneInit
<1>4. DownInv'
  BY DEF DownInv, TypeInv, DaemonInv, DaemonOK
<1>5. HandInv("idle", y)' /\ StartInv("idle", y)' /\ FreshInv("idle", y)' /\ StopInv("idle", y)'
  BY <1>2 DEF HandInv, InHand, StartInv, StartLabels, FreshInv, StopInv
<1>6. ExecInv("idle", y)' /\ DoneInv'
  BY <1>1, <1>2 DEF Core, ExecInv, DoneInv, Names
<1>7. RemoveInv("idle")'
  BY DEF Core, RemoveInv, Exists, TypeInv, DaemonInv, DaemonOK
<1>8. CodeInv("idle", y, r)'
  BY <1>2 DEF CodeInv, Settled
<1> QED
  BY <1>3, <1>4, <1>5, <1>6, <1>7, <1>8 DEF Core

LEMMA CoreBoots ==
  ASSUME TypeInv, NEW x, NEW s, Core("idle", x, s), Boot
  PROVE  Core("idle", x, s)'
<1> USE DEF Boot, memVars
<1>1. /\ daemon = "down" /\ active = NoPid /\ pidMap = {} /\ (\A n \in Pids : ~done[n]) /\ crashes > 0
      /\ rp.pid = NoPid /\ rp.ac = NoPid /\ rp.pc = "idle" /\ NoPid \notin Pids
      /\ UNCHANGED <<active, pidMap, done, rp, crashes>> /\ daemon' = "up"
  BY DEF Core, DownInv, RpIdle, NoPid, Pids
<1>2. /\ crunPid' \in {NoPid, crunPid} /\ pids' = pids /\ orphans' = orphans
      /\ proc \in [Pids -> {"none", "ready", "exec", "zombie", "gone"}]
      /\ (proc' = proc \/ (Alive(crunPid) /\ proc' = [proc EXCEPT ![crunPid] = Corpse(crunPid)]))
  BY DEF CrunDelete, KillInit, procVars, TypeInv, ProcOK
<1>3. \A n \in Pids : /\ proc'[n] = "none" => proc[n] = "none"
                      /\ proc[n] = "none" => proc'[n] = "none"
                      /\ proc'[n] # "exec"
                      /\ Alive(n)' => Alive(n) /\ UNCHANGED crunPid
  <2>1. CASE CrunDelete
    <3>1. ~Alive(crunPid) => \A n \in Pids : ~Alive(n)
      BY DEF Core, OneInit
    <3>2. CASE Alive(crunPid)
      BY <1>2, <2>1, <3>2 DEF CrunDelete, KillInit, Core, OneInit, Alive, Corpse
    <3>3. CASE ~Alive(crunPid)
      BY <2>1, <3>1, <3>3 DEF CrunDelete, KillInit, Alive
    <3> QED
      BY <3>2, <3>3
  <2>2. CASE UNCHANGED procVars /\ rec.status \in {"absent", "exited", "paused"}
    BY <2>2 DEF procVars, Core, ExecInv, Names, Alive
  <2> QED
    BY <2>1, <2>2
<1>4. OneInit'
  BY <1>2, <1>3 DEF Core, OneInit, Alive
<1>5. DownInv' /\ HandInv("idle", x)' /\ StartInv("idle", x)' /\ FreshInv("idle", x)' /\ StopInv("idle", x)'
  BY <1>1 DEF DownInv, HandInv, InHand, StartInv, StartLabels, FreshInv, StopInv
<1>6. ExecInv("idle", x)' /\ DoneInv'
  BY <1>1, <1>3 DEF ExecInv, DoneInv
<1>7. RemoveInv("idle")'
  <2>1. CASE rec.status \in {"running", "restarting"}
    BY <1>1, <2>1 DEF RemoveInv, Exists, Exited, TypeInv, DiskOK, Record
  <2>2. CASE rec.status = "created"
    BY <1>1, <2>2 DEF RemoveInv, Exists, CrunDelete, NoRec
  <2>3. CASE rec.status \in {"absent", "exited", "paused"}
    BY <1>1, <2>3 DEF Core, RemoveInv, Exists, procVars
  <2> QED
    BY <2>1, <2>2, <2>3
<1>8. CodeInv("idle", x, s)'
  BY <1>1 DEF CodeInv, Settled
<1> QED
  BY <1>4, <1>5, <1>6, <1>7, <1>8 DEF Core

\* The client's goroutine goes on, the others and the daemon stay.
Stays == UNCHANGED <<done, daemon, oom>> /\ daemon = "up"

LEMMA DriverGoes ==
  ASSUME TypeInv, NEW m, Serial(m), OneDriver(m), Stays, NEW b \in Quiet \cup Busy, NEW y, NEW r,
         Core(b, y, r)', pc' = [pc EXCEPT ![m] = b], my'[m] = y, snap'[m] = r,
         \A t \in Threads \ {m} : my'[t] = my[t], job' = job, b = "w_code" => done[y]
  PROVE  SerialInv(m)'
<1>1. m \in Threads /\ pc \in [Threads -> Labels]
  BY DEF Serial, Threads, TypeInv, ThreadInv, ThreadOK
<1>2. pc'[m] = b /\ \A t \in Threads \ {m} : pc'[t] = pc[t]
  BY <1>1
<1>3. Core(pc[m], my[m], snap[m])'
  BY <1>2, CoreBack
<1>4. OneDriver(m)'
  BY <1>2 DEF OneDriver, Stays
<1> QED
  BY <1>3, <1>4 DEF SerialInv

LEMMA GotoGoes ==
  ASSUME TypeInv, NEW m, Serial(m), OneDriver(m), Stays, NEW b \in (Quiet \cup Busy) \ {"w_code"},
         NEW x, NEW s, x = my[m], s = snap[m], Core(b, x, s)', Goto(m, b)
  PROVE  SerialInv(m)'
BY DriverGoes DEF Goto

LEMMA FinishIdles ==
  ASSUME TypeInv, NEW t \in Threads, job[t] = NoRec, NEW result, Finish(t, result)
  PROVE  /\ pc' = [pc EXCEPT ![t] = "idle"] /\ my'[t] = NoPid /\ snap'[t] = NoRec /\ job' = job
         /\ \A u \in Threads \ {t} : my'[u] = my[u]
         /\ ret' = [ret EXCEPT ![t] = IF t \in Clients THEN result ELSE "none"]
         /\ got' = [got EXCEPT ![t] = NoCode]
<1>1. job[t].status # "restarting"
  BY DEF NoRec
<1> QED
  BY <1>1 DEF Finish, TypeInv, ThreadInv, ThreadOK

LEMMA FinishGoes ==
  ASSUME TypeInv, NEW m, Serial(m), OneDriver(m), Stays, Core("idle", NoPid, NoRec)',
         NEW result, Finish(m, result)
  PROVE  SerialInv(m)'
<1>1. m \in Threads /\ job[m] = NoRec /\ "idle" \in Quiet \cup Busy
  BY DEF Serial, Threads, OneDriver, Quiet, Waiting
<1>2. /\ pc' = [pc EXCEPT ![m] = "idle"] /\ my'[m] = NoPid /\ snap'[m] = NoRec /\ job' = job
      /\ \A u \in Threads \ {m} : my'[u] = my[u]
  BY <1>1, FinishIdles
<1> QED
  BY <1>1, <1>2, DriverGoes

\* A step with nothing left to do behind it, and with no effect the invariant sees.
Still == UNCHANGED <<proc, code, orphans, pids, crunPid, rec, bundle, ep, active, pidMap, acExit, rp, crashes>>

LEMMA QuietGoes ==
  ASSUME TypeInv, NEW m, Serial(m), SerialInv(m), Stays, Still, pc[m] \notin Owing,
         \/ \E b \in Quiet \ {"w_code"} : Goto(m, b)
         \/ \E result : Finish(m, result)
  PROVE  SerialInv(m)'
<1>1. PICK a, x, s : a = pc[m] /\ x = my[m] /\ s = snap[m]
  OBVIOUS
<1>2. Core(a, x, s) /\ OneDriver(m)
  BY <1>1, CoreAt DEF SerialInv
<1>3. Core(a, x, s)'
  BY <1>2, CoreSame DEF Stays, Still
<1>4. ASSUME NEW b \in Quiet, NEW y, NEW r PROVE Core(b, y, r)'
  <2>1. Core(b, y, r)
    BY <1>1, <1>2, CoreMoves
  <2> QED
    BY <2>1, CoreSame DEF Stays, Still
<1>5. ASSUME NEW b \in Quiet \ {"w_code"}, Goto(m, b) PROVE SerialInv(m)'
  BY <1>1, <1>2, <1>4, <1>5, GotoGoes
<1>6. ASSUME NEW result, Finish(m, result) PROVE SerialInv(m)'
  <2>1. Core("idle", NoPid, NoRec)'
    BY <1>4 DEF Quiet, Waiting
  <2> QED
    BY <1>2, <1>6, <2>1, FinishGoes
<1> QED
  BY <1>5, <1>6

\* The client's operations, one lemma each

LEMMA StartSerial ==
  ASSUME TypeInv, NEW m, Serial(m), SerialInv(m), StartGet(m) \/ StartStep(m)
  PROVE  SerialInv(m)'
<1>1. PICK a, x, s : a = pc[m] /\ x = my[m] /\ s = snap[m]
  OBVIOUS
<1>2. Core(a, x, s) /\ OneDriver(m) /\ m \in Threads
  BY <1>1, CoreAt DEF SerialInv, Serial, Threads
<1> USE DEF procVars, diskVars, memVars, daemonVars
<1>3. CASE StartGet(m)
  <2>1. Stays /\ Still /\ a \in {"idle", "s_get"} /\ pc[m] \notin Owing
    BY <1>1, <1>3 DEF StartGet, Enters, Stays, Still, Owing
  <2>2. CASE \E result : Finish(m, result)
    BY <2>1, <2>2, QuietGoes
  <2>3. CASE Exists /\ rec.status # "running" /\ Snapshot(m, "s_create")
    <3>1. PICK r : r = rec
      OBVIOUS
    <3>2. Core("s_create", x, r)
      BY <1>2, <2>1, <2>3, <3>1, CoreStarts
    <3>3. Core("s_create", x, r)'
      BY <3>2, <2>1, CoreSame DEF Stays, Still
    <3>4. my'[m] = x /\ snap'[m] = r /\ pc' = [pc EXCEPT ![m] = "s_create"] /\ my' = my /\ job' = job
      BY <1>1, <1>2, <2>3, <3>1 DEF Snapshot, TypeInv, ThreadInv, ThreadOK
    <3> QED
      BY <1>2, <2>1, <3>3, <3>4, DriverGoes DEF Busy, StartLabels
  <2> QED
    BY <1>3, <2>2, <2>3 DEF StartGet
<1>4. CASE StartCreate(m)
  <2>1. Stays /\ a = "s_create"
    BY <1>1, <1>4 DEF StartCreate, At, Stays
  <2>2. CASE Finish(m, "error") /\ UNCHANGED procVars
    <3>1. Still /\ pc[m] \notin Owing
      BY <1>1, <1>4, <2>1, <2>2 DEF StartCreate, Still, Owing
    <3> QED
      BY <2>1, <2>2, <3>1, QuietGoes
  <2>3. CASE ~(Finish(m, "error") /\ UNCHANGED procVars)
    <3>1. PICK y : y = pids + 1
      OBVIOUS
    <3>2. PICK b \in {"s_net", "s_close"} : pc' = [pc EXCEPT ![m] = b]
      BY <1>4, <2>3 DEF StartCreate
    <3>3. /\ bundle /\ ~Alive(crunPid) /\ pids < MaxPid /\ pids' = pids + 1 /\ crunPid' = pids + 1
          /\ proc' = [proc EXCEPT ![pids + 1] = "ready"] /\ my' = [my EXCEPT ![m] = pids + 1]
          /\ UNCHANGED <<code, orphans, snap, job, diskVars, memVars, daemonVars>>
      BY <1>4, <2>3 DEF StartCreate
    <3>4. Core(b, y, s)'
      BY <1>2, <2>1, <3>1, <3>3, CoreCreates
    <3>5. my'[m] = y /\ snap'[m] = s /\ job' = job /\ \A t \in Threads \ {m} : my'[t] = my[t]
      BY <1>1, <1>2, <3>1, <3>3 DEF TypeInv, ThreadInv, ThreadOK
    <3> QED
      BY <1>2, <2>1, <3>2, <3>4, <3>5, DriverGoes DEF Busy, StartLabels
  <2> QED
    BY <2>2, <2>3
<1>5. CASE StartNetwork(m)
  <2>1. Stays /\ a = "s_net"
    BY <1>1, <1>5 DEF StartNetwork, At, Stays
  <2>2. CASE rec' = UpdateContainer(snap[m]) /\ Goto(m, "s_reg")
    <3>1. Core("s_reg", x, s)'
      BY <1>1, <1>2, <1>5, <2>1, <2>2, CoreConnects DEF StartNetwork, Stays
    <3> QED
      BY <1>1, <1>2, <2>1, <2>2, <3>1, GotoGoes DEF Busy, StartLabels
  <2>3. CASE rec' = rec /\ Goto(m, "s_undo")
    <3>1. Core("s_undo", x, s)'
      BY <1>1, <1>2, <1>5, <2>1, <2>3, CoreConnects DEF StartNetwork, Stays
    <3> QED
      BY <1>1, <1>2, <2>1, <2>3, <3>1, GotoGoes DEF Busy, StartLabels
  <2> QED
    BY <1>5, <2>2, <2>3 DEF StartNetwork
<1>6. CASE StartRegister(m)
  <2>1. Stays /\ a = "s_reg" /\ Goto(m, "s_run")
    BY <1>1, <1>6 DEF StartRegister, At, Stays
  <2>2. Core("s_run", x, s)'
    BY <1>1, <1>2, <1>6, <2>1, CoreRegisters DEF StartRegister, Stays
  <2> QED
    BY <1>1, <1>2, <2>1, <2>2, GotoGoes DEF Busy, StartLabels
<1>7. CASE StartRecord(m)
  <2>1. Stays /\ a = "s_run" /\ Goto(m, "s_exec") /\ s \in Record
    BY <1>1, <1>2, <1>7 DEF StartRecord, At, Stays, TypeInv, ThreadInv, ThreadOK
  <2>2. Core("s_exec", x, s)'
    BY <1>1, <1>2, <1>7, <2>1, CoreRecords DEF StartRecord
  <2> QED
    BY <1>1, <1>2, <2>1, <2>2, GotoGoes DEF Busy, StartLabels
<1>8. CASE StartExec(m)
  <2>1. Stays /\ a = "s_exec" /\ UNCHANGED <<code, orphans, pids, crunPid, frozen, diskVars, memVars, daemonVars>>
    BY <1>1, <1>8 DEF StartExec, At, Stays
  <2>2. CASE Goto(m, "s_unreg") /\ UNCHANGED proc
    <3>1. Core("s_unreg", x, s)
      BY <1>2, <2>1, CoreFails
    <3>2. Core("s_unreg", x, s)'
      BY <3>1, <2>1, <2>2, CoreSame
    <3> QED
      BY <1>1, <1>2, <2>1, <2>2, <3>2, GotoGoes DEF Busy, StartLabels
  <2>3. CASE /\ Alive(crunPid) /\ proc[crunPid] = "ready"
             /\ proc' = [proc EXCEPT ![crunPid] = "exec"]
    <3>1. Core("s_unreg", x, s)' /\ Core("idle", NoPid, NoRec)'
      BY <1>2, <2>1, <2>3, CoreRuns DEF Stays
    <3>2. ASSUME Goto(m, "s_unreg") PROVE SerialInv(m)'
      BY <1>1, <1>2, <2>1, <3>1, <3>2, GotoGoes DEF Busy, StartLabels
    <3>3. ASSUME Finish(m, "ok") PROVE SerialInv(m)'
      BY <1>2, <2>1, <3>1, <3>3, FinishGoes
    <3> QED
      BY <1>8, <2>3, <3>2, <3>3 DEF StartExec
  <2> QED
    BY <1>8, <2>2, <2>3 DEF StartExec
<1>9. CASE StartUnregister(m)
  <2>1. Stays /\ a = "s_unreg" /\ Goto(m, "s_undo")
    BY <1>1, <1>9 DEF StartUnregister, At, Stays
  <2>2. Core("s_undo", x, s)'
    BY <1>1, <1>2, <1>9, <2>1, CoreUnregisters DEF StartUnregister
  <2> QED
    BY <1>1, <1>2, <2>1, <2>2, GotoGoes DEF Busy, StartLabels
<1>10. CASE StartUndo(m)
  <2>1. Stays /\ a = "s_undo" /\ Goto(m, "s_close") /\ CrunDelete
    BY <1>1, <1>10 DEF StartUndo, At, Stays
  <2>2. Core("s_close", x, s)'
    BY <1>2, <1>10, <2>1, CoreDelete DEF StartUndo
  <2> QED
    BY <1>1, <1>2, <2>1, <2>2, GotoGoes DEF Busy, StartLabels
<1>11. CASE StartClose(m)
  <2>1. Stays /\ Still /\ pc[m] \notin Owing /\ Finish(m, "error")
    BY <1>11 DEF StartClose, At, Stays, Still, Owing
  <2> QED
    BY <2>1, QuietGoes
<1> QED
  BY <1>3, <1>4, <1>5, <1>6, <1>7, <1>8, <1>9, <1>10, <1>11 DEF StartStep

\* A Stop ends, or Remove or Restart goes on.
LEMMA ReturnGoes ==
  ASSUME NEW m, StopReturn(m)
  PROVE  \/ \E b \in Quiet \ {"w_code"} : Goto(m, b)
         \/ \E result : Finish(m, result)
BY DEF StopReturn, Quiet

LEMMA StopSerial ==
  ASSUME TypeInv, NEW m, Serial(m), SerialInv(m),
         StopStep(m) \/ \E op \in Ops, then \in {"return", "start"} : CallStop(m, op, then)
  PROVE  SerialInv(m)'
<1>1. PICK a, x, s : a = pc[m] /\ x = my[m] /\ s = snap[m]
  OBVIOUS
<1>2. Core(a, x, s) /\ OneDriver(m) /\ m \in Threads
  BY <1>1, CoreAt DEF SerialInv, Serial, Threads
<1> USE DEF procVars, diskVars, memVars, daemonVars
<1>3. ASSUME NEW op, NEW then, CallStop(m, op, then) PROVE SerialInv(m)'
  <2>1. /\ Stays /\ Still /\ a = "idle" /\ pc' = [pc EXCEPT ![m] = "p_get"]
        /\ UNCHANGED <<my, snap, job>>
    BY <1>1, <1>3 DEF CallStop, At, Stays, Still
  <2>2. Core("p_get", x, s)
    BY <1>2, <2>1, CoreMoves DEF Quiet, Owing
  <2>3. Core("p_get", x, s)'
    BY <2>1, <2>2, CoreSame DEF Stays, Still
  <2> QED
    BY <1>1, <1>2, <2>1, <2>3, DriverGoes DEF Quiet
<1>4. CASE StopGet(m) \/ StopResume(m) \/ StopMark(m) \/ StopWait(m) \/ StopWaitAgain(m)
  <2>1. /\ Stays /\ Still /\ pc[m] \notin Owing
    BY <1>4 DEF StopGet, StopResume, StopMark, StopWait, StopWaitAgain, At, Stays, Still, Owing
  <2>2. \/ StopReturn(m)
        \/ \E b \in Quiet \ {"w_code"} : Goto(m, b)
        \/ \E result : Finish(m, result)
    BY <1>4 DEF StopGet, StopResume, StopMark, StopWait, StopWaitAgain, Quiet
  <2> QED
    BY <2>1, <2>2, ReturnGoes, QuietGoes
<1>5. CASE StopPick(m)
  <2>1. PICK y, b : y = active /\ b = IF active = NoPid THEN "p_del" ELSE "p_wait"
    OBVIOUS
  <2>2. /\ Stays /\ Still /\ a = "p_pick" /\ pc' = [pc EXCEPT ![m] = b] /\ my' = [my EXCEPT ![m] = y]
        /\ UNCHANGED <<snap, job>> /\ my \in [Threads -> 0..MaxPid]
    BY <1>1, <1>5, <2>1 DEF StopPick, At, Stays, Still, TypeInv, ThreadInv, ThreadOK
  <2>3. Core(b, y, s)
    BY <1>2, <2>1, <2>2, CoreMoves, CoreWaits DEF Quiet, Owing
  <2>4. Core(b, y, s)'
    BY <2>2, <2>3, CoreSame DEF Stays, Still
  <2>5. my'[m] = y /\ snap'[m] = s /\ b \in Quiet \cup Busy /\ b # "w_code"
    BY <1>1, <1>2, <2>1, <2>2 DEF Quiet, Busy
  <2> QED
    BY <1>2, <2>2, <2>4, <2>5, DriverGoes
<1>6. CASE StopKill(m)
  <2>1. Stays /\ a = "p_kill" /\ Goto(m, "p_wait2")
    BY <1>1, <1>6 DEF StopKill, At, Stays
  <2>2. Core("p_wait2", x, s)
    BY <1>2, <2>1, CoreMoves DEF Quiet, Owing
  <2>3. Core("p_wait2", x, s)'
    BY <1>6, <2>2, CoreKill DEF StopKill
  <2> QED
    BY <1>1, <1>2, <2>1, <2>3, GotoGoes DEF Quiet
<1>7. CASE StopDelete(m)
  <2>1. Stays /\ a = "p_del" /\ CrunDelete /\ StopReturn(m)
    BY <1>1, <1>7 DEF StopDelete, At, Stays
  <2>2. ASSUME NEW b \in Quiet, NEW y, NEW r PROVE Core(b, y, r)'
    BY <1>2, <1>7, <2>1, CoreDelete DEF StopDelete, Owing
  <2>3. ASSUME NEW b \in Quiet \ {"w_code"}, Goto(m, b) PROVE SerialInv(m)'
    BY <1>1, <1>2, <2>1, <2>2, <2>3, GotoGoes
  <2>4. ASSUME NEW result, Finish(m, result) PROVE SerialInv(m)'
    <3>1. Core("idle", NoPid, NoRec)'
      BY <2>2 DEF Quiet, Waiting
    <3> QED
      BY <1>2, <2>1, <2>4, <3>1, FinishGoes
  <2> QED
    BY <2>1, <2>3, <2>4, ReturnGoes
<1> QED
  BY <1>3, <1>4, <1>5, <1>6, <1>7 DEF StopStep

LEMMA KillSerial ==
  ASSUME TypeInv, NEW m, Serial(m), SerialInv(m),
         KillGet(m) \/ PauseGet(m) \/ UnpauseGet(m) \/ PauseStep(m)
  PROVE  SerialInv(m)'
<1>1. PICK a, x, s : a = pc[m] /\ x = my[m] /\ s = snap[m]
  OBVIOUS
<1>2. Core(a, x, s) /\ OneDriver(m)
  BY <1>1, CoreAt DEF SerialInv
<1> USE DEF procVars, diskVars, memVars, daemonVars
<1>3. CASE KillGet(m)
  <2>1. Stays /\ Still /\ pc[m] \notin Owing
    BY <1>3 DEF KillGet, At, Stays, Still, Owing
  <2>2. Goto(m, "k_send") \/ Finish(m, "error")
    BY <1>3 DEF KillGet
  <2> QED
    BY <2>1, <2>2, QuietGoes DEF Quiet
<1>4. CASE KillSend(m)
  <2>1. /\ Stays /\ a = "k_send" /\ (KillInit \/ UNCHANGED <<proc, code>>)
        /\ (Finish(m, "ok") \/ Finish(m, "error"))
        /\ UNCHANGED <<orphans, pids, crunPid, frozen, diskVars, memVars, daemonVars>>
    BY <1>1, <1>4 DEF KillSend, At, Stays
  <2>2. Core("idle", NoPid, NoRec)
    BY <1>2, <2>1, CoreMoves DEF Quiet, Waiting, Owing
  <2>3. Core("idle", NoPid, NoRec)'
    BY <2>1, <2>2, CoreKill
  <2> QED
    BY <1>2, <2>1, <2>3, FinishGoes
<1>5. ~PauseGet(m) /\ ~UnpauseGet(m)
  BY DEF PauseGet, UnpauseGet, Serial
<1>6. ~PauseFreeze(m) /\ ~PauseWrite(m) /\ ~UnpauseThaw(m) /\ ~UnpauseWrite(m)
  BY <1>2 DEF OneDriver, Quiet, Waiting, Busy, StartLabels, PauseFreeze, PauseWrite, UnpauseThaw,
     UnpauseWrite, At
<1> QED
  BY <1>3, <1>4, <1>5, <1>6 DEF PauseStep

LEMMA RemoveSerial ==
  ASSUME TypeInv, NEW m, Serial(m), SerialInv(m),
         RemoveStep(m) \/ \E force \in BOOLEAN : RemoveGet(m, force)
  PROVE  SerialInv(m)'
<1>1. PICK a, x, s : a = pc[m] /\ x = my[m] /\ s = snap[m]
  OBVIOUS
<1>2. Core(a, x, s) /\ OneDriver(m) /\ m \in Threads
  BY <1>1, CoreAt DEF SerialInv, Serial, Threads
<1> USE DEF procVars, diskVars, memVars, daemonVars
<1>3. ASSUME NEW force, RemoveGet(m, force) PROVE SerialInv(m)'
  <2>1. Stays /\ Still /\ a \in {"idle", "r_get"}
    BY <1>1, <1>3 DEF RemoveGet, Enters, Stays, Still
  <2>2. CASE Finish(m, "error") \/ Goto(m, "r_disc")
    BY <1>1, <2>1, <2>2, QuietGoes DEF Owing, Quiet
  <2>3. CASE pc' = [pc EXCEPT ![m] = "p_get"] /\ UNCHANGED <<my, snap, job>>
    <3>1. Core("p_get", x, s)
      BY <1>2, <2>1, CoreMoves DEF Quiet, Owing
    <3>2. Core("p_get", x, s)'
      BY <2>1, <3>1, CoreSame DEF Stays, Still
    <3> QED
      BY <1>1, <1>2, <2>1, <2>3, <3>2, DriverGoes DEF Quiet
  <2> QED
    BY <1>3, <2>2, <2>3 DEF RemoveGet
<1>4. CASE RemoveDisconnect(m) \/ RemoveBundle(m) \/ RemoveStore(m)
  <2>1. PICK b \in {"r_del", "r_store", "r_unreg"} : Goto(m, b) /\ Core(b, x, s)'
    <3>1. CASE RemoveDisconnect(m)
      <4>1. Core("r_del", x, s)'
        BY <1>1, <1>2, <3>1, CoreRemoves DEF RemoveDisconnect, At
      <4> QED
        BY <3>1, <4>1 DEF RemoveDisconnect
    <3>2. CASE RemoveBundle(m)
      <4>1. Core("r_store", x, s)'
        BY <1>1, <1>2, <3>2, CoreRemoves DEF RemoveBundle, At
      <4> QED
        BY <3>2, <4>1 DEF RemoveBundle
    <3>3. CASE RemoveStore(m)
      <4>1. Core("r_unreg", x, s)'
        BY <1>1, <1>2, <3>3, CoreRemoves DEF RemoveStore, At
      <4> QED
        BY <3>3, <4>1 DEF RemoveStore
    <3> QED
      BY <1>4, <3>1, <3>2, <3>3
  <2>2. Stays
    BY <1>4 DEF RemoveDisconnect, RemoveBundle, RemoveStore, At, Stays
  <2> QED
    BY <1>1, <1>2, <2>1, <2>2, GotoGoes DEF Busy
<1>5. CASE RemoveDelete(m)
  <2>1. Stays /\ a = "r_del" /\ CrunDelete /\ Goto(m, "r_bundle")
    BY <1>1, <1>5 DEF RemoveDelete, At, Stays
  <2>2. Core("r_bundle", x, s)'
    BY <1>2, <1>5, <2>1, CoreDelete DEF RemoveDelete
  <2> QED
    BY <1>1, <1>2, <2>1, <2>2, GotoGoes DEF Busy
<1>6. CASE RemoveUnregister(m)
  <2>1. Stays /\ a = "r_unreg" /\ Finish(m, "removed")
    BY <1>1, <1>6 DEF RemoveUnregister, At, Stays
  <2>2. Core("idle", NoPid, NoRec)'
    BY <1>2, <1>6, <2>1, CoreRemoves DEF RemoveUnregister
  <2> QED
    BY <1>2, <2>1, <2>2, FinishGoes
<1> QED
  BY <1>3, <1>4, <1>5, <1>6 DEF RemoveStep

\* Any goroutine may wait; the others do nothing else.
LEMMA WaiterGoes ==
  ASSUME TypeInv, NEW m, Serial(m), SerialInv(m), Stays, Still, NEW t \in Threads, t # m,
         NEW b \in Waiting, pc' = [pc EXCEPT ![t] = b],
         \A u \in Threads \ {t} : my'[u] = my[u] /\ snap'[u] = snap[u],
         job' = job, b = "w_code" => done[my'[t]]
  PROVE  SerialInv(m)'
<1>1. PICK a, x, s : a = pc[m] /\ x = my[m] /\ s = snap[m]
  OBVIOUS
<1>2. Core(a, x, s) /\ OneDriver(m) /\ m \in Threads
  BY <1>1, CoreAt DEF SerialInv, Serial, Threads
<1>3. Core(a, x, s)'
  BY <1>2, CoreSame DEF Stays, Still
<1>4. pc \in [Threads -> Labels]
  BY DEF TypeInv, ThreadInv, ThreadOK
<1>5. pc'[t] = b /\ \A u \in Threads \ {t} : pc'[u] = pc[u]
  BY <1>4
<1>6. pc'[m] = a /\ my'[m] = x /\ snap'[m] = s
  BY <1>1, <1>2, <1>5
<1>7. Core(pc[m], my[m], snap[m])'
  BY <1>3, <1>6, CoreBack
<1>8. OneDriver(m)'
  BY <1>1, <1>2, <1>5, <1>6 DEF OneDriver, Stays
<1> QED
  BY <1>7, <1>8 DEF SerialInv

LEMMA WaitSerial ==
  ASSUME TypeInv, NEW m, Serial(m), SerialInv(m), NEW t \in Threads,
         WaitGet(t) \/ WaitStep(t) \/ WaitCancel(t)
  PROVE  SerialInv(m)'
<1>1. PICK a, x, s : a = pc[m] /\ x = my[m] /\ s = snap[m]
  OBVIOUS
<1>2. Core(a, x, s) /\ OneDriver(m) /\ m \in Threads /\ job[t] = NoRec /\ pc[t] \in Waiting
  BY <1>1, CoreAt DEF SerialInv, Serial, Threads, OneDriver, Waiting, WaitGet, WaitStep, WaitCancel,
     WaitPick, WaitDone, WaitCode, WaitPoll, At
<1>3. Stays /\ Still
  BY DEF WaitGet, WaitStep, WaitCancel, WaitPick, WaitDone, WaitCode, WaitPoll, At, Stays, Still,
     procVars, diskVars, memVars, daemonVars
<1>4. PICK b \in Waiting :
        /\ pc' = [pc EXCEPT ![t] = b] /\ job' = job /\ (b = "w_code" => done[my'[t]])
        /\ \A u \in Threads \ {t} : my'[u] = my[u] /\ snap'[u] = snap[u]
  <2> USE DEF TypeInv, ThreadInv, ThreadOK, Waiting
  <2>1. ASSUME NEW c, FinishWait(t, c)
        PROVE  /\ pc' = [pc EXCEPT ![t] = "idle"] /\ job' = job
               /\ \A u \in Threads \ {t} : my'[u] = my[u] /\ snap'[u] = snap[u]
    BY <2>1 DEF FinishWait
  <2>2. ASSUME Finish(t, "error")
        PROVE  /\ pc' = [pc EXCEPT ![t] = "idle"] /\ job' = job
               /\ \A u \in Threads \ {t} : my'[u] = my[u] /\ snap'[u] = snap[u]
    BY <1>2, <2>2, FinishIdles DEF Finish
  <2>3. CASE WaitGet(t)
    BY <2>1, <2>2, <2>3 DEF WaitGet, Goto
  <2>4. CASE WaitPick(t)
    BY <2>4 DEF WaitPick
  <2>5. CASE WaitDone(t)
    BY <2>5 DEF WaitDone, Goto
  <2>6. CASE WaitCancel(t)
    BY <2>2, <2>6 DEF WaitCancel
  <2>7. CASE WaitCode(t)
    BY <2>1, <2>7 DEF WaitCode
  <2>8. CASE WaitPoll(t)
    BY <2>1, <2>8 DEF WaitPoll, Goto
  <2> QED
    BY <2>3, <2>4, <2>5, <2>6, <2>7, <2>8 DEF WaitStep
<1>5. CASE t # m
  BY <1>3, <1>4, <1>5, WaiterGoes
<1>6. CASE t = m
  <2>1. PICK y, r : y = my'[m] /\ r = snap'[m]
    OBVIOUS
  <2>2. Core(b, y, r)
    BY <1>1, <1>2, <1>6, CoreMoves DEF Quiet, Waiting, Owing
  <2>3. Core(b, y, r)'
    BY <1>3, <2>2, CoreSame DEF Stays, Still
  <2> QED
    BY <1>2, <1>3, <1>4, <1>6, <2>1, <2>3, DriverGoes DEF Quiet
<1> QED
  BY <1>5, <1>6

\* A step of the reaper, or the death of an init
LEMMA ReaperGoes ==
  ASSUME TypeInv, NEW m, Serial(m), OneDriver(m), NEW a, NEW x, NEW s,
         a = pc[m], x = my[m], s = snap[m], Core(a, x, s)', UNCHANGED <<threadVars, oom, daemon>>,
         \A n \in Pids : done[n] => done'[n]
  PROVE  SerialInv(m)'
<1>1. Core(pc[m], my[m], snap[m])'
  BY CoreBack DEF threadVars
<1>2. \A t \in Threads : pc[t] = "w_code" => my[t] \in Pids
  BY DEF TypeInv, ThreadInv, Holding
<1>3. OneDriver(m)'
  BY <1>2 DEF OneDriver, threadVars
<1> QED
  BY <1>1, <1>3 DEF SerialInv

LEMMA ReaperSerial ==
  ASSUME TypeInv, NEW m, Serial(m), SerialInv(m), ReaperStep
  PROVE  SerialInv(m)'
<1>1. PICK a, x, s : a = pc[m] /\ x = my[m] /\ s = snap[m]
  OBVIOUS
<1>2. Core(a, x, s) /\ OneDriver(m)
  BY <1>1, CoreAt DEF SerialInv
<1>3. cfg.policy = "no" /\ ~cfg.autoRemove
  BY DEF Serial, TypeInv, DiskOK
<1>4. CASE \E n \in Pids : ReapWait(n)
  <2>1. Core(a, x, s)'
    BY <1>2, <1>4, CoreReaps
  <2> QED
    BY <1>1, <1>2, <1>4, <2>1, ReaperGoes DEF ReapWait, memVars
<1>5. CASE ReapFile \/ ExitLookup \/ ExitRead \/ ExitWrite \/ ExitDisconnect
  <2>1. Core(a, x, s)'
    BY <1>2, <1>5, CoreFiles, CoreLooks, CoreReads, CoreWrites, CoreDisconnects
  <2>2. UNCHANGED <<threadVars, oom, daemon>> /\ done' = done
    BY <1>5 DEF ReapFile, ExitLookup, ExitRead, ExitWrite, ExitDisconnect, memVars
  <2> QED
    BY <1>1, <1>2, <2>1, <2>2, ReaperGoes
<1>6. CASE ExitClose
  <2>1. Core(a, x, s)' /\ UNCHANGED <<threadVars, oom, daemon>>
    BY <1>2, <1>6, CoreCloses
  <2>2. \A n \in Pids : done[n] => done'[n]
    BY <1>6, <2>1 DEF ExitClose, DaemonDies, ReaperAt, TypeInv, MemOK
  <2> QED
    BY <1>1, <1>2, <2>1, <2>2, ReaperGoes
<1>7. CASE ExitAfter
  <2>1. Core(a, x, s)' /\ UNCHANGED <<threadVars, oom, daemon>>
    BY <1>2, <1>3, <1>7, CoreEnds
  <2> QED
    BY <1>1, <1>2, <1>7, <2>1, ReaperGoes DEF ExitAfter, memVars
<1> QED
  BY <1>4, <1>5, <1>6, <1>7 DEF ReaperStep

LEMMA EnvironmentSerial ==
  ASSUME TypeInv, NEW m, Serial(m), SerialInv(m),
         OomRead \/ OomWrite \/ (\E n \in Pids : ProcExit(n)) \/ Crash \/ Boot
  PROVE  SerialInv(m)'
<1>1. PICK a, x, s : a = pc[m] /\ x = my[m] /\ s = snap[m]
  OBVIOUS
<1>2. Core(a, x, s) /\ OneDriver(m) /\ m \in Threads
  BY <1>1, CoreAt DEF SerialInv, Serial, Threads
<1>3. ~OomRead /\ ~OomWrite
  BY <1>2 DEF OomRead, OomWrite, Serial, OneDriver
<1>4. CASE \E n \in Pids : ProcExit(n)
  <2>1. PICK n \in Pids : ProcExit(n)
    BY <1>4
  <2>2. PICK c : code' = [code EXCEPT ![n] = c]
    BY <2>1 DEF ProcExit
  <2>3. Core(a, x, s)'
    BY <1>2, <2>1, <2>2, CoreDies DEF ProcExit
  <2> QED
    BY <1>1, <1>2, <2>1, <2>3, ReaperGoes DEF ProcExit, memVars, daemonVars
<1>5. CASE Crash
  <2>1. Core("idle", NoPid, NoRec)'
    BY <1>2, <1>5, CoreCrashes
  <2>2. /\ pc'[m] = "idle" /\ my'[m] = NoPid /\ snap'[m] = NoRec
        /\ \A t \in Threads : pc'[t] = "idle" /\ job'[t] = NoRec
        /\ oom'.pc = "idle"
    BY <1>2, <1>5 DEF Crash, DaemonDies
  <2>3. Core(pc[m], my[m], snap[m])'
    BY <2>1, <2>2, CoreBack
  <2> QED
    BY <1>2, <2>2, <2>3 DEF SerialInv, OneDriver, Quiet, Waiting
<1>6. CASE Boot
  <2>1. daemon = "down" /\ daemon' = "up" /\ UNCHANGED <<memVars, threadVars, oom>>
    BY <1>6 DEF Boot
  <2>2. a = "idle"
    BY <1>1, <1>2, <2>1 DEF OneDriver
  <2>3. Core(a, x, s)'
    BY <1>2, <1>6, <2>2, CoreBoots
  <2>4. Core(pc[m], my[m], snap[m])'
    BY <1>1, <2>1, <2>3, CoreBack DEF threadVars
  <2> QED
    BY <1>2, <2>1, <2>4 DEF SerialInv, OneDriver, threadVars, memVars
<1> QED
  BY <1>3, <1>4, <1>5, <1>6

LEMMA OthersWait ==
  ASSUME NEW m, Serial(m), OneDriver(m), NEW t \in Threads, t # m
  PROVE  /\ ~StartGet(t) /\ ~StartStep(t) /\ ~StopStep(t)
         /\ \A op \in Ops \ {"wait"} : \A then : ~CallStop(t, op, then)
         /\ ~KillGet(t) /\ ~PauseGet(t) /\ ~UnpauseGet(t) /\ ~PauseStep(t)
         /\ ~RemoveStep(t) /\ \A force : ~RemoveGet(t, force)
<1>1. pc[t] \in Waiting /\ (t \in Clients => Allowed[t] \subseteq {"wait"})
  BY DEF OneDriver, Serial
<1>2. ~StartGet(t) /\ ~StartStep(t)
  BY <1>1 DEF StartGet, StartStep, Enters, At, Waiting, StartCreate, StartNetwork, StartRegister,
     StartRecord, StartExec, StartUnregister, StartUndo, StartClose
<1>3. ~StopStep(t) /\ \A op \in Ops \ {"wait"} : \A then : ~CallStop(t, op, then)
  BY <1>1 DEF StopStep, At, Waiting, StopGet, StopResume, StopMark, StopPick, StopWait, StopKill,
     StopWaitAgain, StopDelete, CallStop
<1>4. ~KillGet(t) /\ ~PauseGet(t) /\ ~UnpauseGet(t) /\ ~PauseStep(t)
  BY <1>1 DEF KillGet, PauseGet, UnpauseGet, PauseStep, KillSend, PauseFreeze, PauseWrite, UnpauseThaw,
     UnpauseWrite, At, Waiting
<1>5. ~RemoveStep(t) /\ \A force : ~RemoveGet(t, force)
  BY <1>1 DEF RemoveStep, RemoveGet, RemoveDisconnect, RemoveDelete, RemoveBundle, RemoveStore,
     RemoveUnregister, Enters, At, Waiting
<1> QED
  BY <1>2, <1>3, <1>4, <1>5

LEMMA SerialInit == ASSUME Init, NEW m, Serial(m) PROVE SerialInv(m)
<1> USE DEF Init, RpIdle
<1>1. m \in Threads /\ NoPid \notin Pids /\ pc[m] = "idle"
  BY DEF Serial, Threads, NoPid, Pids
<1>2. Exists /\ \A n : ~InHand(n) /\ ~Alive(n)
  BY DEF Exists, Created, NoRec, InHand, Alive
<1>3. OneDriver(m)
  BY <1>1 DEF OneDriver, Quiet, Waiting
<1>4. OneInit /\ DownInv /\ DoneInv
  BY <1>1, <1>2 DEF OneInit, DownInv, DoneInv
<1>5. HandInv(pc[m], my[m]) /\ StartInv(pc[m], my[m])
  BY <1>1, <1>2 DEF HandInv, StartInv, StartLabels
<1>6. ExecInv(pc[m], my[m]) /\ FreshInv(pc[m], my[m])
  BY DEF ExecInv, FreshInv
<1>7. RemoveInv(pc[m]) /\ StopInv(pc[m], my[m])
  BY <1>1, <1>2 DEF RemoveInv, StopInv
<1>8. CodeInv(pc[m], my[m], snap[m])
  BY <1>1 DEF CodeInv, Settled
<1> QED
  BY <1>3, <1>4, <1>5, <1>6, <1>7, <1>8 DEF SerialInv, Core

LEMMA SerialStep ==
  ASSUME NEW m, Serial(m), TypeInv, SerialInv(m), [Next]_vars
  PROVE  SerialInv(m)'
<1>1. CASE UNCHANGED vars
  <2>1. PICK a, x, s : a = pc[m] /\ x = my[m] /\ s = snap[m]
    OBVIOUS
  <2>2. Core(a, x, s)
    BY <2>1, CoreAt DEF SerialInv
  <2>3. Core(a, x, s)'
    BY <1>1, <2>2, CoreSame DEF vars, procVars, diskVars, memVars, daemonVars
  <2>4. UNCHANGED <<threadVars, oom, daemon, memVars>>
    BY <1>1 DEF vars, daemonVars
  <2> QED
    BY <2>1, <2>3, <2>4, ReaperGoes DEF SerialInv, memVars
<1>2. CASE Next
  <2>1. CASE ReaperStep
    BY <2>1, ReaperSerial
  <2>2. CASE OomRead \/ OomWrite \/ (\E n \in Pids : ProcExit(n)) \/ Crash \/ Boot
    BY <2>2, EnvironmentSerial
  <2>3. ASSUME NEW t \in Threads,
               \/ StartGet(t) \/ StartStep(t) \/ StopStep(t)
               \/ \E op \in Ops \ {"wait"}, then \in {"return", "start"} : CallStop(t, op, then)
               \/ KillGet(t) \/ PauseGet(t) \/ UnpauseGet(t) \/ PauseStep(t)
               \/ RemoveStep(t) \/ (\E force \in BOOLEAN : RemoveGet(t, force))
               \/ WaitGet(t) \/ WaitStep(t) \/ WaitCancel(t)
               \/ Backoff(t) \/ RestartFailed(t)
        PROVE  SerialInv(m)'
    <3>1. OneDriver(m)
      BY DEF SerialInv
    <3>2. ~Backoff(t) /\ ~RestartFailed(t)
      BY <3>1 DEF Backoff, RestartFailed, At, OneDriver, Quiet, Waiting, Busy, StartLabels
    <3>3. CASE WaitGet(t) \/ WaitStep(t) \/ WaitCancel(t)
      BY <3>3, WaitSerial
    <3>4. CASE t = m
      BY <2>3, <3>2, <3>3, <3>4, StartSerial, StopSerial, KillSerial, RemoveSerial
    <3>5. CASE t # m
      BY <2>3, <3>1, <3>2, <3>3, <3>5, OthersWait
    <3> QED
      BY <3>4, <3>5
  <2> QED
    BY <1>2, <2>1, <2>2, <2>3, NextCases
<1> QED
  BY <1>1, <1>2

-----------------------------------------------------------------------------
(* What follows for a container with one client at a time                     *)

LEMMA SerialHolds ==
  ASSUME NEW m, Serial(m)
  PROVE  Spec => [](TypeInv /\ SerialInv(m))
<1>1. Init => TypeInv /\ SerialInv(m)
  BY TypeInit, SerialInit
<1>2. TypeInv /\ SerialInv(m) /\ [Next]_vars => (TypeInv /\ SerialInv(m))'
  BY TypeStep, SerialStep
<1> QED
  BY <1>1, <1>2, PTL DEF Spec

\* The program of a container with one client has its pid in pidMap, so that
\* its exit is handled.
THEOREM SerialRegistered ==
  ASSUME NEW m, Serial(m)
  PROVE  Spec => []LiveProgramRegistered
<1>1. TypeInv /\ SerialInv(m) => LiveProgramRegistered
  BY DEF SerialInv, Core, ExecInv, LiveProgramRegistered, Serial, Threads
<1> QED
  BY <1>1, SerialHolds, PTL

\* While that program runs, the record says so and names its pid.
THEOREM SerialTruth ==
  ASSUME NEW m, Serial(m)
  PROVE  Spec => []RecordTruth
<1>1. TypeInv /\ SerialInv(m) => RecordTruth
  BY DEF SerialInv, Core, ExecInv, Names, RecordTruth
<1> QED
  BY <1>1, SerialHolds, PTL

\* pidMap never keeps a pid whose death has been handled.
THEOREM SerialFresh ==
  ASSUME NEW m, Serial(m)
  PROVE  Spec => []PidMapFresh
<1>1. TypeInv /\ SerialInv(m) => PidMapFresh
  BY DEF SerialInv, Core, FreshInv, PidMapFresh, Serial, Threads
<1> QED
  BY <1>1, SerialHolds, PTL

\* HandleExit closes each done channel once, crashes of the daemon included.
THEOREM SerialClosesOnce ==
  ASSUME NEW m, Serial(m)
  PROVE  Spec => []NoDoubleClose
<1>1. TypeInv /\ SerialInv(m) => NoDoubleClose
  BY DEF SerialInv, Core, DoneInv, NoDoubleClose, ReaperAt, NoPid, TypeInv, DaemonInv
<1> QED
  BY <1>1, SerialHolds, PTL

\* A Remove leaves no init, no crun state, no bundle and no activeContainer.
THEOREM SerialRemoves ==
  ASSUME NEW m, Serial(m)
  PROVE  Spec => []RemoveLeavesNothing
<1>1. ASSUME TypeInv, SerialInv(m), ~Exists, \A t \in Threads : pc[t] = "idle"
      PROVE  /\ \A n \in Pids : ~Alive(n)
             /\ crunPid = NoPid /\ ~bundle /\ active = NoPid
             /\ crashes = 0 => ep = NoPid
  <2>1. pc[m] = "idle"
    BY <1>1 DEF Serial, Threads
  <2>2. crunPid = NoPid /\ ~bundle /\ active = NoPid /\ (crashes = 0 => ep = NoPid)
    BY <1>1, <2>1 DEF SerialInv, Core, RemoveInv
  <2>3. \A n \in Pids : ~Alive(n)
    BY <1>1, <2>2 DEF SerialInv, Core, OneInit, NoPid, Pids
  <2> QED
    BY <2>2, <2>3
<1>2. TypeInv /\ SerialInv(m) => RemoveLeavesNothing
  BY <1>1 DEF RemoveLeavesNothing
<1> QED
  BY <1>2, SerialHolds, PTL

\* A goroutine's step is its own.
LEMMA OwnStep ==
  ASSUME TypeInv, NEW t \in Threads, NEW u \in Threads, u # t,
         \/ StartGet(t) \/ StartStep(t) \/ StopStep(t)
         \/ \E op \in Ops, then \in {"return", "start"} : CallStop(t, op, then)
         \/ KillGet(t) \/ PauseGet(t) \/ UnpauseGet(t) \/ PauseStep(t)
         \/ RemoveStep(t) \/ (\E force \in BOOLEAN : RemoveGet(t, force))
         \/ WaitGet(t) \/ WaitStep(t) \/ WaitCancel(t)
         \/ Backoff(t) \/ RestartFailed(t)
  PROVE  pc'[u] = pc[u] /\ got'[u] = got[u]
<1> USE DEF TypeInv, ThreadInv, ThreadOK
<1>1. \A label : Goto(t, label) \/ Snapshot(t, label) => pc'[u] = pc[u] /\ got'[u] = got[u]
  BY DEF Goto, Snapshot, NoResult
<1>2. \A result : Finish(t, result) \/ FinishWait(t, result) => pc'[u] = pc[u] /\ got'[u] = got[u]
  BY DEF Finish, FinishWait
<1> HIDE DEF TypeInv, ThreadInv, ThreadOK
<1>3. \A p, label : pc' = [pc EXCEPT ![t] = label] => pc'[u] = pc[u]
  BY DEF TypeInv, ThreadInv, ThreadOK
<1>4. NoResult(t) => got'[u] = got[u]
  BY DEF NoResult, TypeInv, ThreadInv, ThreadOK
<1>5. CASE StartGet(t) \/ StartStep(t)
  BY <1>1, <1>2, <1>3, <1>5 DEF StartGet, StartStep, StartCreate, StartNetwork, StartRegister, StartRecord,
     StartExec, StartUnregister, StartUndo, StartClose
<1>6. CASE StopStep(t) \/ \E op \in Ops, then \in {"return", "start"} : CallStop(t, op, then)
  <2>1. StopReturn(t) => pc'[u] = pc[u] /\ got'[u] = got[u]
    BY <1>1, <1>2 DEF StopReturn
  <2> QED
    BY <1>1, <1>2, <1>3, <1>4, <1>6, <2>1 DEF CallStop, StopStep, StopGet, StopResume, StopMark, StopPick,
       StopWait, StopKill, StopWaitAgain, StopDelete
<1>7. CASE KillGet(t) \/ PauseGet(t) \/ UnpauseGet(t) \/ PauseStep(t)
  BY <1>1, <1>2, <1>7 DEF KillGet, PauseGet, UnpauseGet, PauseStep, KillSend, PauseFreeze, PauseWrite,
     UnpauseThaw, UnpauseWrite
<1>8. CASE RemoveStep(t) \/ \E force \in BOOLEAN : RemoveGet(t, force)
  BY <1>1, <1>2, <1>3, <1>4, <1>8 DEF RemoveStep, RemoveGet, RemoveDisconnect, RemoveDelete, RemoveBundle,
     RemoveStore, RemoveUnregister
<1>9. CASE \/ WaitGet(t) \/ WaitStep(t) \/ WaitCancel(t)
           \/ Backoff(t) \/ RestartFailed(t)
  BY <1>1, <1>2, <1>3, <1>9 DEF WaitGet, WaitStep, WaitPick, WaitDone, WaitCode, WaitPoll, WaitCancel,
     Backoff, RestartFailed
<1> QED
  BY <1>5, <1>6, <1>7, <1>8, <1>9

\* Nor do the reaper, the watcher and the kernel touch a client's goroutine.
LEMMA ClientsAlone ==
  ASSUME TypeInv, NEW c \in Clients,
         \/ ReaperStep
         \/ OomRead \/ OomWrite \/ (\E n \in Pids : ProcExit(n)) \/ Crash \/ Boot
  PROVE  \/ pc'[c] = pc[c] /\ got'[c] = got[c]
         \/ daemon' = "down" /\ ret'[c] = "none"
<1>1. c \in Threads /\ c \notin Workers /\ pc \in [Threads -> Labels]
  BY ConstantsOK DEF ConstantsOK, Threads, TypeInv, ThreadInv, ThreadOK
<1>2. CASE ExitAfter
  BY <1>1, <1>2 DEF ExitAfter, threadVars
<1>3. CASE Crash \/ ExitClose
  BY <1>1, <1>3 DEF Crash, ExitClose, DaemonDies, threadVars
<1>4. CASE OomRead \/ OomWrite \/ (\E n \in Pids : ProcExit(n)) \/ Boot
  BY <1>4 DEF OomRead, OomWrite, ProcExit, Boot, threadVars
<1>5. CASE (\E n \in Pids : ReapWait(n)) \/ ReapFile \/ ExitLookup \/ ExitRead \/ ExitWrite \/ ExitDisconnect
  BY <1>5 DEF ReapWait, ReapFile, ExitLookup, ExitRead, ExitWrite, ExitDisconnect, threadVars
<1> QED
  BY <1>2, <1>3, <1>4, <1>5 DEF ReaperStep

\* Who comes back from a Stop has just returned from it.
LEMMA OnlyStopReturns ==
  ASSUME TypeInv, NEW m, Serial(m), SerialInv(m), Next, NEW c \in Clients,
         pc[c] # "idle", pc'[c] = "idle", ret'[c] = "stopped"
  PROVE  c = m /\ (StopGet(m) \/ StopWait(m) \/ StopDelete(m)) /\ StopReturn(m)
<1>1. c \in Threads /\ m \in Threads /\ job[c] = NoRec /\ OneDriver(m)
  BY DEF Threads, Serial, SerialInv, OneDriver
<1>2. pc'[c] # pc[c]
  OBVIOUS
<1> USE DEF TypeInv, ThreadInv, ThreadOK
<1>3. /\ \A label : Goto(c, label) => pc'[c] = label
      /\ \A result : Finish(c, result) => ret'[c] = result
      /\ \A n : FinishWait(c, n) => ret'[c] = "exit"
      /\ \A label : Snapshot(c, label) => pc'[c] = label
  BY <1>1 DEF Goto, Finish, FinishWait, Snapshot
<1>4. \A label : pc' = [pc EXCEPT ![c] = label] => pc'[c] = label
  BY <1>1
<1> HIDE DEF TypeInv, ThreadInv, ThreadOK
<1>5. \/ StartGet(c) \/ StartStep(c) \/ StopStep(c)
      \/ \E op \in Ops \ {"wait"}, then \in {"return", "start"} : CallStop(c, op, then)
      \/ KillGet(c) \/ PauseGet(c) \/ UnpauseGet(c) \/ PauseStep(c)
      \/ RemoveStep(c) \/ (\E force \in BOOLEAN : RemoveGet(c, force))
      \/ WaitGet(c) \/ WaitStep(c) \/ WaitCancel(c)
      \/ Backoff(c) \/ RestartFailed(c)
  <2>1. ~(ReaperStep \/ OomRead \/ OomWrite \/ (\E n \in Pids : ProcExit(n)) \/ Crash \/ Boot)
    BY <1>2, ClientsAlone
  <2> QED
    BY <1>1, <1>2, <2>1, NextCases, OwnStep
<1>6. ~WaitGet(c) /\ ~WaitStep(c) /\ ~WaitCancel(c)
  BY <1>3, <1>4 DEF WaitGet, WaitStep, WaitPick, WaitDone, WaitCode, WaitPoll, WaitCancel, At
<1>7. ~Backoff(c) /\ ~RestartFailed(c)
  BY <1>3 DEF Backoff, RestartFailed
<1>8. c = m
  BY <1>1, <1>5, <1>6, <1>7, OthersWait
<1>9. ~StartGet(c) /\ ~StartStep(c)
  BY <1>3, <1>4 DEF StartGet, StartStep, StartCreate, StartNetwork, StartRegister, StartRecord,
     StartExec, StartUnregister, StartUndo, StartClose
<1>10. ~KillGet(c) /\ ~PauseGet(c) /\ ~UnpauseGet(c) /\ ~PauseStep(c)
  BY <1>3 DEF KillGet, PauseGet, UnpauseGet, PauseStep, KillSend, PauseFreeze, PauseWrite, UnpauseThaw,
     UnpauseWrite
<1>11. ~RemoveStep(c) /\ \A force : ~RemoveGet(c, force)
  BY <1>3, <1>4 DEF RemoveStep, RemoveGet, RemoveDisconnect, RemoveDelete, RemoveBundle, RemoveStore,
     RemoveUnregister
<1>12. \A op, then : ~CallStop(c, op, then)
  BY <1>4 DEF CallStop
<1>13. StopStep(c)
  BY <1>5, <1>6, <1>7, <1>9, <1>10, <1>11, <1>12
<1>14. ~StopResume(c) /\ ~StopMark(c) /\ ~StopPick(c) /\ ~StopKill(c) /\ ~StopWaitAgain(c)
  BY <1>3, <1>4 DEF StopResume, StopMark, StopPick, StopKill, StopWaitAgain
<1>15. StopReturn(c)
  BY <1>3, <1>13, <1>14 DEF StopStep, StopGet, StopWait, StopDelete
<1> QED
  BY <1>8, <1>13, <1>14, <1>15 DEF StopStep

LEMMA StopStopped ==
  ASSUME TypeInv, NEW m, Serial(m), SerialInv(m), [Next]_vars, NEW c \in Clients,
         pc[c] # "idle", pc'[c] = "idle", ret'[c] = "stopped"
  PROVE  \A n \in Pids : proc'[n] # "exec"
<1>1. Next
  BY DEF vars, threadVars
<1>2. (StopGet(m) \/ StopWait(m) \/ StopDelete(m)) /\ StopReturn(m) /\ pc'[m] = "idle"
  BY <1>1, OnlyStopReturns
<1>3. PICK a, x, s : a = pc[m] /\ x = my[m] /\ s = snap[m]
  OBVIOUS
<1>4. Core(a, x, s) /\ m \in Threads
  BY <1>3, CoreAt DEF SerialInv, Serial, Threads
<1>5. CASE StopGet(m)
  <2>1. \A label : Goto(m, label) => pc'[m] = label
    BY <1>4 DEF Goto, TypeInv, ThreadInv, ThreadOK
  <2>2. a = "p_get" /\ daemon = "up" /\ UNCHANGED proc /\ (~Exists \/ ~rec.running)
    BY <1>2, <1>3, <1>5, <2>1 DEF StopGet, At, procVars, StopReturn, Finish
  <2> QED
    BY <1>4, <2>2 DEF Core, ExecInv, Names, Exists
<1>6. CASE StopWait(m)
  <2>1. Goto(m, "p_kill") => pc'[m] = "p_kill"
    BY <1>4 DEF Goto, TypeInv, ThreadInv, ThreadOK
  <2>2. a = "p_wait" /\ daemon = "up" /\ UNCHANGED proc /\ done[x]
    BY <1>2, <1>3, <1>6, <2>1 DEF StopWait, At, procVars
  <2>3. x = active /\ active # NoPid
    BY <1>4, <2>2 DEF Core, StopInv
  <2>4. ASSUME NEW n \in Pids, proc[n] = "exec" PROVE FALSE
    <3>1. n \in pidMap
      BY <1>4, <2>2, <2>4 DEF Core, ExecInv
    <3>2. n = x
      BY <1>4, <2>3, <3>1 DEF Core, HandInv, InHand
    <3> QED
      BY <1>4, <2>2, <2>4, <3>2 DEF Core, DoneInv
  <2> QED
    BY <2>2, <2>4
<1>7. CASE StopDelete(m)
  <2>1. a = "p_del" /\ CrunDelete /\ UNCHANGED <<diskVars, memVars, daemonVars>>
    BY <1>3, <1>7 DEF StopDelete, At
  <2>2. \A n \in Pids : ~Alive(n)'
    BY <1>4, <2>1, CoreDelete DEF Quiet, Owing
  <2> QED
    BY <2>2 DEF Alive
<1> QED
  BY <1>2, <1>5, <1>6, <1>7

\* A Stop that answers without error has no program left running behind it.
THEOREM SerialStops ==
  ASSUME NEW m, Serial(m)
  PROVE  Spec => StopMeansStopped
<1>1. TypeInv /\ SerialInv(m) /\ [Next]_vars
        => [\A c \in Clients : pc[c] # "idle" /\ pc'[c] = "idle" /\ ret'[c] = "stopped" =>
              \A n \in Pids : proc'[n] # "exec"]_vars
  BY StopStopped
<1> QED
  BY <1>1, SerialHolds, PTL DEF Spec, StopMeansStopped

LEMMA WaitTrue ==
  ASSUME TypeInv, NEW m, Serial(m), SerialInv(m), [Next]_vars, NEW c \in Clients,
         pc[c] = "w_code", got'[c] # got[c], daemon' = "up"
  PROVE  /\ ~Alive(my[c])
         /\ \/ got'[c] \in {code[n] : n \in my[c]..pids}
            \/ rec.status = "running" /\ rec.pid = my[c]
<1>1. c \in Threads /\ OneDriver(m) /\ my[c] \in Pids
  BY DEF Threads, SerialInv, TypeInv, ThreadInv, Holding
<1>2. Next
  BY DEF vars, threadVars
<1>3. WaitCode(c)
  <2>1. ~(ReaperStep \/ OomRead \/ OomWrite \/ (\E n \in Pids : ProcExit(n)) \/ Crash \/ Boot)
    BY ClientsAlone
  <2>2. \/ StartGet(c) \/ StartStep(c) \/ StopStep(c)
        \/ \E op \in Ops \ {"wait"}, then \in {"return", "start"} : CallStop(c, op, then)
        \/ KillGet(c) \/ PauseGet(c) \/ UnpauseGet(c) \/ PauseStep(c)
        \/ RemoveStep(c) \/ (\E force \in BOOLEAN : RemoveGet(c, force))
        \/ WaitGet(c) \/ WaitStep(c) \/ WaitCancel(c)
        \/ Backoff(c) \/ RestartFailed(c)
    BY <1>1, <1>2, <2>1, NextCases, OwnStep
  <2>3. ~StartGet(c) /\ ~StartStep(c)
    BY DEF StartGet, StartStep, Enters, At, StartCreate, StartNetwork, StartRegister, StartRecord,
       StartExec, StartUnregister, StartUndo, StartClose
  <2>4. ~StopStep(c) /\ \A op, then : ~CallStop(c, op, then)
    BY DEF StopStep, At, StopGet, StopResume, StopMark, StopPick, StopWait, StopKill,
       StopWaitAgain, StopDelete, CallStop
  <2>5. ~KillGet(c) /\ ~PauseGet(c) /\ ~UnpauseGet(c) /\ ~PauseStep(c)
    BY DEF KillGet, PauseGet, UnpauseGet, PauseStep, KillSend, PauseFreeze, PauseWrite, UnpauseThaw,
       UnpauseWrite, At
  <2>6. ~RemoveStep(c) /\ \A force : ~RemoveGet(c, force)
    BY DEF RemoveStep, RemoveGet, RemoveDisconnect, RemoveDelete, RemoveBundle, RemoveStore,
       RemoveUnregister, Enters, At
  <2>7. ~WaitGet(c) /\ ~WaitPick(c) /\ ~WaitDone(c) /\ ~WaitPoll(c) /\ ~WaitCancel(c)
        /\ ~Backoff(c) /\ ~RestartFailed(c)
    BY DEF WaitGet, WaitPick, WaitDone, WaitPoll, WaitCancel, Backoff, RestartFailed, At
  <2> QED
    BY <2>2, <2>3, <2>4, <2>5, <2>6, <2>7 DEF WaitStep
<1>4. got'[c] = IF Exists THEN rec.exit ELSE acExit[my[c]]
  BY <1>1, <1>3 DEF WaitCode, FinishWait, TypeInv, ThreadInv, ThreadOK
<1>5. PICK n \in Pids : n = my[c]
  BY <1>1
<1>6. done[n] /\ proc[n] = "gone"
  BY <1>1, <1>5 DEF OneDriver, SerialInv, Core, DoneInv
<1>7. n \in Nat /\ pids \in Nat /\ n <= pids
  BY <1>6, Bounds DEF SerialInv, Core, OneInit, TypeInv, ProcOK, Pids
<1>8. CASE Exists
  <2>1. Told(n, rec) \/ Names(n)
    BY <1>6, <1>8 DEF SerialInv, Core, CodeInv, Settled
  <2> QED
    BY <1>4, <1>5, <1>6, <1>8, <2>1 DEF Told, Names, Alive
<1>9. CASE ~Exists
  <2>1. acExit[n] = code[n]
    BY <1>6 DEF SerialInv, Core, CodeInv
  <2> QED
    BY <1>4, <1>5, <1>6, <1>7, <1>9, <2>1 DEF Alive
<1> QED
  BY <1>8, <1>9

\* A Wait the done channel wakes finds its init dead, and answers with the exit
\* code of that run or of a later one.
THEOREM SerialWaits ==
  ASSUME NEW m, Serial(m)
  PROVE  Spec => WaitTruth
<1>1. TypeInv /\ SerialInv(m) /\ [Next]_vars
        => [\A c \in Clients : pc[c] = "w_code" /\ got'[c] # got[c] /\ daemon' = "up" =>
              /\ ~Alive(my[c])
              /\ \/ got'[c] \in {code[n] : n \in my[c]..pids}
                 \/ rec.status = "running" /\ rec.pid = my[c]]_vars
  BY WaitTrue
<1> QED
  BY <1>1, SerialHolds, PTL DEF Spec, WaitTruth

=============================================================================
