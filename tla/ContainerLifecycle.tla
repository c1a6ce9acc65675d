------------------------- MODULE ContainerLifecycle -------------------------
(***************************************************************************)
(* The life of one container under internal/runtime's Manager: the record  *)
(* in the bbolt store, the in-memory active and pidMap tables, the init    *)
(* processes crun makes, the single reaper goroutine that runs HandleExit, *)
(* the API goroutines that run Start, Stop, Kill, Pause, Unpause, Remove,  *)
(* Restart and Wait, and the goroutines HandleExit spawns (restart policy, *)
(* auto-remove).  A goroutine is preempted between any two steps; a step   *)
(* is one bbolt transaction, one critical section of Manager.mu, one crun  *)
(* command or one network call, which are the atoms of the code.           *)
(*                                                                         *)
(* The tables are keyed by container id, so one id is the whole story; the *)
(* reaper is shared by all containers, which shows here as arbitrary delay *)
(* between its steps.                                                      *)
(*                                                                         *)
(* crun is external.  What the source expects of it: an id has at most one *)
(* live init; `create` refuses an id whose init is alive and may or may    *)
(* not accept one whose init is dead (Restart and the restart policy call  *)
(* it exactly there); `delete --force` kills the init and forgets the id.  *)
(* Any command can fail, and can also take effect and still report an      *)
(* error: its 30s context expires, or the reaper's Wait4(-1) takes the     *)
(* exit status crun's own cmd.Wait is waiting for.  Only `delete --force`, *)
(* whose result the source never looks at, is taken to have its effect.    *)
(***************************************************************************)
EXTENDS Integers

CONSTANTS
  Clients,     \* goroutines serving API requests
  Workers,     \* goroutines HandleExit spawns; their number bounds how many live at once
  Allowed,     \* the operations each client may call
  Configs,     \* the HostConfigs tried: restart policy, retry limit, auto-remove
  ExitCodes,   \* exit codes a program can end with by itself
  OomWatch,    \* whether the OOM watcher goroutine is running
  InitsDie,    \* whether an init can be killed before its program runs
  MaxPid,      \* bound: init processes ever created
  MaxCrash     \* bound: daemon crashes

Ops == {"start", "stop", "restart", "kill", "remove", "rmforce", "pause", "unpause", "wait"}
Policies == {"no", "always", "unless-stopped", "on-failure"}
Killed == 137

ASSUME ConstantsOK ==
  /\ Clients \cap Workers = {}
  /\ Allowed \in [Clients -> SUBSET Ops]
  /\ Configs \subseteq [policy : Policies, max : Nat, autoRemove : BOOLEAN]
  /\ ExitCodes \subseteq Nat
  /\ OomWatch \in BOOLEAN
  /\ InitsDie \in BOOLEAN
  /\ MaxPid \in Nat
  /\ MaxCrash \in Nat

Threads == Clients \cup Workers
Pids == 1..MaxPid
NoPid == 0
Codes == ExitCodes \cup {0, Killed}
NoCode == -1

VARIABLES
  \* the container's init processes and crun's view of the id
  proc,        \* none, ready (blocked in crun create), exec, zombie or gone
  code,        \* exit code of a dead init
  orphans,     \* inits the running daemon is not the parent of
  pids,        \* inits created so far
  crunPid,     \* the init in crun's state directory, NoPid without one
  frozen,      \* cgroup frozen by crun pause
  \* what survives a daemon crash
  rec,         \* the container record of the store
  bundle,      \* the bundle directory exists
  exitFile,    \* the exitcode file of the bundle, NoCode without one
  ep,          \* the init the stored network endpoint was made for
  cfg,         \* the HostConfig
  \* Manager's memory; an activeContainer is named by its pid
  active, pidMap, manual, done, acExit,
  \* per goroutine: program counter, pid or activeContainer it holds, record
  \* it read, what Stop returns to, last result, exit code Wait gave, and
  \* the record HandleExit left to a restart goroutine
  pc, my, snap, cont, ret, got, job,
  rp,          \* the reaper goroutine
  oom,         \* the OOM watcher goroutine
  daemon, crashes

procVars == <<proc, code, orphans, pids, crunPid, frozen>>
diskVars == <<rec, bundle, exitFile, ep, cfg>>
memVars == <<active, pidMap, manual, done, acExit>>
threadVars == <<pc, my, snap, cont, ret, got, job>>
daemonVars == <<rp, oom, daemon, crashes>>
vars == <<procVars, diskVars, memVars, threadVars, daemonVars>>

-----------------------------------------------------------------------------
(* The store.  UpdateContainer overwrites the whole record of an id that    *)
(* exists and fails for one that does not; no caller here heeds the error.  *)

Statuses == {"absent", "created", "running", "paused", "restarting", "exited"}

Record == [status : Statuses, running : BOOLEAN, paused : BOOLEAN,
           pid : 0..MaxPid, exit : Codes, restarts : Nat]

NoRec == [status |-> "absent", running |-> FALSE, paused |-> FALSE,
          pid |-> NoPid, exit |-> 0, restarts |-> 0]

Created == [NoRec EXCEPT !.status = "created"]

Exists == rec.status # "absent"

\* Mutation: the write creates the record again when it is gone.
UpdateContainerUpsert(r) == r

UpdateContainer(r) == IF Exists THEN r ELSE rec

(* crun and the kernel *)

Alive(n) == n \in Pids /\ proc[n] \in {"ready", "exec"}
Corpse(n) == IF n \in orphans THEN "gone" ELSE "zombie"

KillInit ==
  IF Alive(crunPid)
  THEN /\ proc' = [proc EXCEPT ![crunPid] = Corpse(crunPid)]
       /\ code' = [code EXCEPT ![crunPid] = Killed]
  ELSE UNCHANGED <<proc, code>>

CrunDelete ==
  /\ KillInit
  /\ crunPid' = NoPid
  /\ frozen' = FALSE
  /\ UNCHANGED <<orphans, pids>>

-----------------------------------------------------------------------------
(* Control flow of the goroutines *)

At(t, label) == daemon = "up" /\ pc[t] = label

\* t begins operation op, whose first step is at label, or reaches it from a caller
Enters(t, op, label) ==
  /\ daemon = "up"
  /\ \/ pc[t] = label
     \/ pc[t] = "idle" /\ t \in Clients /\ op \in Allowed[t]

\* A result is kept only until the goroutine goes on.
NoResult(t) ==
  /\ ret' = [ret EXCEPT ![t] = "none"]
  /\ got' = [got EXCEPT ![t] = NoCode]

Goto(t, label) ==
  /\ pc' = [pc EXCEPT ![t] = label]
  /\ NoResult(t)
  /\ UNCHANGED <<my, snap, cont, job>>

\* A restart goroutine whose Start fails goes on to mark the record.
Finish(t, result) ==
  LET marks == job[t].status = "restarting" /\ result # "ok" IN
  /\ pc' = [pc EXCEPT ![t] = IF marks THEN "restart_failed" ELSE "idle"]
  /\ job' = [job EXCEPT ![t] = IF marks THEN @ ELSE NoRec]
  /\ my' = [my EXCEPT ![t] = NoPid]
  /\ snap' = [snap EXCEPT ![t] = NoRec]
  /\ cont' = [cont EXCEPT ![t] = "return"]
  /\ ret' = [ret EXCEPT ![t] = IF t \in Clients THEN result ELSE "none"]
  /\ got' = [got EXCEPT ![t] = NoCode]

FinishWait(t, c) ==
  /\ pc' = [pc EXCEPT ![t] = "idle"]
  /\ my' = [my EXCEPT ![t] = NoPid]
  /\ ret' = [ret EXCEPT ![t] = "exit"]
  /\ got' = [got EXCEPT ![t] = c]
  /\ UNCHANGED <<snap, cont, job>>

\* GetContainer found the record: keep the copy and go on at label.
Snapshot(t, label) ==
  /\ pc' = [pc EXCEPT ![t] = label]
  /\ snap' = [snap EXCEPT ![t] = rec]
  /\ NoResult(t)
  /\ UNCHANGED <<my, cont, job>>

-----------------------------------------------------------------------------
(* Manager.Start *)

StartGet(t) ==
  /\ Enters(t, "start", "s_get")
  /\ \/ ~Exists /\ Finish(t, "error")
     \/ rec.status = "running" /\ Finish(t, "running")
     \/ Exists /\ rec.status # "running" /\ Snapshot(t, "s_create")
  /\ UNCHANGED <<procVars, diskVars, memVars, daemonVars>>

\* crun create.  It may fail with no effect; when it takes effect and reports
\* an error all the same, Start only closes its pipes, which waits for the init.
StartCreate(t) ==
  /\ At(t, "s_create")
  /\ \/ Finish(t, "error") /\ UNCHANGED procVars
     \/ /\ bundle /\ ~Alive(crunPid) /\ pids < MaxPid
        /\ pids' = pids + 1
        /\ crunPid' = pids + 1
        /\ frozen' = FALSE
        /\ proc' = [proc EXCEPT ![pids + 1] = "ready"]
        /\ my' = [my EXCEPT ![t] = pids + 1]
        /\ \E next \in {"s_net", "s_close"} : pc' = [pc EXCEPT ![t] = next]
        /\ UNCHANGED <<code, orphans, snap, cont, ret, got, job>>
  /\ UNCHANGED <<diskVars, memVars, daemonVars>>

\* setupContainerNetworking: Connect, then the record with its NetworkSettings.
\* It can fail before the endpoint is made or after (GenerateNetworkFiles).
StartNetwork(t) ==
  /\ At(t, "s_net")
  /\ \/ ep' = my[t] /\ rec' = UpdateContainer(snap[t]) /\ Goto(t, "s_reg")
     \/ ep' \in {ep, my[t]} /\ rec' = rec /\ Goto(t, "s_undo")
  /\ UNCHANGED <<bundle, exitFile, cfg, procVars, memVars, daemonVars>>

\* Mutation: the pid is not entered in pidMap.
StartRegisterNoPid(t) ==
  /\ At(t, "s_reg")
  /\ active' = my[t]
  /\ Goto(t, "s_run")
  /\ UNCHANGED <<pidMap, manual, done, acExit, procVars, diskVars, daemonVars>>

\* Mutation: the activeContainer of an earlier run is used again.
StartRegisterReuses(t) ==
  /\ At(t, "s_reg")
  /\ active' = IF active = NoPid THEN my[t] ELSE active
  /\ pidMap' = pidMap \cup {my[t]}
  /\ Goto(t, "s_run")
  /\ UNCHANGED <<manual, done, acExit, procVars, diskVars, daemonVars>>

\* Mutation: the pid entered is the one the old activeContainer has.
StartRegisterStale(t) ==
  /\ At(t, "s_reg")
  /\ active' = my[t]
  /\ pidMap' = pidMap \cup {active}
  /\ Goto(t, "s_run")
  /\ UNCHANGED <<manual, done, acExit, procVars, diskVars, daemonVars>>

StartRegister(t) ==
  /\ At(t, "s_reg")
  /\ active' = my[t]
  /\ pidMap' = pidMap \cup {my[t]}
  /\ Goto(t, "s_run")
  /\ UNCHANGED <<manual, done, acExit, procVars, diskVars, daemonVars>>

Running(r, n) == [r EXCEPT !.status = "running", !.running = TRUE, !.pid = n]

\* Mutation: the record does not get the pid.
StartRecordNoPid(t) ==
  /\ At(t, "s_run")
  /\ rec' = UpdateContainer(Running(snap[t], snap[t].pid))
  /\ Goto(t, "s_exec")
  /\ UNCHANGED <<bundle, exitFile, ep, cfg, procVars, memVars, daemonVars>>

StartRecord(t) ==
  /\ At(t, "s_run")
  /\ rec' = UpdateContainer(Running(snap[t], my[t]))
  /\ Goto(t, "s_exec")
  /\ UNCHANGED <<bundle, exitFile, ep, cfg, procVars, memVars, daemonVars>>

\* crun start runs the program of the init crun knows under the id.
StartExec(t) ==
  /\ At(t, "s_exec")
  /\ \/ Goto(t, "s_unreg") /\ UNCHANGED proc
     \/ /\ Alive(crunPid) /\ proc[crunPid] = "ready"
        /\ proc' = [proc EXCEPT ![crunPid] = "exec"]
        /\ Finish(t, "ok") \/ Goto(t, "s_unreg")
  /\ UNCHANGED <<code, orphans, pids, crunPid, frozen, diskVars, memVars, daemonVars>>

StartUnregister(t) ==
  /\ At(t, "s_unreg")
  /\ active' = NoPid
  /\ pidMap' = pidMap \ {my[t]}
  /\ Goto(t, "s_undo")
  /\ UNCHANGED <<manual, done, acExit, procVars, diskVars, daemonVars>>

StartUndo(t) ==
  /\ At(t, "s_undo")
  /\ CrunDelete
  /\ Goto(t, "s_close")
  /\ UNCHANGED <<diskVars, memVars, daemonVars>>

\* cio.Close waits for the copy loops, which end when the init's pipe ends do.
StartClose(t) ==
  /\ At(t, "s_close")
  /\ ~Alive(my[t])
  /\ Finish(t, "error")
  /\ UNCHANGED <<procVars, diskVars, memVars, daemonVars>>

StartStep(t) ==
  \/ StartCreate(t) \/ StartNetwork(t) \/ StartRegister(t) \/ StartRecord(t)
  \/ StartExec(t) \/ StartUnregister(t) \/ StartUndo(t) \/ StartClose(t)

-----------------------------------------------------------------------------
(* Manager.Stop, and Restart, which is Stop then Start.  Remove calls it too. *)

CallStop(t, op, then) ==
  /\ At(t, "idle") /\ t \in Clients /\ op \in Allowed[t]
  /\ pc' = [pc EXCEPT ![t] = "p_get"]
  /\ cont' = [cont EXCEPT ![t] = then]
  /\ NoResult(t)
  /\ UNCHANGED <<my, snap, job, procVars, diskVars, memVars, daemonVars>>

StopReturn(t) ==
  \/ cont[t] = "return" /\ Finish(t, "stopped")
  \/ cont[t] = "remove" /\ Goto(t, "r_disc")
  \/ cont[t] = "start" /\ Goto(t, "s_get")

\* Remove goes on when Stop fails.
StopGet(t) ==
  /\ At(t, "p_get")
  /\ \/ ~Exists /\ cont[t] # "remove" /\ Finish(t, "error")
     \/ ~Exists /\ cont[t] = "remove" /\ StopReturn(t)
     \/ Exists /\ ~rec.running /\ ~rec.paused /\ StopReturn(t)
     \/ Exists /\ rec.paused /\ Goto(t, "p_resume")
     \/ Exists /\ rec.running /\ ~rec.paused /\ Goto(t, "p_mark")
  /\ UNCHANGED <<procVars, diskVars, memVars, daemonVars>>

StopResume(t) ==
  /\ At(t, "p_resume")
  /\ frozen' \in {frozen, FALSE}
  /\ Goto(t, "p_mark")
  /\ UNCHANGED <<proc, code, orphans, pids, crunPid, diskVars, memVars, daemonVars>>

StopMark(t) ==
  /\ At(t, "p_mark")
  /\ manual' = IF active = NoPid THEN manual ELSE [manual EXCEPT ![active] = TRUE]
  /\ Goto(t, "p_pick")
  /\ UNCHANGED <<active, pidMap, done, acExit, procVars, diskVars, daemonVars>>

\* SIGTERM changes nothing by itself: an init may end at any time (ProcExit).
StopPick(t) ==
  /\ At(t, "p_pick")
  /\ my' = [my EXCEPT ![t] = active]
  /\ pc' = [pc EXCEPT ![t] = IF active = NoPid THEN "p_del" ELSE "p_wait"]
  /\ UNCHANGED <<snap, cont, ret, got, job, procVars, diskVars, memVars, daemonVars>>

\* Mutation: no timer runs beside the done channel.
StopWaitForever(t) ==
  /\ At(t, "p_wait")
  /\ done[my[t]] /\ StopReturn(t)
  /\ UNCHANGED <<procVars, diskVars, memVars, daemonVars>>

StopWait(t) ==
  /\ At(t, "p_wait")
  /\ \/ done[my[t]] /\ StopReturn(t)
     \/ Goto(t, "p_kill")                                 \* the stop timeout
  /\ UNCHANGED <<procVars, diskVars, memVars, daemonVars>>

StopKill(t) ==
  /\ At(t, "p_kill")
  /\ KillInit \/ UNCHANGED <<proc, code>>
  /\ Goto(t, "p_wait2")
  /\ UNCHANGED <<orphans, pids, crunPid, frozen, diskVars, memVars, daemonVars>>

\* done, or five seconds
StopWaitAgain(t) ==
  /\ At(t, "p_wait2")
  /\ Goto(t, "p_del")
  /\ UNCHANGED <<procVars, diskVars, memVars, daemonVars>>

\* Mutation: no crun delete after the kill.
StopDeleteSkips(t) ==
  /\ At(t, "p_del")
  /\ StopReturn(t)
  /\ UNCHANGED <<procVars, diskVars, memVars, daemonVars>>

StopDelete(t) ==
  /\ At(t, "p_del")
  /\ CrunDelete
  /\ StopReturn(t)
  /\ UNCHANGED <<diskVars, memVars, daemonVars>>

StopStep(t) ==
  \/ StopGet(t) \/ StopResume(t) \/ StopMark(t) \/ StopPick(t) \/ StopWait(t)
  \/ StopKill(t) \/ StopWaitAgain(t) \/ StopDelete(t)

-----------------------------------------------------------------------------
(* Manager.Kill, with SIGKILL *)

KillGet(t) ==
  /\ At(t, "idle") /\ t \in Clients /\ "kill" \in Allowed[t]
  /\ IF Exists /\ rec.running THEN Goto(t, "k_send") ELSE Finish(t, "error")
  /\ UNCHANGED <<procVars, diskVars, memVars, daemonVars>>

KillSend(t) ==
  /\ At(t, "k_send")
  /\ \/ KillInit /\ Finish(t, "ok")
     \/ UNCHANGED <<proc, code>> /\ Finish(t, "error")
  /\ UNCHANGED <<orphans, pids, crunPid, frozen, diskVars, memVars, daemonVars>>

(* Manager.Pause and Unpause: read, freeze or thaw, write back the copy read *)

PauseGet(t) ==
  /\ At(t, "idle") /\ t \in Clients /\ "pause" \in Allowed[t]
  /\ \/ rec.status # "running" /\ Finish(t, "error")
     \/ rec.status = "running" /\ rec.paused /\ Finish(t, "paused")
     \/ rec.status = "running" /\ ~rec.paused /\ Snapshot(t, "z_freeze")
  /\ UNCHANGED <<procVars, diskVars, memVars, daemonVars>>

PauseFreeze(t) ==
  /\ At(t, "z_freeze")
  /\ \/ Finish(t, "error") /\ frozen' \in {frozen, frozen \/ Alive(crunPid)}
     \/ Alive(crunPid) /\ frozen' = TRUE /\ Goto(t, "z_write")
  /\ UNCHANGED <<proc, code, orphans, pids, crunPid, diskVars, memVars, daemonVars>>

PauseWrite(t) ==
  /\ At(t, "z_write")
  /\ rec' = UpdateContainer([snap[t] EXCEPT !.status = "paused", !.paused = TRUE])
  /\ Finish(t, "ok")
  /\ UNCHANGED <<bundle, exitFile, ep, cfg, procVars, memVars, daemonVars>>

UnpauseGet(t) ==
  /\ At(t, "idle") /\ t \in Clients /\ "unpause" \in Allowed[t]
  /\ IF Exists /\ rec.paused THEN Snapshot(t, "z_thaw") ELSE Finish(t, "error")
  /\ UNCHANGED <<procVars, diskVars, memVars, daemonVars>>

UnpauseThaw(t) ==
  /\ At(t, "z_thaw")
  /\ \/ Finish(t, "error") /\ frozen' \in {frozen, FALSE}
     \/ Alive(crunPid) /\ frozen' = FALSE /\ Goto(t, "z_unwrite")
  /\ UNCHANGED <<proc, code, orphans, pids, crunPid, diskVars, memVars, daemonVars>>

UnpauseWrite(t) ==
  /\ At(t, "z_unwrite")
  /\ rec' = UpdateContainer([snap[t] EXCEPT !.status = "running", !.paused = FALSE])
  /\ Finish(t, "ok")
  /\ UNCHANGED <<bundle, exitFile, ep, cfg, procVars, memVars, daemonVars>>

PauseStep(t) ==
  \/ KillSend(t) \/ PauseFreeze(t) \/ PauseWrite(t) \/ UnpauseThaw(t) \/ UnpauseWrite(t)

-----------------------------------------------------------------------------
(* Manager.Remove.  An auto-remove goroutine enters at r_get, with force. *)

RemoveGet(t, force) ==
  /\ Enters(t, IF force THEN "rmforce" ELSE "remove", "r_get")
  /\ force \/ pc[t] = "idle"
  /\ \/ ~Exists /\ Finish(t, "error")
     \/ Exists /\ ~rec.running /\ Goto(t, "r_disc")
     \/ Exists /\ rec.running /\ ~force /\ Finish(t, "error")
     \/ /\ Exists /\ rec.running /\ force
        /\ pc' = [pc EXCEPT ![t] = "p_get"]
        /\ cont' = [cont EXCEPT ![t] = "remove"]
        /\ NoResult(t)
        /\ UNCHANGED <<my, snap, job>>
  /\ UNCHANGED <<procVars, diskVars, memVars, daemonVars>>

RemoveDisconnect(t) ==
  /\ At(t, "r_disc")
  /\ ep' = NoPid
  /\ Goto(t, "r_del")
  /\ UNCHANGED <<rec, bundle, exitFile, cfg, procVars, memVars, daemonVars>>

\* Mutation: the crun state, and a process in it, is left behind.
RemoveDeleteSkips(t) ==
  /\ At(t, "r_del")
  /\ Goto(t, "r_bundle")
  /\ UNCHANGED <<procVars, diskVars, memVars, daemonVars>>

RemoveDelete(t) ==
  /\ At(t, "r_del")
  /\ CrunDelete
  /\ Goto(t, "r_bundle")
  /\ UNCHANGED <<diskVars, memVars, daemonVars>>

RemoveBundle(t) ==
  /\ At(t, "r_bundle")
  /\ bundle' = FALSE
  /\ exitFile' = NoCode
  /\ Goto(t, "r_store")
  /\ UNCHANGED <<rec, ep, cfg, procVars, memVars, daemonVars>>

RemoveStore(t) ==
  /\ At(t, "r_store")
  /\ rec' = NoRec
  /\ Goto(t, "r_unreg")
  /\ UNCHANGED <<bundle, exitFile, ep, cfg, procVars, memVars, daemonVars>>

\* pidMap keeps its entry
RemoveUnregister(t) ==
  /\ At(t, "r_unreg")
  /\ active' = NoPid
  /\ Finish(t, "removed")
  /\ UNCHANGED <<pidMap, manual, done, acExit, procVars, diskVars, daemonVars>>

RemoveStep(t) ==
  \/ pc[t] = "r_get" /\ RemoveGet(t, TRUE)
  \/ RemoveDisconnect(t) \/ RemoveDelete(t) \/ RemoveBundle(t)
  \/ RemoveStore(t) \/ RemoveUnregister(t)

-----------------------------------------------------------------------------
(* Manager.Wait *)

WaitGet(t) ==
  /\ At(t, "idle") /\ t \in Clients /\ "wait" \in Allowed[t]
  /\ \/ ~Exists /\ Finish(t, "error")
     \/ rec.status = "exited" /\ FinishWait(t, rec.exit)
     \/ Exists /\ rec.status # "exited" /\ Goto(t, "w_pick")
  /\ UNCHANGED <<procVars, diskVars, memVars, daemonVars>>

WaitPick(t) ==
  /\ At(t, "w_pick")
  /\ my' = [my EXCEPT ![t] = active]
  /\ pc' = [pc EXCEPT ![t] = IF active = NoPid THEN "w_poll" ELSE "w_done"]
  /\ UNCHANGED <<snap, cont, ret, got, job, procVars, diskVars, memVars, daemonVars>>

\* The done channel, or the request's context
WaitDone(t) ==
  /\ At(t, "w_done")
  /\ done[my[t]]
  /\ Goto(t, "w_code")
  /\ UNCHANGED <<procVars, diskVars, memVars, daemonVars>>

WaitCancel(t) ==
  /\ At(t, "w_done") \/ At(t, "w_poll")
  /\ Finish(t, "error")
  /\ UNCHANGED <<procVars, diskVars, memVars, daemonVars>>

WaitCode(t) ==
  /\ At(t, "w_code")
  /\ FinishWait(t, IF Exists THEN rec.exit ELSE acExit[my[t]])
  /\ UNCHANGED <<procVars, diskVars, memVars, daemonVars>>

WaitPoll(t) ==
  /\ At(t, "w_poll")
  /\ \/ ~Exists /\ FinishWait(t, 0)
     \/ rec.status = "exited" /\ FinishWait(t, rec.exit)
     \/ Exists /\ rec.status # "exited" /\ Goto(t, "w_pick")
  /\ UNCHANGED <<procVars, diskVars, memVars, daemonVars>>

WaitStep(t) == WaitPick(t) \/ WaitDone(t) \/ WaitCode(t) \/ WaitPoll(t)

-----------------------------------------------------------------------------
(* The reaper goroutine: reapChildren, then HandleExit, for one pid at a    *)
(* time.  rp.ac is the activeContainer HandleExit found under the id.       *)

RpIdle == [pc |-> "idle", pid |-> NoPid, ac |-> NoPid, rec |-> NoRec]

ReaperAt(label) == daemon = "up" /\ rp.pc = label

ReapWait(n) ==
  /\ ReaperAt("idle")
  /\ proc[n] = "zombie"
  /\ proc' = [proc EXCEPT ![n] = "gone"]
  /\ rp' = [RpIdle EXCEPT !.pid = n,
              !.pc = IF n \in pidMap /\ active # NoPid THEN "file" ELSE "lookup"]
  /\ UNCHANGED <<code, orphans, pids, crunPid, frozen, oom, daemon, crashes>>
  /\ UNCHANGED <<diskVars, memVars, threadVars>>

\* writeExitCodeFile, best effort
ReapFile ==
  /\ ReaperAt("file")
  /\ exitFile' = IF bundle THEN code[rp.pid] ELSE exitFile
  /\ rp' = [rp EXCEPT !.pc = "lookup"]
  /\ UNCHANGED <<rec, bundle, ep, cfg, procVars, memVars, threadVars, oom, daemon, crashes>>

\* Mutation: the pid stays in pidMap.
ExitLookupKeeps ==
  /\ ReaperAt("lookup")
  /\ rp' = IF rp.pid \in pidMap THEN [rp EXCEPT !.pc = "read", !.ac = active] ELSE RpIdle
  /\ UNCHANGED <<memVars, procVars, diskVars, threadVars, oom, daemon, crashes>>

\* Under the lock: an unknown pid is dropped; the activeContainer is looked
\* up by container id.  cio.Close follows: every holder of the pipes is dead.
ExitLookup ==
  /\ ReaperAt("lookup")
  /\ IF rp.pid \in pidMap
     THEN /\ pidMap' = pidMap \ {rp.pid}
          /\ acExit' = IF active = NoPid THEN acExit ELSE [acExit EXCEPT ![active] = code[rp.pid]]
          /\ rp' = [rp EXCEPT !.pc = "read", !.ac = active]
     ELSE rp' = RpIdle /\ UNCHANGED <<pidMap, acExit>>
  /\ UNCHANGED <<active, manual, done, procVars, diskVars, threadVars, oom, daemon, crashes>>

\* Mutation: done is closed before the record is written.
ExitReadWakesFirst ==
  /\ ReaperAt("read")
  /\ rp' = [rp EXCEPT !.rec = rec, !.pc = IF Exists THEN "write" ELSE "close"]
  /\ done' = IF rp.ac = NoPid THEN done ELSE [done EXCEPT ![rp.ac] = TRUE]
  /\ UNCHANGED <<active, pidMap, manual, acExit, procVars, diskVars, threadVars>>
  /\ UNCHANGED <<oom, daemon, crashes>>

ExitRead ==
  /\ ReaperAt("read")
  /\ rp' = [rp EXCEPT !.rec = rec, !.pc = IF Exists THEN "write" ELSE "close"]
  /\ UNCHANGED <<procVars, diskVars, memVars, threadVars, oom, daemon, crashes>>

Exited(r, c) ==
  [r EXCEPT !.status = "exited", !.running = FALSE, !.pid = NoPid, !.exit = c]

ExitWrite ==
  /\ ReaperAt("write")
  /\ rp' = [rp EXCEPT !.rec = Exited(rp.rec, code[rp.pid]), !.pc = "disc"]
  /\ rec' = UpdateContainer(Exited(rp.rec, code[rp.pid]))
  /\ UNCHANGED <<bundle, exitFile, ep, cfg, procVars, memVars, threadVars, oom, daemon, crashes>>

ExitDisconnect ==
  /\ ReaperAt("disc")
  /\ ep' = NoPid
  /\ rp' = [rp EXCEPT !.pc = "close"]
  /\ UNCHANGED <<rec, bundle, exitFile, cfg, procVars, memVars, threadVars, oom, daemon, crashes>>

\* What a dying daemon loses; its children become init's.
DaemonDies ==
  /\ daemon' = "down"
  /\ active' = NoPid /\ pidMap' = {}
  /\ manual' = [n \in Pids |-> FALSE] /\ done' = [n \in Pids |-> FALSE]
  /\ acExit' = [n \in Pids |-> 0]
  /\ pc' = [t \in Threads |-> "idle"] /\ my' = [t \in Threads |-> NoPid]
  /\ snap' = [t \in Threads |-> NoRec] /\ cont' = [t \in Threads |-> "return"]
  /\ ret' = [t \in Threads |-> "none"] /\ got' = [t \in Threads |-> NoCode]
  /\ job' = [t \in Threads |-> NoRec]
  /\ rp' = RpIdle
  /\ oom' = [pc |-> "idle", seen |-> {}, rec |-> NoRec]
  /\ orphans' = 1..pids
  /\ proc' = [n \in Pids |-> IF proc[n] = "zombie" THEN "gone" ELSE proc[n]]
  /\ UNCHANGED <<code, pids, crunPid, frozen, diskVars>>

\* Mutation: done is never closed.
ExitCloseForgets ==
  /\ ReaperAt("close")
  /\ rp' = IF rp.rec = NoRec THEN RpIdle ELSE [rp EXCEPT !.pc = "after"]
  /\ UNCHANGED <<procVars, diskVars, memVars, threadVars, oom, daemon, crashes>>

\* close(ac.done): closing it twice panics, and the daemon dies with it.
\* A record that was gone ends HandleExit here.
ExitClose ==
  /\ ReaperAt("close")
  /\ IF rp.ac # NoPid /\ done[rp.ac]
     THEN DaemonDies /\ UNCHANGED crashes
     ELSE /\ done' = IF rp.ac = NoPid THEN done ELSE [done EXCEPT ![rp.ac] = TRUE]
          /\ rp' = IF rp.rec = NoRec THEN RpIdle ELSE [rp EXCEPT !.pc = "after"]
          /\ UNCHANGED <<active, pidMap, manual, acExit, procVars, diskVars, threadVars>>
          /\ UNCHANGED <<oom, daemon, crashes>>

\* Mutation: one retry too many.
ShouldRestartOnceMore(r, c, stopped) ==
  \/ cfg.policy \in {"always", "unless-stopped"} /\ ~stopped
  \/ /\ cfg.policy = "on-failure" /\ c # 0 /\ ~stopped
     /\ cfg.max = 0 \/ r.restarts <= cfg.max

\* handleRestartPolicy's decision, on the record HandleExit read
ShouldRestart(r, c, stopped) ==
  \/ cfg.policy \in {"always", "unless-stopped"} /\ ~stopped
  \/ /\ cfg.policy = "on-failure" /\ c # 0 /\ ~stopped
     /\ cfg.max = 0 \/ r.restarts < cfg.max

\* Auto-remove or the restart policy, each in a goroutine of its own.
ExitAfter ==
  LET stopped == rp.ac # NoPid /\ manual[rp.ac]
      again == [rp.rec EXCEPT !.restarts = @ + 1, !.status = "restarting"]
      Spawn(label, r) == \E w \in Workers :
        /\ pc[w] = "idle"
        /\ pc' = [pc EXCEPT ![w] = label]
        /\ job' = [job EXCEPT ![w] = r]
        /\ UNCHANGED <<my, snap, cont, ret, got>>
  IN
  /\ ReaperAt("after")
  /\ \/ cfg.autoRemove /\ Spawn("r_get", NoRec) /\ UNCHANGED rec
     \/ /\ ~cfg.autoRemove /\ ShouldRestart(rp.rec, code[rp.pid], stopped)
        /\ rec' = UpdateContainer(again)
        /\ Spawn("backoff", again)
     \/ /\ ~cfg.autoRemove /\ ~ShouldRestart(rp.rec, code[rp.pid], stopped)
        /\ UNCHANGED <<rec, threadVars>>
  /\ rp' = RpIdle
  /\ UNCHANGED <<bundle, exitFile, ep, cfg, procVars, memVars, oom, daemon, crashes>>

ReaperStep ==
  \/ \E n \in Pids : ReapWait(n)
  \/ ReapFile \/ ExitLookup \/ ExitRead \/ ExitWrite \/ ExitDisconnect
  \/ ExitClose \/ ExitAfter

\* The restart goroutine: sleep, Start, and on failure write back the record
\* HandleExit left to it.
Backoff(w) ==
  /\ At(w, "backoff")
  /\ Goto(w, "s_get")
  /\ UNCHANGED <<procVars, diskVars, memVars, daemonVars>>

RestartFailed(w) ==
  /\ At(w, "restart_failed")
  /\ rec' = UpdateContainer([job[w] EXCEPT !.status = "exited"])
  /\ Finish(w, "ok")
  /\ UNCHANGED <<bundle, exitFile, ep, cfg, procVars, memVars, daemonVars>>

-----------------------------------------------------------------------------
(* The OOM watcher: one report per activeContainer, until HandleExit        *)
(* cancels the watch; a report under way is not waited for.                 *)

OomRead ==
  /\ OomWatch /\ daemon = "up" /\ oom.pc = "idle"
  /\ active # NoPid /\ active \in pidMap /\ active \notin oom.seen
  /\ Exists
  /\ oom' = [pc |-> "write", seen |-> oom.seen \cup {active}, rec |-> rec]
  /\ UNCHANGED <<procVars, diskVars, memVars, threadVars, rp, daemon, crashes>>

OomWrite ==
  /\ daemon = "up" /\ oom.pc = "write"
  /\ rec' = UpdateContainer(oom.rec)
  /\ oom' = [oom EXCEPT !.pc = "idle", !.rec = NoRec]
  /\ UNCHANGED <<bundle, exitFile, ep, cfg, procVars, memVars, threadVars, rp, daemon, crashes>>

-----------------------------------------------------------------------------
(* The environment, and the daemon's own death and rebirth *)

\* A program ends by itself, or its init is killed from outside.
ProcExit(n) ==
  /\ Alive(n)
  /\ proc[n] = "ready" => InitsDie
  /\ \E c \in ExitCodes \cup {Killed} :
       /\ c # Killed => proc[n] = "exec" /\ ~(frozen /\ crunPid = n)
       /\ code' = [code EXCEPT ![n] = c]
  /\ proc' = [proc EXCEPT ![n] = Corpse(n)]
  /\ UNCHANGED <<orphans, pids, crunPid, frozen, diskVars, memVars, threadVars, daemonVars>>

Crash ==
  /\ daemon = "up" /\ crashes < MaxCrash
  /\ crashes' = crashes + 1
  /\ DaemonDies

\* RecoverOrphans, before the reaper and the API run.  A paused record, like
\* an exited one, is left as it is.
RecoveredExit == IF exitFile = NoCode THEN Killed ELSE exitFile

Boot ==
  /\ daemon = "down"
  /\ daemon' = "up"
  /\ \/ /\ rec.status \in {"running", "restarting"}
        /\ CrunDelete
        /\ rec' = Exited(rec, RecoveredExit)
        /\ UNCHANGED bundle
     \/ /\ rec.status = "created"
        /\ CrunDelete
        /\ rec' = NoRec
        /\ bundle' = FALSE
     \/ /\ rec.status \in {"absent", "exited", "paused"}
        /\ UNCHANGED <<procVars, rec, bundle>>
  /\ exitFile' = IF bundle' THEN exitFile ELSE NoCode
  /\ UNCHANGED <<ep, cfg, memVars, threadVars, rp, oom, crashes>>

-----------------------------------------------------------------------------
Init ==
  /\ proc = [n \in Pids |-> "none"] /\ code = [n \in Pids |-> 0]
  /\ orphans = {} /\ pids = 0 /\ crunPid = NoPid /\ frozen = FALSE
  /\ rec = Created /\ bundle = TRUE /\ exitFile = NoCode /\ ep = NoPid
  /\ cfg \in Configs
  /\ active = NoPid /\ pidMap = {}
  /\ manual = [n \in Pids |-> FALSE] /\ done = [n \in Pids |-> FALSE]
  /\ acExit = [n \in Pids |-> 0]
  /\ pc = [t \in Threads |-> "idle"] /\ my = [t \in Threads |-> NoPid]
  /\ snap = [t \in Threads |-> NoRec] /\ cont = [t \in Threads |-> "return"]
  /\ ret = [t \in Threads |-> "none"] /\ got = [t \in Threads |-> NoCode]
  /\ job = [t \in Threads |-> NoRec]
  /\ rp = RpIdle
  /\ oom = [pc |-> "idle", seen |-> {}, rec |-> NoRec]
  /\ daemon = "up" /\ crashes = 0

\* A goroutine going on with what it began
Proceed(t) ==
  \/ pc[t] = "s_get" /\ StartGet(t)
  \/ StartStep(t) \/ StopStep(t) \/ PauseStep(t) \/ RemoveStep(t) \/ WaitStep(t)
  \/ Backoff(t) \/ RestartFailed(t)

\* A client making a request
Call(t) ==
  \/ pc[t] = "idle" /\ StartGet(t)
  \/ CallStop(t, "stop", "return") \/ CallStop(t, "restart", "start")
  \/ KillGet(t) \/ PauseGet(t) \/ UnpauseGet(t) \/ WaitGet(t)
  \/ pc[t] = "idle" /\ \E force \in BOOLEAN : RemoveGet(t, force)

Next ==
  \/ \E t \in Threads : Proceed(t)
  \/ \E c \in Clients : Call(c) \/ WaitCancel(c)
  \/ ReaperStep
  \/ OomRead \/ OomWrite
  \/ \E n \in Pids : ProcExit(n)
  \/ Crash \/ Boot

\* Goroutines are scheduled, timers fire, the reaper keeps its loop; nobody
\* has to make a request, end a program or crash the daemon.
Fairness ==
  /\ \A t \in Threads : WF_vars(Proceed(t))
  /\ WF_vars(ReaperStep)

Spec == Init /\ [][Next]_vars
FairSpec == Spec /\ Fairness

-----------------------------------------------------------------------------
(* Properties *)

Labels == {"idle", "s_get", "s_create", "s_net", "s_reg", "s_run", "s_exec", "s_unreg",
           "s_undo", "s_close", "p_get", "p_resume", "p_mark", "p_pick", "p_wait", "p_kill",
           "p_wait2", "p_del", "k_send", "z_freeze", "z_write", "z_thaw", "z_unwrite",
           "r_get", "r_disc", "r_del", "r_bundle", "r_store", "r_unreg",
           "w_pick", "w_done", "w_code", "w_poll", "backoff", "restart_failed"}

Results == {"none", "ok", "error", "running", "paused", "stopped", "removed", "exit"}

ProcOK ==
  /\ proc \in [Pids -> {"none", "ready", "exec", "zombie", "gone"}]
  /\ code \in [Pids -> Codes]
  /\ orphans \subseteq Pids /\ pids \in 0..MaxPid /\ crunPid \in 0..MaxPid
  /\ frozen \in BOOLEAN

DiskOK ==
  /\ rec \in Record /\ bundle \in BOOLEAN /\ exitFile \in Codes \cup {NoCode}
  /\ ep \in 0..MaxPid /\ cfg \in Configs

MemOK ==
  /\ active \in 0..MaxPid /\ pidMap \subseteq Pids
  /\ manual \in [Pids -> BOOLEAN] /\ done \in [Pids -> BOOLEAN]
  /\ acExit \in [Pids -> Codes]

ThreadOK ==
  /\ pc \in [Threads -> Labels] /\ my \in [Threads -> 0..MaxPid]
  /\ snap \in [Threads -> Record] /\ cont \in [Threads -> {"return", "remove", "start"}]
  /\ ret \in [Threads -> Results] /\ got \in [Threads -> Codes \cup {NoCode}]
  /\ job \in [Threads -> Record]

DaemonOK ==
  /\ rp \in [pc : {"idle", "file", "lookup", "read", "write", "disc", "close", "after"},
             pid : 0..MaxPid, ac : 0..MaxPid, rec : Record]
  /\ oom \in [pc : {"idle", "write"}, seen : SUBSET Pids, rec : Record]
  /\ daemon \in {"up", "down"} /\ crashes \in 0..MaxCrash

\* Every variable keeps its type.
TypeOK == ProcOK /\ DiskOK /\ MemOK /\ ThreadOK /\ DaemonOK

\* A program that runs under this daemon is in pidMap, so that its exit finds
\* HandleExit, unless its Start is about to kill it (container.go:591-593).
LiveProgramRegistered ==
  \A n \in Pids : proc[n] = "exec" /\ daemon = "up" =>
    n \in pidMap \/ \E t \in Threads : pc[t] = "s_undo" /\ my[t] = n

\* While a program runs the store says so, and names it: Stop, Kill and
\* Remove, which look only at the record, cannot take it for stopped.
RecordTruth ==
  \A n \in Pids : proc[n] = "exec" => rec.status = "running" /\ rec.pid = n

\* Every pid of pidMap has a death still to be handled, or a Start that will
\* take it out again.  The kernel reuses pids: an entry left behind would make
\* a stranger's exit the container's.
PidMapFresh ==
  \A n \in pidMap :
    \/ proc[n] \in {"ready", "exec", "zombie"}
    \/ rp.pid = n /\ rp.pc \in {"file", "lookup"}
    \/ \E t \in Threads : my[t] = n /\ pc[t] \in {"s_run", "s_exec", "s_unreg"}

\* HandleExit never closes a done channel that is closed, which would panic
\* in the reaper goroutine and take the daemon down.
NoDoubleClose ==
  ReaperAt("close") /\ rp.ac # NoPid => ~done[rp.ac]

\* Once a container is removed nothing of it is left: no init, no crun state,
\* no bundle, no activeContainer and (short of a crash) no network endpoint.
RemoveLeavesNothing ==
  ~Exists /\ (\A t \in Threads : pc[t] = "idle") =>
    /\ \A n \in Pids : ~Alive(n)
    /\ crunPid = NoPid /\ ~bundle /\ active = NoPid
    /\ crashes = 0 => ep = NoPid

\* A removed record never comes back, whoever still holds a copy of it.
RemovedStaysRemoved == [][~Exists => ~Exists']_vars

\* A Stop that returns without error leaves no program running.
StopMeansStopped ==
  [][\A c \in Clients : pc[c] # "idle" /\ pc'[c] = "idle" /\ ret'[c] = "stopped" =>
       \A n \in Pids : proc'[n] # "exec"]_vars

\* A Wait woken by the done channel finds its init dead, and answers with the
\* exit code of that run or of a later one, never an earlier one; unless Start
\* wrote its record over HandleExit's, having lost the init before it ran.
WaitTruth ==
  [][\A c \in Clients : pc[c] = "w_code" /\ got'[c] # got[c] /\ daemon' = "up" =>
       /\ ~Alive(my[c])
       /\ \/ got'[c] \in {code[n] : n \in my[c]..pids}
          \/ rec.status = "running" /\ rec.pid = my[c]]_vars

\* RestartCount never passes MaximumRetryCount.
RestartsBounded ==
  cfg.policy = "on-failure" /\ cfg.max > 0 => rec.restarts <= cfg.max

\* A Stop always comes back, even from a program deaf to SIGTERM.
StopReturns ==
  \A c \in Clients : (pc[c] \in {"p_wait", "p_wait2"} /\ cont[c] = "return") ~> pc[c] = "idle"

\* The death of an init whose Start is over reaches the record, which stops
\* naming it, and wakes those who wait for it, unless it was removed meanwhile.
Starting(n) == \E t \in Threads : my[t] = n /\ pc[t] \in {"s_run", "s_exec", "s_unreg"}

ExitRecorded ==
  \A n \in Pids :
    (n \in pidMap /\ ~Alive(n) /\ ~Starting(n))
      ~> (daemon = "down" \/ ~Exists \/ (rec.pid # n /\ done[n]))

\* What the documentation says and the code does not do.

\* Stop "prevents restart policy from firing" (docs/SPEC.md:364): after a Stop
\* that returned without error no restart goroutine wakes up to call Start.
StopPreventsRestart ==
  [][\A w \in Workers : pc[w] = "backoff" /\ pc'[w] = "s_get" =>
       \A c \in Clients : ret[c] # "stopped"]_vars

=============================================================================
