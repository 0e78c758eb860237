--------------------------- MODULE TunSupervisor ---------------------------
(***************************************************************************)
(* The sing-box supervisor of the engine (engine/internal/tun).            *)
(*                                                                         *)
(* One goroutine at a time is inside Activate or Stop (stopMu); each       *)
(* sidecar process has a goroutine of its own (waitProcess), which shares  *)
(* s.status and s.run with that caller under s.mu.  A step of this module  *)
(* is one critical section of s.mu, or one blocking operation.             *)
(*                                                                         *)
(* A run (sidecarRun) is named by a member of Runs; the same name stands   *)
(* for the process identifier that Status.PID reports.  Time stamps, exit  *)
(* codes, LastError and the log lines are left out: nothing branches on    *)
(* them.                                                                   *)
(***************************************************************************)
CONSTANTS Runs,     \* the sidecar processes the supervisor may ever start
          NoRun     \* the nil *sidecarRun, and PID 0

ASSUME NoRunAssumption == NoRun \notin Runs

VARIABLES
    status,         \* s.status: its State and PID
    run,            \* s.run
    proc,           \* the operating system's view of each process
    intentional,    \* sidecarRun.intentional
    unexpected,     \* the local variable of each waitProcess
    snapshot,       \* the local variable status of each waitProcess
    waiter,         \* where each waitProcess stands
    cleanupErr,     \* outcome of the one network cleanup of each run
    net,            \* runs whose device or routes are in the network
    pc,             \* where the call that holds stopMu stands
    target,         \* the run that call works on
    ret             \* the result of the latest call: its error, or none

supVars == <<status, run, proc, intentional, unexpected, snapshot, waiter,
             cleanupErr, net, pc, target, ret>>

States == {"stopped", "starting", "running", "stopping", "failed"}

ProcStates == {"unborn", "alive", "killed", "dead"}

\* run.done is closed from "closed" on.
WaiterStates == {"none", "waiting", "exited", "recorded", "cleaned", "closed",
                 "handling", "finished"}

CallStates == {"idle", "validate", "preclean", "spawn", "contain", "await",
               "cancel", "term"}

Status == [state : States, pid : Runs \cup {NoRun}]

TypeOK ==
    /\ status \in Status
    /\ run \in Runs \cup {NoRun}
    /\ proc \in [Runs -> ProcStates]
    /\ intentional \in [Runs -> BOOLEAN]
    /\ unexpected \in [Runs -> BOOLEAN]
    /\ snapshot \in [Runs -> Status]
    /\ waiter \in [Runs -> WaiterStates]
    /\ cleanupErr \in [Runs -> {"pending", "nil", "error"}]
    /\ net \in SUBSET Runs
    /\ pc \in CallStates
    /\ target \in Runs \cup {NoRun}
    /\ ret \in {"none", "ok", "error"}

Stopped == [state |-> "stopped", pid |-> NoRun]

Init ==
    /\ status = Stopped
    /\ run = NoRun
    /\ proc = [r \in Runs |-> "unborn"]
    /\ intentional = [r \in Runs |-> FALSE]
    /\ unexpected = [r \in Runs |-> FALSE]
    /\ snapshot = [r \in Runs |-> Stopped]
    /\ waiter = [r \in Runs |-> "none"]
    /\ cleanupErr = [r \in Runs |-> "pending"]
    /\ net = {}
    /\ pc = "idle"
    /\ target = NoRun
    /\ ret = "none"

-----------------------------------------------------------------------------
(* What the steps are made of                                              *)

\* A fault: run.done is closed after the handler has returned.
DoneAfterHandler(r) == waiter[r] = "finished"

\* run.done is closed.
Done(r) == waiter[r] \in {"closed", "handling", "finished"}

\* The call gives stopMu back and returns.
Return(result) ==
    /\ pc' = "idle"
    /\ target' = NoRun
    /\ ret' = result

\* failStart: the state alone changes, a PID stays as it was.
FailStart == status' = [status EXCEPT !.state = "failed"]

\* Process.Kill and the closing of the containment: a process that has ended
\* is left alone, one that runs will end but not at once.
Kill(r) ==
    proc' = [proc EXCEPT ![r] = IF @ = "alive" THEN "killed" ELSE @]

\* cleanupPlatform removes the device and the default routes by their name,
\* whichever run made them; it gives up at its first command that fails.
CleanupPlatform(ok) == IF ok THEN net' = {} ELSE net' \in SUBSET net

-----------------------------------------------------------------------------
(* Activate                                                                *)

\* A fault: the state is not looked at.
ActivateFromAnyState ==
    /\ pc = "idle"
    /\ status' = [state |-> "starting", pid |-> NoRun]
    /\ pc' = "validate"
    /\ ret' = "none"
    /\ UNCHANGED <<run, proc, intentional, unexpected, snapshot, waiter,
                   cleanupErr, net, target>>

ActivateBegin ==
    /\ pc = "idle"
    /\ \/ \* normalizeConfig refuses the configuration
          /\ ret' = "error"
          /\ UNCHANGED <<status, pc>>
       \/ /\ status.state \notin {"stopped", "failed"}
          /\ ret' = "error"
          /\ UNCHANGED <<status, pc>>
       \/ /\ status.state \in {"stopped", "failed"}
          /\ status' = [state |-> "starting", pid |-> NoRun]
          /\ pc' = "validate"
          /\ ret' = "none"
    /\ UNCHANGED <<run, proc, intentional, unexpected, snapshot, waiter,
                   cleanupErr, net, target>>

ValidateConfig ==
    /\ pc = "validate"
    /\ \/ /\ pc' = "preclean"
          /\ UNCHANGED <<status, target, ret>>
       \/ FailStart /\ Return("error")
    /\ UNCHANGED <<run, proc, intentional, unexpected, snapshot, waiter,
                   cleanupErr, net>>

CleanStale ==
    /\ pc = "preclean"
    /\ \/ /\ CleanupPlatform(TRUE)
          /\ pc' = "spawn"
          /\ UNCHANGED <<status, target, ret>>
       \/ /\ CleanupPlatform(FALSE)
          /\ FailStart
          /\ Return("error")
    /\ UNCHANGED <<run, proc, intentional, unexpected, snapshot, waiter,
                   cleanupErr>>

StartProcess ==
    /\ pc = "spawn"
    /\ \/ \* a pipe cannot be opened, or command.Start fails
          /\ FailStart
          /\ Return("error")
          /\ UNCHANGED proc
       \/ \E r \in Runs :
             /\ proc[r] = "unborn"
             /\ proc' = [proc EXCEPT ![r] = "alive"]
             /\ target' = r
             /\ pc' = "contain"
             /\ UNCHANGED <<status, ret>>
    /\ UNCHANGED <<run, intentional, unexpected, snapshot, waiter, cleanupErr,
                   net>>

\* The process becomes a run, with its waitProcess; a process that cannot be
\* contained is killed and reaped here, and never becomes one.
Contain ==
    /\ pc = "contain"
    /\ \/ /\ run' = target
          /\ status' = [status EXCEPT !.pid = target]
          /\ waiter' = [waiter EXCEPT ![target] = "waiting"]
          /\ pc' = "await"
          /\ UNCHANGED <<proc, target, ret>>
       \/ /\ proc' = [proc EXCEPT ![target] = "dead"]
          /\ FailStart
          /\ Return("error")
          /\ UNCHANGED <<run, waiter>>
    /\ UNCHANGED <<intentional, unexpected, snapshot, cleanupErr, net>>

\* A fault: markRunning does not look at what waitProcess has recorded.
AwaitReadyUnchecked ==
    /\ pc = "await"
    /\ status' = [status EXCEPT !.state = "running"]
    /\ Return("ok")
    /\ UNCHANGED <<run, proc, intentional, unexpected, snapshot, waiter,
                   cleanupErr, net>>

\* The timer fires or the device is up: markRunning.
AwaitReady ==
    /\ pc = "await"
    /\ IF run = target /\ status.state = "starting"
          THEN status' = [status EXCEPT !.state = "running"] /\ Return("ok")
          ELSE UNCHANGED status /\ Return("error")
    /\ UNCHANGED <<run, proc, intentional, unexpected, snapshot, waiter,
                   cleanupErr, net>>

\* The process ended before the sidecar was stable.
AwaitDone ==
    /\ pc = "await"
    /\ Done(target)
    /\ Return("error")
    /\ UNCHANGED <<status, run, proc, intentional, unexpected, snapshot,
                   waiter, cleanupErr, net>>

\* The context ends: terminateRun with a context that never does.
AwaitCancel ==
    /\ pc = "await"
    /\ intentional' = [intentional EXCEPT ![target] = TRUE]
    /\ Kill(target)
    /\ pc' = "cancel"
    /\ UNCHANGED <<status, run, unexpected, snapshot, waiter, cleanupErr, net,
                   target, ret>>

CancelDone ==
    /\ pc = "cancel"
    /\ Done(target)
    /\ FailStart
    /\ Return("error")
    /\ UNCHANGED <<run, proc, intentional, unexpected, snapshot, waiter,
                   cleanupErr, net>>

-----------------------------------------------------------------------------
(* Stop                                                                    *)

StopBegin ==
    /\ pc = "idle"
    /\ \/ /\ run = NoRun
          /\ status' = Stopped
          /\ ret' = "ok"
          /\ UNCHANGED <<proc, intentional, pc, target>>
       \/ /\ run # NoRun
          /\ status' = [status EXCEPT !.state = "stopping"]
          /\ intentional' = [intentional EXCEPT ![run] = TRUE]
          /\ Kill(run)
          /\ target' = run
          /\ pc' = "term"
          /\ ret' = "none"
    /\ UNCHANGED <<run, unexpected, snapshot, waiter, cleanupErr, net>>

\* What follows terminateRun in Stop, whatever terminateRun returned.
StopEnd(result) ==
    /\ run' = IF run = target THEN NoRun ELSE run
    /\ status' = Stopped
    /\ Return(result)
    /\ UNCHANGED <<proc, intentional, unexpected, snapshot, waiter,
                   cleanupErr, net>>

\* run.done is closed; cleanupOnce has run by then, so cleanupRun only reads
\* its outcome.
StopDone ==
    /\ pc = "term"
    /\ Done(target)
    /\ StopEnd(IF cleanupErr[target] = "error" THEN "error" ELSE "ok")

\* A fault: the error of a wait cut short is dropped.
StopTimeoutIgnored ==
    /\ pc = "term"
    /\ StopEnd("ok")

\* The deadline passes first.
StopTimeout ==
    /\ pc = "term"
    /\ StopEnd("error")

-----------------------------------------------------------------------------
(* The sidecar process and its waitProcess                                 *)

\* sing-box creates its device and its routes.
TakeOver(r) ==
    /\ proc[r] = "alive"
    /\ r \notin net
    /\ net' = net \cup {r}
    /\ UNCHANGED <<status, run, proc, intentional, unexpected, snapshot,
                   waiter, cleanupErr, pc, target, ret>>

Exit(r) ==
    /\ proc[r] \in {"alive", "killed"}
    /\ proc' = [proc EXCEPT ![r] = "dead"]
    /\ UNCHANGED <<status, run, intentional, unexpected, snapshot, waiter,
                   cleanupErr, net, pc, target, ret>>

\* command.Wait returns and intentional is read, outside s.mu.
WaitReturns(r) ==
    /\ waiter[r] = "waiting"
    /\ proc[r] = "dead"
    /\ unexpected' = [unexpected EXCEPT ![r] = ~intentional[r]]
    /\ waiter' = [waiter EXCEPT ![r] = "exited"]
    /\ UNCHANGED <<status, run, proc, intentional, snapshot, cleanupErr, net,
                   pc, target, ret>>

RecordExit(r) ==
    /\ waiter[r] = "exited"
    /\ status' = IF run = r
                    THEN [state |-> IF unexpected[r] THEN "failed"
                                                     ELSE "stopped",
                          pid |-> NoRun]
                    ELSE status
    /\ snapshot' = [snapshot EXCEPT ![r] = status']
    /\ waiter' = [waiter EXCEPT ![r] = "recorded"]
    /\ UNCHANGED <<run, proc, intentional, unexpected, cleanupErr, net, pc,
                   target, ret>>

\* cleanupRun; a failure is added to the status, which is read again.
CleanupRun(r) ==
    /\ waiter[r] = "recorded"
    /\ \E ok \in BOOLEAN :
          /\ CleanupPlatform(ok)
          /\ cleanupErr' = [cleanupErr EXCEPT ![r] =
                               IF ok THEN "nil" ELSE "error"]
          /\ snapshot' = [snapshot EXCEPT ![r] =
                             IF ~ok /\ run = r /\ unexpected[r]
                                THEN status ELSE @]
    /\ waiter' = [waiter EXCEPT ![r] = "cleaned"]
    /\ UNCHANGED <<status, run, proc, intentional, unexpected, pc, target,
                   ret>>

\* A fault: done is closed while the cleanup may still be at work.
CloseDoneEarly(r) ==
    /\ waiter[r] \in {"recorded", "cleaned"}
    /\ waiter' = [waiter EXCEPT ![r] = "closed"]
    /\ UNCHANGED <<status, run, proc, intentional, unexpected, snapshot,
                   cleanupErr, net, pc, target, ret>>

CloseDone(r) ==
    /\ waiter[r] = "cleaned"
    /\ waiter' = [waiter EXCEPT ![r] = "closed"]
    /\ UNCHANGED <<status, run, proc, intentional, unexpected, snapshot,
                   cleanupErr, net, pc, target, ret>>

\* A fault: the handler is called only if the status still says running.
CallHandlerIfRunning(r) ==
    /\ waiter[r] = "closed"
    /\ waiter' = [waiter EXCEPT ![r] =
                     IF unexpected[r] /\ status.state = "running"
                        THEN "handling" ELSE "finished"]
    /\ UNCHANGED <<status, run, proc, intentional, unexpected, snapshot,
                   cleanupErr, net, pc, target, ret>>

\* The handler is called only for an exit that nobody has asked for by now.
CallHandler(r) ==
    /\ waiter[r] = "closed"
    /\ waiter' = [waiter EXCEPT ![r] = IF unexpected[r] /\ ~intentional[r]
                                          THEN "handling" ELSE "finished"]
    /\ UNCHANGED <<status, run, proc, intentional, unexpected, snapshot,
                   cleanupErr, net, pc, target, ret>>

HandlerReturns(r) ==
    /\ waiter[r] = "handling"
    /\ waiter' = [waiter EXCEPT ![r] = "finished"]
    /\ UNCHANGED <<status, run, proc, intentional, unexpected, snapshot,
                   cleanupErr, net, pc, target, ret>>

-----------------------------------------------------------------------------

\* The steps of the call in progress that depend on the context it was given.
CallDeadline == AwaitCancel \/ StopTimeout

\* Its other steps.
CallStep == \/ ValidateConfig \/ CleanStale \/ StartProcess \/ Contain
            \/ AwaitReady \/ AwaitDone \/ CancelDone \/ StopDone

Sidecar(r) == TakeOver(r) \/ Exit(r)

WaitProcess(r) == \/ WaitReturns(r) \/ RecordExit(r) \/ CleanupRun(r)
                  \/ CloseDone(r) \/ CallHandler(r)

Next == \/ ActivateBegin \/ StopBegin \/ CallStep \/ CallDeadline
        \/ \E r \in Runs : Sidecar(r) \/ WaitProcess(r) \/ HandlerReturns(r)

Spec == Init /\ [][Next]_supVars

-----------------------------------------------------------------------------
(* Properties                                                              *)

\* The comment in waitProcess: who sees run.done closed sees no route and no
\* device of that run, unless its cleanup has reported an error.
DoneMeansClean ==
    \A r \in Runs : Done(r) => /\ cleanupErr[r] # "pending"
                               /\ cleanupErr[r] = "nil" => r \notin net

\* Activate and the late waitProcess of an earlier run share s.run, yet the
\* supervisor never loses a live sidecar that it has not killed: it is s.run,
\* or Activate is about to make it so.
NoOrphan ==
    \A r \in Runs : proc[r] = "alive" =>
        r = run \/ (pc = "contain" /\ r = target)

\* A status of "running" is about s.run, reports its PID, and its waitProcess
\* will still record its exit: markRunning and waitProcess cannot leave a dead
\* sidecar reported as running for ever.
RunningIsWatched ==
    status.state = "running" =>
        /\ run # NoRun
        /\ status.pid = run
        /\ waiter[run] \in {"waiting", "exited"}

\* A Stop that waited for a sidecar and returned no error left nothing of it.
StopOkMeansGone ==
    [][pc = "term" /\ pc' = "idle" /\ ret' = "ok" =>
          /\ proc[target] = "dead"
          /\ Done(target)
          /\ target \notin net]_supVars

=============================================================================
