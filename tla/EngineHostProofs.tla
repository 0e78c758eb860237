-------------------------- MODULE EngineHostProofs --------------------------
(***************************************************************************)
(* The safety properties of TunSupervisor and of EngineHost, for any set   *)
(* of runs.                                                                *)
(*                                                                         *)
(* None of those of the supervisor is inductive.  What they rest on is an  *)
(* agreement between the two threads: while a call is inside Activate and  *)
(* has not replaced s.run, and whenever the status is stopped or failed,   *)
(* the run in s.run has had its exit recorded; so Activate can only drop a *)
(* run that is dead, and markRunning can only find "starting" if the exit  *)
(* of its own run has not been recorded.                                   *)
(*                                                                         *)
(* Every step of the host is a step of the supervisor or leaves it alone,  *)
(* so the host inherits what is shown of the supervisor.  What is added is *)
(* how the handler that holds lifecycleMu bounds what the supervisor can   *)
(* be doing: outside a handler no call is in progress, and the handlers    *)
(* that stop the sidecar go on only when s.run is nil.                     *)
(***************************************************************************)
EXTENDS EngineHost, TLAPS

-----------------------------------------------------------------------------
(* The supervisor                                                          *)

\* waitProcess has recorded the exit.
Recorded(r) ==
    waiter[r] \in {"recorded", "cleaned", "closed", "handling", "finished"}

\* The one cleanup of the run is over.
Cleaned(r) == waiter[r] \in {"cleaned", "closed", "handling", "finished"}

\* Activate, before the new process is in s.run.
Preparing == pc \in {"validate", "preclean", "spawn", "contain"}

\* What the call in progress knows of its target.
CallInv ==
    /\ pc \in {"contain", "await", "cancel", "term"} => target \in Runs
    /\ pc \in {"await", "cancel", "term"} => run = target
    /\ pc \in {"cancel", "term"} => proc[target] # "alive"
    /\ pc = "contain" => /\ proc[target] # "unborn"
                         /\ waiter[target] = "none"
    /\ Preparing => status.state = "starting"
    /\ pc = "await" /\ status.state = "starting" =>
          /\ status.pid = target
          /\ waiter[target] \in {"waiting", "exited"}

\* A waitProcess exists for started processes only, and goes on from its wait
\* when its process is dead.
WaiterInv ==
    \A r \in Runs : /\ proc[r] = "unborn" => waiter[r] = "none"
                    /\ waiter[r] = "exited" => proc[r] = "dead"
                    /\ Recorded(r) => proc[r] = "dead"

\* What is known of s.run.
RunInv ==
    run # NoRun =>
        /\ waiter[run] # "none"
        /\ Preparing => Recorded(run)
        /\ status.state \in {"stopped", "failed"} => Recorded(run)

CleanInv ==
    \A r \in Runs : Cleaned(r) => /\ cleanupErr[r] # "pending"
                                  /\ cleanupErr[r] = "nil" => r \notin net

IInv ==
    /\ TypeOK
    /\ CallInv
    /\ WaiterInv
    /\ RunInv
    /\ CleanInv
    /\ NoOrphan
    /\ RunningIsWatched

-----------------------------------------------------------------------------

USE NoRunAssumption

\* Every step keeps the types.
LEMMA TypeStep == TypeOK /\ [Next]_supVars => TypeOK'
<1> SUFFICES ASSUME TypeOK, [Next]_supVars PROVE TypeOK'
  OBVIOUS
<1> USE DEF TypeOK, Status, States, ProcStates, WaiterStates, CallStates
<1>1. CASE ActivateBegin
  BY <1>1 DEF ActivateBegin
<1>2. CASE StopBegin
  <2>1. CASE run = NoRun
    BY <1>2, <2>1 DEF StopBegin, Stopped
  <2>2. CASE run # NoRun
    <3>1. intentional' = [intentional EXCEPT ![run] = TRUE]
      BY <1>2, <2>2 DEF StopBegin
    <3>2. intentional' \in [Runs -> BOOLEAN]
      BY <3>1
    <3> QED
      BY <1>2, <2>2, <3>2 DEF StopBegin, Kill
  <2> QED
    BY <2>1, <2>2
<1>3. CASE ValidateConfig
  BY <1>3 DEF ValidateConfig, FailStart, Return
<1>4. CASE CleanStale
  BY <1>4 DEF CleanStale, FailStart, Return, CleanupPlatform
<1>5. CASE StartProcess
  BY <1>5 DEF StartProcess, FailStart, Return
<1>6. CASE Contain
  BY <1>6 DEF Contain, FailStart, Return
<1>7. CASE AwaitReady
  BY <1>7 DEF AwaitReady, Return
<1>8. CASE AwaitDone
  BY <1>8 DEF AwaitDone, Return, Done
<1>9. CASE AwaitCancel
  BY <1>9 DEF AwaitCancel, Kill
<1>10. CASE CancelDone
  BY <1>10 DEF CancelDone, FailStart, Return, Done
<1>11. CASE StopDone
  BY <1>11 DEF StopDone, StopEnd, Return, Stopped, Done
<1>12. CASE StopTimeout
  BY <1>12 DEF StopTimeout, StopEnd, Return, Stopped
<1>13. ASSUME NEW r \in Runs, TakeOver(r) PROVE TypeOK'
  BY <1>13 DEF TakeOver
<1>14. ASSUME NEW r \in Runs, Exit(r) PROVE TypeOK'
  BY <1>14 DEF Exit
<1>15. ASSUME NEW r \in Runs, WaitReturns(r) PROVE TypeOK'
  BY <1>15 DEF WaitReturns
<1>16. ASSUME NEW r \in Runs, RecordExit(r) PROVE TypeOK'
  BY <1>16 DEF RecordExit
<1>17. ASSUME NEW r \in Runs, CleanupRun(r) PROVE TypeOK'
  BY <1>17 DEF CleanupRun, CleanupPlatform
<1>18. ASSUME NEW r \in Runs, CloseDone(r) PROVE TypeOK'
  BY <1>18 DEF CloseDone
<1>19. ASSUME NEW r \in Runs, CallHandler(r) PROVE TypeOK'
  BY <1>19 DEF CallHandler
<1>20. ASSUME NEW r \in Runs, HandlerReturns(r) PROVE TypeOK'
  BY <1>20 DEF HandlerReturns
<1>21. CASE UNCHANGED supVars
  BY <1>21 DEF supVars
<1> QED
  BY <1>1, <1>2, <1>3, <1>4, <1>5, <1>6, <1>7, <1>8, <1>9, <1>10, <1>11, <1>12, <1>13, <1>14, <1>15, <1>16, <1>17, <1>18, <1>19, <1>20, <1>21 DEF Next, CallStep, CallDeadline, Sidecar, WaitProcess

\* The agreement between the threads is kept by every step.
LEMMA InvStep == IInv /\ [Next]_supVars => IInv'
<1> SUFFICES ASSUME IInv, [Next]_supVars PROVE IInv'
  OBVIOUS
<1>1. TypeOK /\ TypeOK'
  BY TypeStep DEF IInv
<1> USE <1>1
<1> USE DEF TypeOK, Status, IInv, CallInv, WaiterInv, RunInv, CleanInv, NoOrphan,
            RunningIsWatched, Preparing, Recorded, Cleaned
<1>2. CASE ActivateBegin
  BY <1>2 DEF ActivateBegin
<1>3. CASE StopBegin
  BY <1>3 DEF StopBegin, Stopped, Kill
<1>4. CASE ValidateConfig
  BY <1>4 DEF ValidateConfig, FailStart, Return
<1>5. CASE CleanStale
  BY <1>5 DEF CleanStale, FailStart, Return, CleanupPlatform
<1>6. CASE StartProcess
  BY <1>6 DEF StartProcess, FailStart, Return
<1>7. CASE Contain
  BY <1>7 DEF Contain, FailStart, Return
<1>8. CASE AwaitReady
  BY <1>8 DEF AwaitReady, Return
<1>9. CASE AwaitDone
  BY <1>9 DEF AwaitDone, Return, Done
<1>10. CASE AwaitCancel
  BY <1>10 DEF AwaitCancel, Kill
<1>11. CASE CancelDone
  BY <1>11 DEF CancelDone, FailStart, Return, Done
<1>12. CASE StopDone
  BY <1>12 DEF StopDone, StopEnd, Return, Stopped, Done
<1>13. CASE StopTimeout
  BY <1>13 DEF StopTimeout, StopEnd, Return, Stopped
<1>14. ASSUME NEW r \in Runs, TakeOver(r) PROVE IInv'
  BY <1>14 DEF TakeOver
<1>15. ASSUME NEW r \in Runs, Exit(r) PROVE IInv'
  BY <1>15 DEF Exit
<1>16. ASSUME NEW r \in Runs, WaitReturns(r) PROVE IInv'
  BY <1>16 DEF WaitReturns
<1>17. ASSUME NEW r \in Runs, RecordExit(r) PROVE IInv'
  BY <1>17 DEF RecordExit
<1>18. ASSUME NEW r \in Runs, CleanupRun(r) PROVE IInv'
  BY <1>18 DEF CleanupRun, CleanupPlatform
<1>19. ASSUME NEW r \in Runs, CloseDone(r) PROVE IInv'
  BY <1>19 DEF CloseDone
<1>20. ASSUME NEW r \in Runs, CallHandler(r) PROVE IInv'
  BY <1>20 DEF CallHandler
<1>21. ASSUME NEW r \in Runs, HandlerReturns(r) PROVE IInv'
  BY <1>21 DEF HandlerReturns
<1>22. CASE UNCHANGED supVars
  BY <1>22 DEF supVars
<1> QED
  BY <1>2, <1>3, <1>4, <1>5, <1>6, <1>7, <1>8, <1>9, <1>10, <1>11, <1>12, <1>13, <1>14, <1>15, <1>16, <1>17, <1>18, <1>19, <1>20, <1>21, <1>22 DEF Next, CallStep, CallDeadline, Sidecar, WaitProcess

\* The supervisor always satisfies the agreement.
THEOREM Invariance == Spec => []IInv
<1>1. Init => IInv
  BY DEF Init, IInv, TypeOK, Status, States, ProcStates, WaiterStates,
         CallStates, Stopped, CallInv, WaiterInv, RunInv, CleanInv, NoOrphan,
         RunningIsWatched, Preparing, Recorded, Cleaned
<1> QED
  BY <1>1, InvStep, PTL DEF Spec

\* Type correctness of the supervisor.
THEOREM TypeCorrect == Spec => []TypeOK
<1>1. IInv => TypeOK
  BY DEF IInv
<1> QED
  BY <1>1, Invariance, PTL

\* The supervisor never loses a live sidecar it has not killed, whichever way
\* Activate, Stop and the waitProcess of earlier runs interleave.
THEOREM NoOrphanAlways == Spec => []NoOrphan
<1>1. IInv => NoOrphan
  BY DEF IInv
<1> QED
  BY <1>1, Invariance, PTL

\* Whoever sees run.done closed sees the network cleanup of the run over.
THEOREM DoneMeansCleanAlways == Spec => []DoneMeansClean
<1>1. IInv => DoneMeansClean
  BY DEF IInv, CleanInv, DoneMeansClean, Done, Cleaned
<1> QED
  BY <1>1, Invariance, PTL

\* A sidecar reported as running is s.run and still has its waitProcess.
THEOREM RunningIsWatchedAlways == Spec => []RunningIsWatched
<1>1. IInv => RunningIsWatched
  BY DEF IInv
<1> QED
  BY <1>1, Invariance, PTL

\* A Stop that returns no error has left neither process nor route.
THEOREM StopOkMeansGoneAlways == Spec => StopOkMeansGone
<1>1. IInv /\ [Next]_supVars =>
        [pc = "term" /\ pc' = "idle" /\ ret' = "ok" =>
            /\ proc[target] = "dead"
            /\ Done(target)
            /\ target \notin net]_supVars
  <2> SUFFICES ASSUME IInv, Next, pc = "term", pc' = "idle", ret' = "ok"
               PROVE  /\ proc[target] = "dead"
                      /\ Done(target)
                      /\ target \notin net
    BY DEF supVars
  <2>1. target \in Runs
    BY DEF IInv, CallInv
  <2>2. Done(target) /\ cleanupErr[target] # "error"
    BY DEF Next, CallStep, CallDeadline, Sidecar, WaitProcess, ActivateBegin,
           StopBegin, ValidateConfig, CleanStale, StartProcess, Contain,
           AwaitReady, AwaitDone, AwaitCancel, CancelDone, StopDone,
           StopTimeout, StopEnd, Return, TakeOver, Exit, WaitReturns,
           RecordExit, CleanupRun, CloseDone, CallHandler, HandlerReturns
  <2>3. proc[target] = "dead"
    BY <2>1, <2>2 DEF IInv, WaiterInv, Recorded, Done
  <2>4. cleanupErr[target] = "nil"
    BY <2>1, <2>2 DEF IInv, TypeOK, CleanInv, Cleaned, Done
  <2>5. target \notin net
    BY <2>1, <2>2, <2>4 DEF IInv, CleanInv, Cleaned, Done
  <2> QED
    BY <2>2, <2>3, <2>5
<1> QED
  BY <1>1, Invariance, PTL DEF Spec, StopOkMeansGone

-----------------------------------------------------------------------------
(* The host                                                                *)

\* The handlers that wait for tun.Stop.
StopHosts == {"stopping", "clearing", "rollback", "deactivating", "leaving"}

\* The handler in progress and the call in progress.
LockInv ==
    /\ host \notin StopHosts \cup {"activating"} => pc = "idle"
    /\ host \in StopHosts => pc \in {"idle", "term"}
    /\ host \in StopHosts /\ pc = "idle" => run = NoRun
    /\ host = "activating" => pc # "term"
    /\ host = "left" => run = NoRun

\* The handler in progress and the state of the engine.
EngineInv ==
    /\ host \in Unlocked \cup {"deactivating", "leaving"} =>
          engine \in {"stopped", "running", "failed"}
    /\ host = "starting" => engine = "starting"
    /\ host \in {"stopping", "left"} => engine = "stopping"
    /\ host = "clearing" => engine = "failed"
    /\ host \in {"activating", "rollback"} => engine = "running"

SidecarInv == engine = "stopped" => \A r \in Runs : proc[r] # "alive"

PoolInv == engine = "running" => pool = "up" /\ mode # "none"

\* A state that no event has carried yet has somebody who will emit it.
AnnounceInv ==
    /\ holding \subseteq emitting
    /\ \/ announced
       \/ holding # {}
       \/ dirty /\ host # "ready"
       \/ host \in {"leaving", "left", "exited"}

HInv ==
    /\ HostTypeOK
    /\ LockInv
    /\ EngineInv
    /\ SidecarInv
    /\ PoolInv
    /\ AnnounceInv

-----------------------------------------------------------------------------

\* A step of the host is a step of the supervisor, or leaves it alone.
LEMMA HostStepIsSupervisorStep == [HostNext]_vars => [Next]_supVars
  BY DEF HostNext, HostStep, SupervisorStep, SupervisorDeadline, Next, vars,
     ReadRequest, Leave, Cancel, Reply, LeaveStopped, LeaveDone, StartProxy,
     StartProxyEnd, StopProxy, ClearFailed, StopProxyEnd, ActivateTun,
     ActivateTunEnd, RollbackEnd, DeactivateTun, DeactivateTunEnd,
     HandleExit, EmitExit

\* The host implements the supervisor: composed with lifecycleMu and the
\* callback, it keeps every promise of TunSupervisor.
THEOREM HostImplementsSupervisor == HostSpec => Spec
<1>1. HostInit => Init
  BY DEF HostInit
<1> QED
  BY <1>1, HostStepIsSupervisorStep, PTL DEF HostSpec, Spec

\* A transition, legal or refused, keeps the types.
LEMMA TransitionType ==
    ASSUME HostTypeOK, NEW next \in EngineStates, Transition(next)
    PROVE  /\ engine' \in EngineStates
           /\ dirty' \in BOOLEAN
           /\ announced' \in BOOLEAN
           /\ emitting' \in SUBSET Runs
           /\ holding' \in SUBSET Runs
<1>1. engine' \in EngineStates
  BY DEF HostTypeOK, Transition, Transitioned
<1>2. dirty' \in BOOLEAN /\ announced' \in BOOLEAN
  BY DEF HostTypeOK, Transition
<1>3. emitting' \in SUBSET Runs /\ holding' \in SUBSET Runs
  BY DEF HostTypeOK, Transition
<1> QED
  BY <1>1, <1>2, <1>3

\* Every step keeps the types.
LEMMA HostTypeStep == HostTypeOK /\ [HostNext]_vars => HostTypeOK'
<1> SUFFICES ASSUME HostTypeOK, [HostNext]_vars PROVE HostTypeOK'
  OBVIOUS
<1>0. TypeOK'
  BY TypeStep, HostStepIsSupervisorStep DEF HostTypeOK
<1> USE <1>0 DEF HostTypeOK, EngineStates, HostStates, Unlocked, Requests,
                 Transitioned
<1>1. CASE ReadRequest
  BY <1>1 DEF ReadRequest
<1>2. CASE Leave
  BY <1>2 DEF Leave
<1>3. CASE Cancel
  BY <1>3 DEF Cancel
<1>4. CASE Reply
  BY <1>4 DEF Reply
<1>5. CASE LeaveStopped
  BY <1>5, TransitionType DEF LeaveStopped, CallEnded, DropPool, NoTransition, Goto
<1>6. CASE LeaveDone
  BY <1>6, TransitionType DEF LeaveDone, Goto
<1>7. CASE StartProxy
  BY <1>7, TransitionType DEF StartProxy, NoTransition, Goto
<1>8. CASE StartProxyEnd
  BY <1>8, TransitionType DEF StartProxyEnd, Goto
<1>9. CASE StopProxy
  BY <1>9, TransitionType DEF StopProxy, NoTransition, Goto
<1>10. CASE ClearFailed
  BY <1>10, TransitionType DEF ClearFailed, CallEnded, DropPool, Goto
<1>11. CASE StopProxyEnd
  BY <1>11, TransitionType DEF StopProxyEnd, CallEnded, DropPool, StopPool, Goto
<1>12. CASE ActivateTun
  <2>1. exemption' \in BOOLEAN
    BY <1>12 DEF ActivateTun
  <2>2. host' \in HostStates /\ UNCHANGED <<request, ctxDone>>
    BY <1>12 DEF ActivateTun, Goto
  <2> QED
    BY <1>12, <2>1, <2>2 DEF ActivateTun, NoTransition
<1>13. CASE ActivateTunEnd
  BY <1>13 DEF ActivateTunEnd, CallEnded, NoTransition, Goto
<1>14. CASE RollbackEnd
  BY <1>14, TransitionType DEF RollbackEnd, CallEnded, DropPool, Goto
<1>15. CASE DeactivateTun
  BY <1>15 DEF DeactivateTun, NoTransition, Goto
<1>16. CASE DeactivateTunEnd
  <2>1. host' \in HostStates /\ UNCHANGED <<request, ctxDone>>
    BY <1>16 DEF DeactivateTunEnd, Goto
  <2>2. exemption' \in BOOLEAN
    BY <1>16 DEF DeactivateTunEnd
  <2>3. UNCHANGED <<engine, pool, mode, dirty, announced, emitting, holding>>
    BY <1>16 DEF DeactivateTunEnd, NoTransition
  <2> QED
    BY <2>1, <2>2, <2>3
<1>17. ASSUME NEW r \in Runs, HandleExit(r) PROVE HostTypeOK'
  BY <1>17 DEF HandleExit, DropPool
<1>18. ASSUME NEW r \in Runs, EmitExit(r) PROVE HostTypeOK'
  BY <1>18 DEF EmitExit, DropPool
<1>19. CASE UNCHANGED hostVars
  BY <1>19 DEF hostVars
<1> QED
  BY <1>1, <1>2, <1>3, <1>4, <1>5, <1>6, <1>7, <1>8, <1>9, <1>10, <1>11,
     <1>12, <1>13, <1>14, <1>15, <1>16, <1>17, <1>18, <1>19 DEF HostNext,
     HostStep, vars

\* A step of the supervisor alone keeps the invariant: it neither begins a call
\* nor returns from tun.Stop with s.run set.
LEMMA SupervisorStepInv ==
    ASSUME IInv, HInv, SupervisorStep, UNCHANGED hostVars
    PROVE  LockInv' /\ EngineInv' /\ SidecarInv' /\ PoolInv' /\ AnnounceInv'
<1>1. EngineInv' /\ PoolInv' /\ AnnounceInv'
  BY DEF HInv, EngineInv, PoolInv, AnnounceInv, hostVars
<1> USE DEF HInv, LockInv, EngineInv, SidecarInv, StopHosts, IInv, TypeOK,
            CallInv, hostVars
<1>2. ASSUME ValidateConfig PROVE LockInv' /\ SidecarInv'
  BY <1>2 DEF ValidateConfig, FailStart, Return
<1>3. ASSUME CleanStale PROVE LockInv' /\ SidecarInv'
  BY <1>3 DEF CleanStale, FailStart, Return, CleanupPlatform
<1>4. ASSUME StartProcess PROVE LockInv' /\ SidecarInv'
  BY <1>4 DEF StartProcess, FailStart, Return
<1>5. ASSUME Contain PROVE LockInv' /\ SidecarInv'
  BY <1>5 DEF Contain, FailStart, Return
<1>6. ASSUME AwaitReady PROVE LockInv' /\ SidecarInv'
  BY <1>6 DEF AwaitReady, Return
<1>7. ASSUME AwaitDone PROVE LockInv' /\ SidecarInv'
  BY <1>7 DEF AwaitDone, Return, Done
<1>8. ASSUME CancelDone PROVE LockInv' /\ SidecarInv'
  BY <1>8 DEF CancelDone, FailStart, Return, Done
<1>9. ASSUME StopDone PROVE LockInv' /\ SidecarInv'
  BY <1>9 DEF StopDone, StopEnd, Return, Stopped, Done
<1>10. ASSUME AwaitCancel PROVE LockInv' /\ SidecarInv'
  BY <1>10 DEF AwaitCancel, Kill
<1>11. ASSUME StopTimeout PROVE LockInv' /\ SidecarInv'
  BY <1>11 DEF StopTimeout, StopEnd, Return, Stopped
<1>12. ASSUME NEW r \in Runs, TakeOver(r) PROVE LockInv' /\ SidecarInv'
  BY <1>12 DEF TakeOver
<1>13. ASSUME NEW r \in Runs, Exit(r) PROVE LockInv' /\ SidecarInv'
  BY <1>13 DEF Exit
<1>14. ASSUME NEW r \in Runs, WaitReturns(r) PROVE LockInv' /\ SidecarInv'
  BY <1>14 DEF WaitReturns
<1>15. ASSUME NEW r \in Runs, RecordExit(r) PROVE LockInv' /\ SidecarInv'
  BY <1>15 DEF RecordExit
<1>16. ASSUME NEW r \in Runs, CleanupRun(r) PROVE LockInv' /\ SidecarInv'
  BY <1>16 DEF CleanupRun, CleanupPlatform
<1>17. ASSUME NEW r \in Runs, CloseDone(r) PROVE LockInv' /\ SidecarInv'
  BY <1>17 DEF CloseDone
<1>18. ASSUME NEW r \in Runs, CallHandler(r) PROVE LockInv' /\ SidecarInv'
  BY <1>18 DEF CallHandler
<1> QED
  BY <1>1, <1>2, <1>3, <1>4, <1>5, <1>6, <1>7, <1>8, <1>9, <1>10, <1>11,
     <1>12, <1>13, <1>14, <1>15, <1>16, <1>17, <1>18 DEF SupervisorStep,
     SupervisorDeadline, CallStep, CallDeadline, Sidecar, WaitProcess

\* The invariant of the host is kept by every step.
LEMMA HostInvStep == IInv /\ HInv /\ [HostNext]_vars => HInv'
<1> SUFFICES ASSUME IInv, HInv, [HostNext]_vars PROVE HInv'
  OBVIOUS
<1>0. HostTypeOK'
  BY HostTypeStep DEF HInv
<1>1. CASE SupervisorStep /\ UNCHANGED hostVars
  BY <1>0, <1>1, SupervisorStepInv DEF HInv
<1> USE <1>0 DEF HInv, HostTypeOK, LockInv, EngineInv, SidecarInv, PoolInv,
                 AnnounceInv, StopHosts, Unlocked, Transitioned, CanTransition,
                 Successors, TypeOK
<1>2. CASE ReadRequest
  BY <1>2 DEF ReadRequest, supVars
<1>3. CASE Leave
  BY <1>3 DEF Leave, StopBegin, Stopped, Kill, supVars
<1>4. CASE Cancel
  BY <1>4 DEF Cancel, supVars
<1>5. CASE Reply
  BY <1>5 DEF Reply, StopBegin, Stopped, Kill, supVars
<1>6. CASE LeaveStopped
  BY <1>6 DEF LeaveStopped, CallEnded, DropPool, Transition, NoTransition,
     Goto, supVars, IInv, NoOrphan
<1>7. CASE LeaveDone
  BY <1>7 DEF LeaveDone, Transition, Goto, supVars, IInv, NoOrphan
<1>8. CASE StartProxy
  BY <1>8 DEF StartProxy, Transition, NoTransition, Goto, supVars
<1>9. CASE StartProxyEnd
  BY <1>9 DEF StartProxyEnd, Transition, Goto, supVars
<1>10. CASE StopProxy
  BY <1>10 DEF StopProxy, Transition, NoTransition, Goto, StopBegin, Stopped,
     Kill, supVars
<1>11. CASE ClearFailed
  BY <1>11 DEF ClearFailed, CallEnded, DropPool, Transition, Goto, supVars,
     IInv, NoOrphan
<1>12. CASE StopProxyEnd
  BY <1>12 DEF StopProxyEnd, CallEnded, DropPool, StopPool, Transition, Goto,
     supVars, IInv, NoOrphan
<1>13. CASE ActivateTun
  BY <1>13 DEF ActivateTun, NoTransition, Goto, ActivateBegin, supVars
<1>14. CASE ActivateTunEnd
  BY <1>14 DEF ActivateTunEnd, CallEnded, NoTransition, Goto, StopBegin,
     Stopped, Kill, supVars
<1>15. CASE RollbackEnd
  BY <1>15 DEF RollbackEnd, CallEnded, DropPool, Transition, Goto, supVars
<1>16. CASE DeactivateTun
  BY <1>16 DEF DeactivateTun, NoTransition, Goto, StopBegin, Stopped, Kill,
     supVars
<1>17. CASE DeactivateTunEnd
  BY <1>17 DEF DeactivateTunEnd, CallEnded, NoTransition, Goto, supVars
<1>18. ASSUME NEW r \in Runs, EmitExit(r) PROVE HInv'
  <2>1. r \in holding => announced'
    BY <1>18 DEF EmitExit
  <2>2. r \notin holding => holding' = holding
    BY <1>18 DEF EmitExit
  <2>3. AnnounceInv'
    BY <1>18, <2>1, <2>2 DEF EmitExit
  <2> QED
    BY <1>18, <2>3 DEF EmitExit, HandlerReturns
<1>19. ASSUME NEW r \in Runs, HandleExit(r) PROVE HInv'
  BY <1>19 DEF HandleExit, DropPool, HandlerReturns, supVars
<1>20. CASE UNCHANGED vars
  BY <1>20 DEF vars, supVars, hostVars
<1> QED
  BY <1>1, <1>2, <1>3, <1>4, <1>5, <1>6, <1>7, <1>8, <1>9, <1>10, <1>11,
     <1>12, <1>13, <1>14, <1>15, <1>16, <1>17, <1>18, <1>19, <1>20 DEF
     HostNext, HostStep

\* The host always satisfies its invariant.
THEOREM HostInvariance == HostSpec => []HInv
<1>1. HostInit => HInv
  <2> SUFFICES ASSUME HostInit PROVE HInv
    OBVIOUS
  <2>1. HostTypeOK
    BY DEF HostInit, Init, HostTypeOK, TypeOK, Status, States, ProcStates,
           WaiterStates, CallStates, Stopped, EngineStates, HostStates,
           Unlocked, Requests
  <2>2. SidecarInv
    BY DEF HostInit, Init, SidecarInv
  <2> QED
    BY <2>1, <2>2 DEF HostInit, Init, HInv, Unlocked, LockInv, EngineInv,
                      PoolInv, AnnounceInv, StopHosts
<1>2. HostSpec => []IInv
  BY HostImplementsSupervisor, Invariance, PTL
<1> QED
  BY <1>1, <1>2, HostInvStep, PTL DEF HostSpec

\* Type correctness of the host.
THEOREM HostTypeCorrect == HostSpec => []HostTypeOK
<1>1. HInv => HostTypeOK
  BY DEF HInv
<1> QED
  BY <1>1, HostInvariance, PTL

\* Whatever Transition errors are dropped, the engine is never left in a state
\* from which no request moves it.
THEOREM NeverWedgedAlways == HostSpec => []NeverWedged
<1>1. HInv => NeverWedged
  BY DEF HInv, EngineInv, NeverWedged
<1> QED
  BY <1>1, HostInvariance, PTL

\* A stopped engine has no live sidecar, after any sequence of failures,
\* timeouts and late callbacks.
THEOREM StoppedHasNoSidecarAlways == HostSpec => []StoppedHasNoSidecar
<1>1. HInv => StoppedHasNoSidecar
  BY DEF HInv, SidecarInv, StoppedHasNoSidecar
<1> QED
  BY <1>1, HostInvariance, PTL

\* A running engine has its listeners.
THEOREM RunningHasPoolAlways == HostSpec => []RunningHasPool
<1>1. HInv => RunningHasPool
  BY DEF HInv, PoolInv, RunningHasPool
<1> QED
  BY <1>1, HostInvariance, PTL

\* No change of the engine's state goes without an event.
THEOREM ChangesAnnouncedAlways == HostSpec => []ChangesAnnounced
<1>1. HInv => ChangesAnnounced
  BY DEF HInv, AnnounceInv, ChangesAnnounced
<1> QED
  BY <1>1, HostInvariance, PTL


-----------------------------------------------------------------------------
(* The host implements EngineSession                                       *)

\* The sidecar of EngineSession.
SidecarAlive == \E r \in Runs : proc[r] = "alive"

\* tun.Stop takes a sidecar down and never brings one up.
LEMMA StopBeginKills ==
    ASSUME TypeOK, StopBegin
    PROVE  SidecarAlive' => SidecarAlive
  BY DEF TypeOK, StopBegin, Kill, SidecarAlive

\* The steps of EngineSession that leave the engine alone.
LEMMA QuietSessionStep ==
    ASSUME engine' = engine,
           SidecarAlive' => SidecarAlive \/ engine = "running"
    PROVE  [Session!SessionNext]_(Session!session)
<1>1. CASE SidecarAlive' <=> SidecarAlive
  BY <1>1 DEF Session!session, SidecarAlive
<1>2. CASE SidecarAlive /\ ~SidecarAlive'
  BY <1>2 DEF Session!SessionNext, Session!SidecarEnded, SidecarAlive
<1>3. CASE SidecarAlive' /\ ~SidecarAlive
  BY <1>3 DEF Session!SessionNext, Session!Activated, SidecarAlive
<1> QED
  BY <1>1, <1>2, <1>3

\* The steps of EngineSession that leave the sidecar alone.
LEMMA EngineSessionStep ==
    ASSUME UNCHANGED proc,
           \/ engine \in {"stopped", "failed"} /\ engine' = "starting"
           \/ engine = "starting" /\ engine' \in {"running", "failed"}
           \/ engine = "running" /\ engine' \in {"stopping", "failed"}
           \/ /\ engine = "stopping" /\ engine' \in {"stopped", "failed"}
              /\ ~SidecarAlive
           \/ /\ engine = "failed" /\ engine' = "stopped"
              /\ ~SidecarAlive
    PROVE  Session!SessionNext
  BY DEF Session!SessionNext, SidecarAlive, Session!Moves,
     Session!StartAccepted, Session!StartEnded, Session!StopAccepted,
     Session!StopEnded, Session!Cleared, Session!EngineFailed

\* When s.run is nil and no call is in progress, no sidecar lives.
LEMMA NoRunNoSidecar ==
    ASSUME NoOrphan, TypeOK, run = NoRun, pc = "idle"
    PROVE  ~SidecarAlive
  BY DEF NoOrphan, TypeOK, SidecarAlive

\* A step of the supervisor alone: only StartProcess brings a sidecar up, and it
\* runs inside tun.activate.
LEMMA SupervisorSessionStep ==
    ASSUME IInv, HInv, SupervisorStep, UNCHANGED hostVars
    PROVE  [Session!SessionNext]_(Session!session)
<1>1. engine' = engine
  BY DEF hostVars
<1>2. ASSUME StartProcess PROVE engine = "running"
  BY <1>2 DEF StartProcess, HInv, LockInv, EngineInv, StopHosts
<1>3. \/ SidecarAlive' => SidecarAlive
      \/ StartProcess
  <2> USE DEF SidecarAlive, IInv, TypeOK
  <2>1. ASSUME CallStep, ~StartProcess PROVE SidecarAlive' => SidecarAlive
    BY <2>1 DEF CallStep, ValidateConfig, CleanStale, Contain, AwaitReady,
       AwaitDone, CancelDone, StopDone, StopEnd
  <2>2. ASSUME CallDeadline PROVE SidecarAlive' => SidecarAlive
    BY <2>2 DEF CallDeadline, AwaitCancel, StopTimeout, StopEnd, Kill
  <2>3. ASSUME NEW r \in Runs, Sidecar(r) PROVE SidecarAlive' => SidecarAlive
    BY <2>3 DEF Sidecar, TakeOver, Exit
  <2>4. ASSUME NEW r \in Runs, WaitProcess(r)
        PROVE  SidecarAlive' => SidecarAlive
    BY <2>4 DEF WaitProcess, WaitReturns, RecordExit, CleanupRun, CloseDone,
       CallHandler
  <2> QED
    BY <2>1, <2>2, <2>3, <2>4 DEF SupervisorStep, SupervisorDeadline
<1> QED
  BY <1>1, <1>2, <1>3, QuietSessionStep

\* Every step of the host is a step of EngineSession, or one that its client
\* does not see.
LEMMA HostSessionStep ==
    ASSUME IInv, HInv, [HostNext]_vars
    PROVE  [Session!SessionNext]_(Session!session)
<1>1. CASE SupervisorStep /\ UNCHANGED hostVars
  BY <1>1, SupervisorSessionStep
<1> USE DEF HInv, LockInv, EngineInv, IInv, StopHosts, Unlocked
<1>2. CASE \/ ReadRequest \/ Cancel \/ ActivateTun \/ DeactivateTunEnd
           \/ UNCHANGED vars
  <2>1. engine' = engine /\ proc' = proc
    BY <1>2 DEF ReadRequest, Cancel, ActivateTun, ActivateBegin,
       DeactivateTunEnd, NoTransition, supVars, vars, hostVars
  <2> QED
    BY <2>1, QuietSessionStep DEF SidecarAlive
<1>3. CASE Leave \/ Reply \/ ActivateTunEnd \/ DeactivateTun
  <2>1. engine' = engine /\ (StopBegin \/ UNCHANGED supVars)
    BY <1>3 DEF Leave, Reply, ActivateTunEnd, DeactivateTun, NoTransition
  <2>2. SidecarAlive' => SidecarAlive
    BY <2>1, StopBeginKills DEF supVars, SidecarAlive
  <2> QED
    BY <2>1, <2>2, QuietSessionStep
<1>4. CASE LeaveStopped
  <2>1. proc' = proc
    BY <1>4 DEF LeaveStopped, supVars
  <2>2. \/ engine' = engine
        \/ engine = "running" /\ engine' = "stopping"
    BY <1>4 DEF LeaveStopped, Transition, NoTransition, Transitioned,
       CanTransition, Successors
  <2> QED
    BY <2>1, <2>2, QuietSessionStep, EngineSessionStep DEF SidecarAlive
<1>5. CASE LeaveDone
  <2>1. proc' = proc /\ engine = "stopping" /\ engine' = "stopped"
    BY <1>5 DEF LeaveDone, Transition, Transitioned, CanTransition,
       Successors, supVars
  <2>2. ~SidecarAlive
    BY <1>5, NoRunNoSidecar DEF LeaveDone
  <2> QED
    BY <2>1, <2>2, EngineSessionStep
<1>6. CASE StartProxy
  <2>1. proc' = proc
    BY <1>6 DEF StartProxy, supVars
  <2>2. \/ engine' = engine
        \/ engine \in {"stopped", "failed"} /\ engine' = "starting"
    BY <1>6 DEF StartProxy, Transition, NoTransition, Transitioned,
       CanTransition, Successors
  <2> QED
    BY <2>1, <2>2, QuietSessionStep, EngineSessionStep DEF SidecarAlive
<1>7. CASE StartProxyEnd
  <2>1. /\ proc' = proc
        /\ engine = "starting"
        /\ engine' \in {"running", "failed"}
    BY <1>7 DEF StartProxyEnd, Transition, Transitioned, CanTransition,
       Successors, supVars
  <2> QED
    BY <2>1, EngineSessionStep
<1>8. CASE StopProxy
  <2>1. CASE engine' = engine
    <3>1. SidecarAlive' => SidecarAlive
      BY <1>8, StopBeginKills DEF StopProxy, supVars, SidecarAlive
    <3> QED
      BY <2>1, <3>1, QuietSessionStep
  <2>2. CASE engine' # engine
    <3>1. engine = "running" /\ engine' = "stopping" /\ StopBegin
      BY <1>8, <2>2 DEF StopProxy, Transition, NoTransition, Transitioned,
         CanTransition, Successors
    <3>2. SidecarAlive' => SidecarAlive
      BY <3>1, StopBeginKills
    <3> QED
      BY <3>1, <3>2 DEF Session!SessionNext, Session!StopAccepted,
         Session!Moves, SidecarAlive
  <2> QED
    BY <2>1, <2>2
<1>9. CASE ClearFailed
  <2>1. proc' = proc /\ engine = "failed" /\ engine' = "stopped"
    BY <1>9 DEF ClearFailed, Transition, Transitioned, CanTransition,
       Successors, supVars
  <2>2. ~SidecarAlive
    BY <1>9, NoRunNoSidecar DEF ClearFailed, CallEnded
  <2> QED
    BY <2>1, <2>2, EngineSessionStep
<1>10. CASE StopProxyEnd
  <2>1. /\ proc' = proc
        /\ engine = "stopping"
        /\ engine' \in {"stopped", "failed"}
    BY <1>10 DEF StopProxyEnd, Transition, Transitioned, CanTransition,
       Successors, supVars
  <2>2. ~SidecarAlive
    BY <1>10, NoRunNoSidecar DEF StopProxyEnd, CallEnded
  <2> QED
    BY <2>1, <2>2, EngineSessionStep
<1>11. CASE RollbackEnd
  <2>1. proc' = proc /\ engine = "running" /\ engine' = "failed"
    BY <1>11 DEF RollbackEnd, Transition, Transitioned, CanTransition,
       Successors, supVars
  <2> QED
    BY <2>1, EngineSessionStep
<1>12. ASSUME NEW r \in Runs, HandleExit(r) \/ EmitExit(r)
       PROVE  [Session!SessionNext]_(Session!session)
  <2>1. proc' = proc
    BY <1>12 DEF HandleExit, EmitExit, HandlerReturns, supVars
  <2>2. engine' = engine \/ (engine = "running" /\ engine' = "failed")
    BY <1>12 DEF HandleExit, EmitExit, Transitioned, CanTransition, Successors
  <2> QED
    BY <2>1, <2>2, QuietSessionStep, EngineSessionStep DEF SidecarAlive
<1> QED
  BY <1>1, <1>2, <1>3, <1>4, <1>5, <1>6, <1>7, <1>8, <1>9, <1>10, <1>11,
     <1>12 DEF HostNext, HostStep

\* The host, the supervisor and the exit callback together implement
\* EngineSession, which is all that the desktop's service relies on.
THEOREM HostImplementsSession == HostSpec => ImplementsSession
<1>1. HostInit => Session!SessionInit
  BY DEF HostInit, Init, Session!SessionInit
<1>2. HostSpec => []IInv
  BY HostImplementsSupervisor, Invariance, PTL
<1> QED
  BY <1>1, <1>2, HostInvariance, HostSessionStep, PTL
     DEF HostSpec, ImplementsSession, Session!SessionSpec

-----------------------------------------------------------------------------
(* A client that waits for its last session to be over                     *)

\* The run has left nothing behind that still moves.
Quiet(r) == /\ proc[r] \in {"unborn", "dead"}
            /\ waiter[r] \in {"none", "finished"}

\* At most one run is not quiet, and none while a start or an activation is on
\* its way to its first process.
OneSidecarInv ==
    /\ \A r, s \in Runs : ~Quiet(r) /\ ~Quiet(s) => r = s
    /\ host = "pending" /\ request \in {"engine.start", "tun.activate"} =>
          Settled
    /\ host = "starting" => Settled
    /\ pc \in {"validate", "preclean", "spawn"} => Settled
    /\ pc = "contain" => \A r \in Runs : r = target \/ Quiet(r)

LiveHasPool == pool # "up" => \A r \in Runs : proc[r] # "alive"

\* A pool listens only in an engine that runs or is being stopped, and while a
\* run is not quiet it is the pool that the run was activated for.
SettledPoolInv ==
    /\ engine \in {"stopped", "failed", "starting"} => pool # "up"
    /\ host = "left" => pool # "up"
    /\ engine = "running" /\ (~Settled \/ host = "activating") =>
          mode = "tun_tcp_pool"
    /\ LiveHasPool

SettledInv == OneSidecarInv /\ SettledPoolInv

\* A step of the supervisor alone keeps the run that is not quiet the only one.
LEMMA SupervisorOneSidecar ==
    ASSUME IInv, HInv, SettledInv, SupervisorStep, UNCHANGED hostVars
    PROVE  SettledInv'
<1> USE DEF HInv, LockInv, EngineInv, PoolInv, StopHosts, IInv, TypeOK, CallInv,
            WaiterInv, NoOrphan, Recorded, SettledInv, OneSidecarInv,
            SettledPoolInv, LiveHasPool, Settled, Quiet, hostVars
<1>1. ASSUME ValidateConfig PROVE SettledInv'
  BY <1>1 DEF ValidateConfig, Return
<1>2. ASSUME CleanStale PROVE SettledInv'
  BY <1>2 DEF CleanStale, Return
<1>3. ASSUME StartProcess PROVE SettledInv'
  BY <1>3 DEF StartProcess, Return
<1>4. ASSUME Contain PROVE SettledInv'
  BY <1>4 DEF Contain, Return
<1>5. ASSUME AwaitReady PROVE SettledInv'
  BY <1>5 DEF AwaitReady, Return
<1>6. ASSUME AwaitDone PROVE SettledInv'
  BY <1>6 DEF AwaitDone, Return
<1>7. ASSUME CancelDone PROVE SettledInv'
  BY <1>7 DEF CancelDone, Return
<1>8. ASSUME StopDone PROVE SettledInv'
  BY <1>8 DEF StopDone, StopEnd, Return
<1>9. ASSUME AwaitCancel PROVE SettledInv'
  BY <1>9 DEF AwaitCancel, Kill
<1>10. ASSUME StopTimeout PROVE SettledInv'
  BY <1>10 DEF StopTimeout, StopEnd, Return
<1>11. ASSUME NEW r \in Runs, TakeOver(r) PROVE SettledInv'
  BY <1>11 DEF TakeOver
<1>12. ASSUME NEW r \in Runs, Exit(r) PROVE SettledInv'
  BY <1>12 DEF Exit
<1>13. ASSUME NEW r \in Runs, WaitReturns(r) PROVE SettledInv'
  BY <1>13 DEF WaitReturns
<1>14. ASSUME NEW r \in Runs, RecordExit(r) PROVE SettledInv'
  BY <1>14 DEF RecordExit
<1>15. ASSUME NEW r \in Runs, CleanupRun(r) PROVE SettledInv'
  BY <1>15 DEF CleanupRun
<1>16. ASSUME NEW r \in Runs, CloseDone(r) PROVE SettledInv'
  BY <1>16 DEF CloseDone
<1>17. ASSUME NEW r \in Runs, CallHandler(r) PROVE SettledInv'
  BY <1>17 DEF CallHandler
<1> QED
  BY <1>1, <1>2, <1>3, <1>4, <1>5, <1>6, <1>7, <1>8, <1>9, <1>10, <1>11,
     <1>12, <1>13, <1>14, <1>15, <1>16, <1>17 DEF SupervisorStep,
     SupervisorDeadline, CallStep, CallDeadline, Sidecar, WaitProcess

\* Every step of such a client's host keeps the invariant.
LEMMA SettledStep ==
    IInv /\ HInv /\ SettledInv /\ [SettledNext]_vars => SettledInv'
<1> SUFFICES ASSUME IInv, HInv, SettledInv, [SettledNext]_vars
             PROVE  SettledInv'
  OBVIOUS
<1>1. CASE SupervisorStep /\ UNCHANGED hostVars
  BY <1>1, SupervisorOneSidecar
<1> USE DEF HInv, HostTypeOK, LockInv, EngineInv, PoolInv, StopHosts, Unlocked,
            IInv, TypeOK, CallInv, WaiterInv, NoOrphan, Recorded, SettledInv,
            OneSidecarInv, SettledPoolInv, LiveHasPool, Settled, Quiet,
            Transitioned, CanTransition, Successors
<1>2. CASE ReadRequest
  <2>1. SettledNext
    BY <1>2 DEF ReadRequest, vars, hostVars
  <2>2. request' \in {"engine.start", "tun.activate"} => Settled
    BY <1>2, <2>1 DEF SettledNext
  <2> QED
    BY <1>2, <2>2 DEF ReadRequest, supVars
<1>3. CASE Leave
  BY <1>3 DEF Leave, StopBegin, Kill
<1>4. CASE Cancel
  BY <1>4 DEF Cancel, supVars
<1>5. CASE Reply
  BY <1>5 DEF Reply, StopBegin, Kill, supVars
<1>6. CASE LeaveStopped
  BY <1>6 DEF LeaveStopped, CallEnded, DropPool, Transition, NoTransition,
     Goto, supVars
<1>7. CASE LeaveDone
  BY <1>7 DEF LeaveDone, Transition, Goto, supVars
<1>8. CASE StartProxy
  BY <1>8 DEF StartProxy, Transition, NoTransition, Goto, supVars
<1>9. CASE StartProxyEnd
  BY <1>9 DEF StartProxyEnd, Transition, Goto, supVars
<1>10. CASE StopProxy
  BY <1>10 DEF StopProxy, Transition, NoTransition, Goto, StopBegin, Kill,
     supVars
<1>11. CASE ClearFailed
  BY <1>11 DEF ClearFailed, CallEnded, DropPool, Transition, Goto, supVars
<1>12. CASE StopProxyEnd
  BY <1>12 DEF StopProxyEnd, CallEnded, DropPool, StopPool, Transition,
     Goto, supVars
<1>13. CASE ActivateTun
  BY <1>13 DEF ActivateTun, NoTransition, Goto, ActivateBegin, supVars
<1>14. CASE ActivateTunEnd
  BY <1>14 DEF ActivateTunEnd, NoTransition, Goto, StopBegin, Kill,
     supVars
<1>15. CASE RollbackEnd
  BY <1>15 DEF RollbackEnd, CallEnded, DropPool, Transition, Goto, supVars
<1>16. CASE DeactivateTun
  BY <1>16 DEF DeactivateTun, NoTransition, Goto, StopBegin, Kill
<1>17. CASE DeactivateTunEnd
  BY <1>17 DEF DeactivateTunEnd, NoTransition, Goto, supVars
<1>18. ASSUME NEW r \in Runs, HandleExit(r) PROVE SettledInv'
  BY <1>18 DEF HandleExit, DropPool, supVars
<1>19. ASSUME NEW r \in Runs, EmitExit(r) PROVE SettledInv'
  BY <1>19 DEF EmitExit, HandlerReturns
<1>20. CASE UNCHANGED vars
  BY <1>20 DEF vars, supVars, hostVars
<1> QED
  BY <1>1, <1>2, <1>3, <1>4, <1>5, <1>6, <1>7, <1>8, <1>9, <1>10, <1>11,
     <1>12, <1>13, <1>14, <1>15, <1>16, <1>17, <1>18, <1>19, <1>20
     DEF SettledNext, HostNext, HostStep

-----------------------------------------------------------------------------
(* Routes without a pool                                                   *)

\* A run that was not waited for was told to stop.
LostInv ==
    /\ pc \in {"cancel", "term"} => intentional[target]
    /\ \A r \in Runs :
          waiter[r] \in {"waiting", "exited", "recorded", "cleaned"} /\ run # r
              => intentional[r]

RoutesExcused ==
    pool # "up" => \A r \in net : \/ cleanupErr[r] = "error"
                                 \/ waiter[r] = "none"
                                 \/ GivenUp(r)

RouteInv == LostInv /\ RoutesExcused

\* A run that s.run does not hold any more was cleaned up, or was told to stop.
LEMMA LostStep ==
    ASSUME IInv, HInv, SettledInv, LostInv, [HostNext]_vars
    PROVE  LostInv'
<1> USE DEF IInv, TypeOK, CallInv, LostInv
<1>1. CASE UNCHANGED supVars
  BY <1>1 DEF supVars
<1>2. CASE ActivateBegin
  BY <1>2 DEF ActivateBegin
<1>3. CASE StopBegin
  BY <1>3 DEF StopBegin
<1>4. CASE ValidateConfig \/ CleanStale \/ StartProcess
  BY <1>4 DEF ValidateConfig, CleanStale, StartProcess, Return
<1>5. CASE Contain
  BY <1>5 DEF Contain, Return, SettledInv, OneSidecarInv, Quiet
<1>6. CASE AwaitReady \/ AwaitDone \/ CancelDone
  BY <1>6 DEF AwaitReady, AwaitDone, CancelDone, Return
<1>7. CASE AwaitCancel
  BY <1>7 DEF AwaitCancel
<1>8. CASE StopDone \/ StopTimeout
  BY <1>8 DEF StopDone, StopTimeout, StopEnd, Return
<1>9. ASSUME NEW r \in Runs, Sidecar(r) PROVE LostInv'
  BY <1>9 DEF Sidecar, TakeOver, Exit
<1>10. ASSUME NEW r \in Runs, WaitProcess(r) \/ HandlerReturns(r) PROVE LostInv'
  BY <1>10 DEF WaitProcess, WaitReturns, RecordExit, CleanupRun, CloseDone,
     CallHandler, HandlerReturns
<1> QED
  BY <1>1, <1>2, <1>3, <1>4, <1>5, <1>6, <1>7, <1>8, <1>9, <1>10,
     HostStepIsSupervisorStep DEF Next, CallStep, CallDeadline

\* While there is no pool no sidecar takes routes, and those left are excused
\* until they are gone.
LEMMA ExcusedStays ==
    ASSUME IInv, IInv', HInv, SettledInv, RouteInv, [HostNext]_vars,
           pool # "up", pool' # "up"
    PROVE  RoutesExcused'
<1> USE DEF IInv, TypeOK, RouteInv, RoutesExcused, GivenUp, Done
<1>1. CASE UNCHANGED supVars
  BY <1>1 DEF supVars
<1>2. CASE ActivateBegin
  BY <1>2 DEF ActivateBegin
<1>3. CASE StopBegin
  BY <1>3 DEF StopBegin
<1>4. CASE ValidateConfig \/ CleanStale \/ StartProcess
  BY <1>4 DEF ValidateConfig, CleanStale, StartProcess, CleanupPlatform
<1>5. ~Contain
  BY DEF Contain, HInv, LockInv, EngineInv, PoolInv, StopHosts
<1>6. CASE AwaitReady \/ AwaitDone \/ CancelDone
  BY <1>6 DEF AwaitReady, AwaitDone, CancelDone
<1>7. CASE AwaitCancel
  BY <1>7 DEF AwaitCancel
<1>8. CASE StopDone \/ StopTimeout
  BY <1>8 DEF StopDone, StopTimeout, StopEnd
<1>9. ASSUME NEW r \in Runs, Sidecar(r) PROVE RoutesExcused'
  BY <1>9 DEF Sidecar, TakeOver, Exit, SettledInv, SettledPoolInv, LiveHasPool
<1>10. ASSUME NEW r \in Runs, WaitReturns(r) \/ RecordExit(r)
       PROVE  RoutesExcused'
  BY <1>10 DEF WaitReturns, RecordExit
<1>11. ASSUME NEW r \in Runs, CleanupRun(r) PROVE RoutesExcused'
  BY <1>11 DEF CleanupRun, CleanupPlatform
<1>12. ASSUME NEW r \in Runs, CloseDone(r) PROVE RoutesExcused'
  BY <1>12 DEF CloseDone, CleanInv, Cleaned
<1>13. ASSUME NEW r \in Runs, CallHandler(r) \/ HandlerReturns(r)
       PROVE  RoutesExcused'
  BY <1>13 DEF CallHandler, HandlerReturns
<1> QED
  BY <1>1, <1>2, <1>3, <1>4, <1>5, <1>6, <1>7, <1>8, <1>9, <1>10, <1>11, <1>12,
     <1>13, HostStepIsSupervisorStep
  DEF Next, CallStep, CallDeadline, WaitProcess

\* The pool goes when a Stop has ended, which has waited for its run or given up,
\* or when the callback of the only run that moves has been called.
LEMMA PoolGoes ==
    ASSUME IInv, HInv, SettledInv, RouteInv, [HostNext]_vars,
           pool = "up", pool' # "up"
    PROVE  RoutesExcused'
<1> USE DEF IInv, TypeOK, WaiterStates
<1>1. \A r \in net : Done(r) => cleanupErr[r] = "error"
  BY DEF Done, CleanInv, Cleaned
<1>2. CASE LeaveStopped \/ ClearFailed \/ StopProxyEnd \/ RollbackEnd
  <2>1. run = NoRun /\ UNCHANGED supVars
    BY <1>2 DEF LeaveStopped, ClearFailed, StopProxyEnd, RollbackEnd, CallEnded,
       HInv, LockInv, StopHosts
  <2>2. \A r \in net : Done(r) \/ waiter[r] = "none" \/ GivenUp(r)
    BY <2>1 DEF RouteInv, LostInv, GivenUp, Done
  <2> QED
    BY <1>1, <2>1, <2>2 DEF RoutesExcused, GivenUp, Done, supVars
<1>3. ASSUME NEW r \in Runs, HandleExit(r) PROVE RoutesExcused'
  <2>1. UNCHANGED supVars /\ \A s \in Runs : Done(s) \/ waiter[s] = "none"
    BY <1>3 DEF HandleExit, SettledInv, OneSidecarInv, Quiet, Done
  <2> QED
    BY <1>1, <2>1 DEF RoutesExcused, supVars
<1>4. \/ LeaveStopped \/ ClearFailed \/ StopProxyEnd \/ RollbackEnd
      \/ \E r \in Runs : HandleExit(r)
  BY DEF HostNext, HostStep, ReadRequest, Leave, Cancel, Reply, LeaveDone,
     StartProxy, StartProxyEnd, StopProxy, ActivateTun, ActivateTunEnd,
     DeactivateTun, DeactivateTunEnd, EmitExit, vars, hostVars
<1> QED
  BY <1>2, <1>3, <1>4

\* Every step leaves routes without a pool only where they are excused.
LEMMA RouteStep ==
    IInv /\ IInv' /\ HInv /\ SettledInv /\ SettledInv' /\ RouteInv
        /\ [SettledNext]_vars => RouteInv'
<1> SUFFICES ASSUME IInv, IInv', HInv, SettledInv, SettledInv', RouteInv,
                    [SettledNext]_vars
             PROVE  RouteInv'
  OBVIOUS
<1>1. [HostNext]_vars /\ LostInv'
  BY LostStep DEF SettledNext, RouteInv
<1>2. CASE pool # "up" /\ pool' # "up"
  BY <1>1, <1>2, ExcusedStays DEF RouteInv
<1>3. CASE pool = "up" /\ pool' # "up"
  BY <1>1, <1>3, PoolGoes DEF RouteInv
<1> QED
  BY <1>1, <1>2, <1>3 DEF RouteInv, RoutesExcused

\* A client that waits keeps the host within HostSpec and the invariant.
THEOREM SettledInvariance == SettledSpec => [](HInv /\ SettledInv /\ RouteInv)
<1>1. SettledSpec => HostSpec
  <2>1. [SettledNext]_vars => [HostNext]_vars
    BY DEF SettledNext
  <2> QED
    BY <2>1, PTL DEF SettledSpec, HostSpec
<1>2. SettledSpec => []IInv /\ []HInv
  BY <1>1, HostImplementsSupervisor, Invariance, HostInvariance, PTL
<1>3. HostInit => SettledInv
  BY DEF HostInit, Init, SettledInv, OneSidecarInv, SettledPoolInv,
         LiveHasPool, Settled, Quiet
<1>4. HostInit => RouteInv
  BY DEF HostInit, Init, RouteInv, LostInv, RoutesExcused
<1> QED
  BY <1>2, <1>3, <1>4, SettledStep, RouteStep, PTL DEF SettledSpec

\* For a client that waits for its last session to be over no sidecar is alive
\* without its pool, and routes are left without one only by a cleanup that failed,
\* a process that was never contained or a Stop that gave up.
THEOREM SidecarHasPoolSettled == SettledSpec => []SidecarHasPool
<1>1. SettledInv /\ RouteInv => SidecarHasPool
  BY DEF SettledInv, SettledPoolInv, LiveHasPool, RouteInv, RoutesExcused,
         SidecarHasPool
<1> QED
  BY <1>1, SettledInvariance, PTL

\* Nor does "a running pool left behind after TUN shutdown".
THEOREM NoPoolLeftBehindSettled == SettledSpec => []NoPoolLeftBehind
<1>1. SettledInv => NoPoolLeftBehind
  BY DEF SettledInv, SettledPoolInv, NoPoolLeftBehind
<1> QED
  BY <1>1, SettledInvariance, PTL

=============================================================================
