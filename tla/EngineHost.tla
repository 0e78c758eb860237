----------------------------- MODULE EngineHost -----------------------------
(***************************************************************************)
(* The protocol host (engine/internal/server) composed with the lifecycle  *)
(* of EngineRuntime and the sidecar supervisor of TunSupervisor.           *)
(*                                                                         *)
(* Run handles one request at a time.  A handler holds lifecycleMu from    *)
(* its first step to its last; the supervisor reports an unexpected exit   *)
(* from the goroutine of the run that ended, and that callback takes       *)
(* lifecycleMu too.  What a holder of lifecycleMu does between two calls   *)
(* into the supervisor is one step.                                        *)
(*                                                                         *)
(* Requests that change nothing (hello, status, telemetry, DNS and the     *)
(* diagnostics) are left out.                                              *)
(***************************************************************************)
EXTENDS TunSupervisor, EngineRuntime

VARIABLES
    engine,         \* the state kept by runtime.Runtime
    pool,           \* s.proxy: nil, listening, or stopped but still held
    mode,           \* s.mode
    exemption,      \* s.dnsExemption is open
    host,           \* where Run stands
    request,        \* the request it is handling
    ctxDone,        \* the context of Run has been cancelled
    dirty,          \* Sequence differs from stateBefore.Sequence
    announced,      \* an event has carried the present Sequence
    emitting,       \* callbacks that hold a state and have yet to emit it
    holding         \* those of them whose state is still the present one

hostVars == <<engine, pool, mode, exemption, host, request, ctxDone, dirty,
              announced, emitting, holding>>

vars == <<supVars, hostVars>>

Requests == {"engine.start", "engine.stop", "tun.activate", "tun.deactivate",
             "host.shutdown"}

\* Between "reply" and "pending" lifecycleMu is free.
Unlocked == {"ready", "pending", "reply", "exited"}

HostStates == Unlocked \cup {"starting", "stopping", "clearing", "activating",
                             "rollback", "deactivating", "leaving", "left"}

HostTypeOK ==
    /\ TypeOK
    /\ engine \in EngineStates
    /\ pool \in {"none", "up", "stopped"}
    /\ mode \in {"none", "proxy", "tun_tcp_pool"}
    /\ exemption \in BOOLEAN
    /\ host \in HostStates
    /\ request \in Requests \cup {"none"}
    /\ ctxDone \in BOOLEAN
    /\ dirty \in BOOLEAN
    /\ announced \in BOOLEAN
    /\ emitting \in SUBSET Runs
    /\ holding \in SUBSET Runs

HostInit ==
    /\ Init
    /\ engine = "stopped"
    /\ pool = "none"
    /\ mode = "none"
    /\ exemption = FALSE
    /\ host = "ready"
    /\ request = "none"
    /\ ctxDone = FALSE
    /\ dirty = FALSE
    /\ announced = TRUE
    /\ emitting = {}
    /\ holding = {}

-----------------------------------------------------------------------------

\* runtime.Transition, whose error every caller drops.
Transition(next) ==
    /\ engine' = Transitioned(engine, next)
    /\ IF engine' = engine
          THEN UNCHANGED <<dirty, announced, holding>>
          ELSE dirty' = TRUE /\ announced' = FALSE /\ holding' = {}
    /\ UNCHANGED emitting

NoTransition == UNCHANGED <<engine, dirty, announced, emitting, holding>>

\* proxy.Stop: the listeners are closed even when it reports an error.
StopPool == pool' = IF pool = "up" THEN "stopped" ELSE pool

\* The pool is stopped if there is one, and forgotten.
DropPool == pool' = "none" /\ mode' = "none"

\* An idle supervisor has returned from the call of this handler.
CallEnded == pc = "idle"

Goto(h) == host' = h /\ UNCHANGED <<request, ctxDone>>

-----------------------------------------------------------------------------
(* The loop of Run                                                         *)

\* A line arrives; stateBefore is read.
ReadRequest ==
    /\ host = "ready"
    /\ ~ctxDone
    /\ request' \in Requests
    /\ host' = "pending"
    /\ dirty' = FALSE
    /\ UNCHANGED <<supVars, engine, pool, mode, exemption, ctxDone, announced,
                   emitting, holding>>

\* The response is written, then the state if it has changed.
Reply ==
    /\ host = "reply"
    /\ announced' = (announced \/ dirty)
    /\ host' = IF request = "host.shutdown" THEN "leaving" ELSE "ready"
    /\ request' = "none"
    /\ IF host' = "leaving" THEN StopBegin ELSE UNCHANGED supVars
    /\ UNCHANGED <<engine, pool, mode, exemption, ctxDone, dirty, emitting,
                   holding>>

\* The input ends, the context is done, or a write fails: Run returns, and
\* stopProxyForHostExit begins with tun.Stop.
Leave ==
    /\ host \in {"ready", "reply"}
    /\ host' = "leaving"
    /\ request' = "none"
    /\ StopBegin
    /\ UNCHANGED <<engine, pool, mode, exemption, ctxDone, dirty, announced,
                   emitting, holding>>

LeaveStopped ==
    /\ host = "leaving"
    /\ CallEnded
    /\ exemption' = FALSE
    /\ DropPool
    /\ IF engine \in {"running", "degraded"}
          THEN Transition("stopping") /\ Goto("left")
          ELSE NoTransition /\ Goto("exited")
    /\ UNCHANGED supVars

LeaveDone ==
    /\ host = "left"
    /\ Transition("stopped")
    /\ Goto("exited")
    /\ UNCHANGED <<supVars, pool, mode, exemption>>

\* A signal reaches the service.
Cancel ==
    /\ ~ctxDone
    /\ ctxDone' = TRUE
    /\ UNCHANGED <<supVars, engine, pool, mode, exemption, host, request,
                   dirty, announced, emitting, holding>>

-----------------------------------------------------------------------------
(* engine.start                                                            *)

StartProxy ==
    /\ host = "pending"
    /\ request = "engine.start"
    /\ \/ \* not allowed from this state, or the parameters are refused
          NoTransition /\ Goto("reply")
       \/ /\ engine \in {"stopped", "failed"}
          /\ Transition("starting")
          /\ Goto("starting")
    /\ UNCHANGED <<supVars, pool, mode, exemption>>

\* proxy.New and proxy.Start.
StartProxyEnd ==
    /\ host = "starting"
    /\ \/ /\ pool' = "up"
          /\ mode' \in {"proxy", "tun_tcp_pool"}
          /\ Transition("running")
       \/ /\ Transition("failed")
          /\ UNCHANGED <<pool, mode>>
    /\ Goto("reply")
    /\ UNCHANGED <<supVars, exemption>>

-----------------------------------------------------------------------------
(* engine.stop, and the same inside host.shutdown                          *)

\* A fault: the pool is stopped without the sidecar.
StopProxySkipsTun ==
    /\ host = "pending"
    /\ request \in {"engine.stop", "host.shutdown"}
    /\ \/ engine \in {"running", "degraded"} /\ Transition("stopping")
       \/ engine = "failed" /\ NoTransition
    /\ Goto(IF engine = "failed" THEN "clearing" ELSE "stopping")
    /\ UNCHANGED <<supVars, pool, mode, exemption>>

StopProxy ==
    /\ host = "pending"
    /\ request \in {"engine.stop", "host.shutdown"}
    /\ \/ /\ engine \in {"stopped", "starting", "stopping"}
          /\ NoTransition
          /\ Goto("reply")
          /\ UNCHANGED supVars
       \/ /\ engine = "failed"
          /\ NoTransition
          /\ StopBegin
          /\ Goto("clearing")
       \/ /\ engine \in {"running", "degraded"}
          /\ Transition("stopping")
          /\ StopBegin
          /\ Goto("stopping")
    /\ UNCHANGED <<pool, mode, exemption>>

\* From failed: whatever went wrong, the engine is stopped.
ClearFailed ==
    /\ host = "clearing"
    /\ CallEnded
    /\ exemption' = FALSE
    /\ DropPool
    /\ Transition("stopped")
    /\ Goto("reply")
    /\ UNCHANGED supVars

\* From running: an error of the supervisor, of the exemption or of the pool
\* leaves the engine failed, and the stopped pool in place.
StopProxyEnd ==
    /\ host = "stopping"
    /\ CallEnded
    /\ exemption' = FALSE
    /\ \/ /\ ret = "ok"
          /\ DropPool
          /\ Transition("stopped")
       \/ /\ StopPool
          /\ Transition("failed")
          /\ UNCHANGED mode
    /\ Goto("reply")
    /\ UNCHANGED supVars

-----------------------------------------------------------------------------
(* tun.activate and tun.deactivate                                         *)

\* A fault: the state of the engine is not looked at.
ActivateTunInAnyState ==
    /\ host = "pending"
    /\ request = "tun.activate"
    /\ \/ UNCHANGED <<supVars, exemption>> /\ Goto("reply")
       \/ /\ pool # "none"
          /\ exemption' \in {exemption, TRUE}
          /\ ActivateBegin
          /\ Goto("activating")
    /\ NoTransition
    /\ UNCHANGED <<pool, mode>>

\* The strict route opens the exemption first, and replaces the one held.
ActivateTun ==
    /\ host = "pending"
    /\ request = "tun.activate"
    /\ LET allowed == engine = "running" /\ pool # "none"
                                         /\ mode = "tun_tcp_pool"
       IN \/ \* not allowed, refused parameters, or no exemption to be had
             /\ UNCHANGED <<supVars, exemption>>
             /\ Goto("reply")
          \/ \* the exemption held could not be closed
             /\ allowed
             /\ exemption
             /\ exemption' = FALSE
             /\ UNCHANGED supVars
             /\ Goto("reply")
          \/ /\ allowed
             /\ exemption' \in {exemption, TRUE}
             /\ ActivateBegin
             /\ Goto("activating")
    /\ NoTransition
    /\ UNCHANGED <<pool, mode>>

\* Activate has returned; after an error everything is taken down.
ActivateTunEnd ==
    /\ host = "activating"
    /\ CallEnded
    /\ \/ ret = "ok" /\ Goto("reply") /\ UNCHANGED supVars
       \/ ret = "error" /\ Goto("rollback") /\ StopBegin
    /\ NoTransition
    /\ UNCHANGED <<pool, mode, exemption>>

\* A fault: a failed activation leaves the prepared pool.
RollbackKeepsPool ==
    /\ host = "rollback"
    /\ CallEnded
    /\ exemption' = FALSE
    /\ Transition("failed")
    /\ Goto("reply")
    /\ UNCHANGED <<supVars, pool, mode>>

RollbackEnd ==
    /\ host = "rollback"
    /\ CallEnded
    /\ exemption' = FALSE
    /\ DropPool
    /\ Transition("failed")
    /\ Goto("reply")
    /\ UNCHANGED supVars

DeactivateTun ==
    /\ host = "pending"
    /\ request = "tun.deactivate"
    /\ StopBegin
    /\ Goto("deactivating")
    /\ NoTransition
    /\ UNCHANGED <<pool, mode, exemption>>

DeactivateTunEnd ==
    /\ host = "deactivating"
    /\ CallEnded
    /\ exemption' = FALSE
    /\ Goto("reply")
    /\ NoTransition
    /\ UNCHANGED <<supVars, pool, mode>>

-----------------------------------------------------------------------------
(* handleTunUnexpectedExit, on the goroutine of the run that ended         *)

\* A fault: the state to emit is read before it is changed.
HandleExitReadsEarly(r) ==
    /\ waiter[r] = "handling"
    /\ r \notin emitting
    /\ host \in Unlocked
    /\ exemption' = FALSE
    /\ IF mode = "tun_tcp_pool" /\ pool # "none"
          THEN DropPool
          ELSE UNCHANGED <<pool, mode>>
    /\ IF engine = "running"
          THEN /\ engine' = "failed"
               /\ dirty' = TRUE
               /\ announced' = FALSE
               /\ holding' = {}
          ELSE /\ holding' = holding \cup {r}
               /\ UNCHANGED <<engine, dirty, announced>>
    /\ emitting' = emitting \cup {r}
    /\ UNCHANGED <<supVars, host, request, ctxDone>>

HandleExit(r) ==
    /\ waiter[r] = "handling"
    /\ r \notin emitting
    /\ host \in Unlocked
    /\ exemption' = FALSE
    /\ IF mode = "tun_tcp_pool" /\ pool # "none"
          THEN DropPool
          ELSE UNCHANGED <<pool, mode>>
    /\ LET next == IF engine \in {"running", "degraded"}
                      THEN Transitioned(engine, "failed") ELSE engine
       IN /\ engine' = next
          /\ dirty' = (dirty \/ next # engine)
          /\ announced' = (announced /\ next = engine)
          /\ holding' = {r} \cup (IF next = engine THEN holding ELSE {})
    /\ emitting' = emitting \cup {r}
    /\ UNCHANGED <<supVars, host, request, ctxDone>>

\* The state read under lifecycleMu is written after its release.
EmitExit(r) ==
    /\ r \in emitting
    /\ emitting' = emitting \ {r}
    /\ holding' = holding \ {r}
    /\ announced' = (announced \/ r \in holding)
    /\ HandlerReturns(r)
    /\ UNCHANGED <<engine, pool, mode, exemption, host, request, ctxDone,
                   dirty>>

-----------------------------------------------------------------------------

\* Activate runs under the context of Run, and so does the Stop of
\* tun.deactivate; every other Stop has twenty seconds.
SupervisorDeadline ==
    /\ host \in {"activating", "deactivating"} => ctxDone
    /\ CallDeadline

SupervisorStep ==
    \/ CallStep
    \/ SupervisorDeadline
    \/ \E r \in Runs : Sidecar(r) \/ WaitProcess(r)

HostStep ==
    \/ Reply \/ LeaveStopped \/ LeaveDone \/ StartProxy \/ StartProxyEnd
    \/ StopProxy \/ ClearFailed \/ StopProxyEnd \/ ActivateTun
    \/ ActivateTunEnd \/ RollbackEnd \/ DeactivateTun \/ DeactivateTunEnd

HostNext ==
    \/ ReadRequest \/ Leave \/ Cancel
    \/ HostStep
    \/ \E r \in Runs : HandleExit(r) \/ EmitExit(r)
    \/ SupervisorStep /\ UNCHANGED hostVars

HostSpec == HostInit /\ [][HostNext]_vars

\* Run goes on while it can, a process that was killed ends, and goroutines
\* that can go on do: the callback gets lifecycleMu, which is a fair mutex,
\* although requests keep coming.
HostFairness ==
    /\ WF_vars(HostStep)
    /\ WF_vars(CallStep /\ UNCHANGED hostVars)
    /\ \A r \in Runs :
          /\ WF_vars(proc[r] = "killed" /\ Exit(r) /\ UNCHANGED hostVars)
          /\ WF_vars(WaitProcess(r) /\ UNCHANGED hostVars)
          /\ SF_vars(HandleExit(r))
          /\ WF_vars(EmitExit(r))

FairHostSpec == HostSpec /\ HostFairness

\* No sidecar runs, and no exit is still being dealt with.
Settled ==
    \A r \in Runs : /\ proc[r] \in {"unborn", "dead"}
                    /\ waiter[r] \in {"none", "finished"}

\* A client that starts or activates only when its last session is over.
SettledNext ==
    /\ HostNext
    /\ ReadRequest => \/ request' \notin {"engine.start", "tun.activate"}
                      \/ Settled

SettledSpec == HostInit /\ [][SettledNext]_vars

-----------------------------------------------------------------------------
(* Properties                                                              *)

\* No handler drops an error of Transition that matters: when lifecycleMu is
\* free the engine is never left in a state that neither engine.start nor
\* engine.stop accepts.
NeverWedged == host \in Unlocked => engine \in {"stopped", "running", "failed"}

\* A stopped engine has no sidecar, whatever has failed, timed out or come
\* late before; the processes left were killed.
StoppedHasNoSidecar ==
    host \in Unlocked /\ engine = "stopped" =>
        \A r \in Runs : proc[r] # "alive"

\* A running engine has its listeners and its mode.
RunningHasPool ==
    host \in Unlocked /\ engine = "running" => pool = "up" /\ mode # "none"

\* Whenever Run waits for a line and no callback has a state left to emit,
\* some event has carried the present Sequence: no change of the engine is
\* lost between stateBefore, stateAfter and the callback.
ChangesAnnounced == host = "ready" /\ emitting = {} => announced

\* Every request is answered: lifecycleMu, stopMu and run.done never wait for
\* one another, and no deadline is needed to get out.
RequestAnswered ==
    (host \notin {"ready", "exited"}) ~> (host \in {"ready", "exited"})

\* The architecture notes: an unexpected exit "moves the engine to failed",
\* unless a request to stop the sidecar deals with it first.
ExitStopsEngine ==
    \A r \in Runs : (waiter[r] = "recorded" /\ unexpected[r]) ~>
                       (engine # "running" \/ intentional[r])

\* A Stop has given up on the run, and forgotten it before its end.
GivenUp(r) == intentional[r] /\ run # r /\ ~Done(r)

\* While a sidecar lives, the pool it sends to listens.  Once it is dead its
\* routes outlive the pool in three cases only: its cleanup has reported an
\* error, it was reaped before it became a run, or a Stop has given up on it.
\* In these there is, for all that the notes say of the order of a stop, "an
\* active default route without an egress pool".
SidecarHasPool ==
    pool # "up" =>
        /\ \A r \in Runs : proc[r] # "alive"
        /\ \A r \in net : \/ cleanupErr[r] = "error"
                          \/ waiter[r] = "none"
                          \/ GivenUp(r)

\* "a running pool left behind after TUN shutdown" does not happen.
NoPoolLeftBehind ==
    host \in Unlocked /\ engine \in {"stopped", "failed"} => pool # "up"

\* What a client may rely on: the host, its supervisor and the exit callback
\* together implement EngineSession.  A sidecar comes up only in a running
\* engine, and the engine is stopped only when it is gone.
Session == INSTANCE EngineSession
           WITH tun <- \E r \in Runs : proc[r] = "alive"

ImplementsSession == Session!SessionSpec

=============================================================================
