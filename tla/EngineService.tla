--------------------------- MODULE EngineService ---------------------------
(***************************************************************************)
(* The engine service of the desktop (desktop/internal/services/engine.go) *)
(* over the promises of the host (EngineSession) and of the system proxy   *)
(* (SystemProxy, of which this module sees the outcome of a whole call).   *)
(*                                                                         *)
(* Three callers meet at the lifecycle gate: the user, whose last call is  *)
(* the exit of the program, the event loop with its compatibility restarts *)
(* and the watchdog.                                                       *)
(* The holder of the gate runs Start, Stop or RepairWFP step by step; a    *)
(* step is one critical section of s.mu, one request to the core or one    *)
(* call that may fail.  A request whose context has ended reports an error *)
(* and may have been sent or not.                                          *)
(*                                                                         *)
(* Telemetry, logs and the contents of settings are left out, and so are   *)
(* the processes behind the core: one that dies takes its session along.   *)
(***************************************************************************)
EXTENDS EngineSession, Naturals, FiniteSets

CONSTANTS Nobody, WatchdogLimit, EventCap

Callers == {"user", "events", "watchdog"}

ASSUME NobodyAssumption == Nobody \notin Callers

ASSUME BoundsAssumption == {WatchdogLimit, EventCap} \subseteq Nat \ {0}

Fallbacks == {"dns", "wfp"}

VARIABLES
    marker,         \* whether the marker of the system proxy exists
    program,        \* whether the desktop runs
    core,           \* the core it is connected to
    gate,           \* who holds the lifecycle gate
    phase,          \* s.transitionPhase
    applied,        \* s.dnsFallbackApplied and s.wfpFallbackApplied
    compat,         \* s.compatRestarting
    closing,        \* s.closing
    recovery,       \* whether s.proxyRecoveryError is set
    stopping,       \* s.watchdogStopping
    failures,       \* s.tunHealthFailures, short of the limit
    setting,        \* settings.Mode
    queue,          \* the events that wait to be consumed
    poll,           \* where Snapshot stands
    pc,             \* where each caller stands
    op,             \* what it has called
    mode,           \* the mode to start
    late,           \* the callers whose context has ended
    failed,         \* the callers whose call has met an error
    began,          \* history: the holder has started the engine
    restarts        \* history: restarts since somebody else had the gate

flags == <<applied, compat, closing, recovery, stopping, failures>>
callVars == <<pc, op, mode, late, failed, began>>
serviceVars == <<program, core, gate, phase, flags, setting, queue, poll,
                 callVars, restarts>>

vars == <<serviceVars, session, marker>>

ServiceTypeOK ==
    /\ marker \in BOOLEAN
    /\ engine \in {"stopped", "starting", "running", "stopping", "failed"}
    /\ tun \in BOOLEAN
    /\ program \in {"down", "up"}
    /\ core \in {"down", "plain", "elevated"}
    /\ gate \in Callers \cup {Nobody}
    /\ phase \in {"", "starting", "stopping"}
    /\ applied \in SUBSET Fallbacks
    /\ compat \in BOOLEAN
    /\ closing \in BOOLEAN
    /\ recovery \in BOOLEAN
    /\ stopping \in BOOLEAN
    /\ failures \in 0..(WatchdogLimit - 1)
    /\ setting \in {"proxy", "tun"}
    /\ queue \in SUBSET Fallbacks
    /\ poll \in {"idle", "probing"}
    /\ pc \in [Callers -> {"idle", "waiting", "ensure",
                 "mode", "status", "clear", "start", "starting", "enable",
                 "resolve", "activate", "probe", "deactivate",
                 "stop", "stopping", "restore",
                 "repair", "leave", "exit"}]
    /\ op \in [Callers -> {"start", "stop", "repair"}]
    /\ mode \in [Callers -> {"proxy", "tun"}]
    /\ late \in SUBSET Callers
    /\ failed \in SUBSET Callers
    /\ began \in BOOLEAN
    /\ restarts \in Nat

Fresh ==
    /\ gate' = Nobody
    /\ phase' = ""
    /\ applied' = {}
    /\ compat' = FALSE
    /\ closing' = FALSE
    /\ stopping' = FALSE
    /\ failures' = 0
    /\ queue' = {}
    /\ poll' = "idle"
    /\ pc' = [c \in Callers |-> "idle"]
    /\ op' = [c \in Callers |-> "stop"]
    /\ mode' = [c \in Callers |-> "proxy"]
    /\ late' = {}
    /\ failed' = {}
    /\ began' = FALSE
    /\ restarts' = 0

ServiceInit ==
    /\ marker = FALSE
    /\ SessionInit
    /\ program = "down"
    /\ core = "down"
    /\ gate = Nobody
    /\ phase = ""
    /\ applied = {}
    /\ compat = FALSE
    /\ closing = FALSE
    /\ recovery = FALSE
    /\ stopping = FALSE
    /\ failures = 0
    /\ setting \in {"proxy", "tun"}
    /\ queue = {}
    /\ poll = "idle"
    /\ pc = [c \in Callers |-> "idle"]
    /\ op = [c \in Callers |-> "stop"]
    /\ mode = [c \in Callers |-> "proxy"]
    /\ late = {}
    /\ failed = {}
    /\ began = FALSE
    /\ restarts = 0

-----------------------------------------------------------------------------
(* The program and its core                                                *)

\* restoreSystemProxy: without a marker there is nothing to do, and an error
\* keeps it.
RestoreProxy(error) == marker' = error /\ (error => marker)

\* enableSystemProxy: the marker is written before the proxy is set.
EnableProxy(error) == marker' = TRUE \/ (error /\ UNCHANGED marker)

\* newEngineService brings the proxy back before anything else.
Launch ==
    /\ program = "down"
    /\ program' = "up"
    /\ \/ \E error \in BOOLEAN : RestoreProxy(error) /\ recovery' = error
       \/ \* an elevated host that may set no proxy restores none
          UNCHANGED marker /\ recovery' = FALSE
    /\ UNCHANGED <<core, gate, phase, applied, compat, closing, stopping,
                   failures, setting, queue, poll, callVars, restarts, session>>

\* The core sees its input end and takes its session down.
CoreGone == core' = "down" /\ engine' = "stopped" /\ tun' = FALSE

\* The program dies, or Shutdown shuts the client down and it ends.
ProgramEnds ==
    /\ program = "up"
    /\ program' = "down"
    /\ CoreGone
    /\ Fresh
    /\ recovery' = FALSE
    /\ UNCHANGED <<setting, marker>>

CoreCrashes ==
    /\ core # "down"
    /\ CoreGone
    /\ UNCHANGED <<program, gate, phase, flags, setting, queue, poll, callVars,
                   restarts, marker>>

\* A request that its caller has given up on is still carried out.
CoreGoesOn ==
    /\ \A c \in Callers : pc[c] \notin {"starting", "stopping"}
    /\ StartEnded \/ StopEnded
    /\ UNCHANGED <<serviceVars, marker>>

\* An event that finds the queue full is dropped.
Queued(f) ==
    queue' = IF Cardinality(queue) < EventCap THEN queue \cup {f} ELSE queue

\* The DNS engine of a running pool asks for a fallback.
FallbackNeeded ==
    /\ core # "down" /\ engine = "running"
    /\ Queued("dns")
    /\ UNCHANGED <<program, core, gate, phase, flags, setting, poll, callVars,
                   restarts, session, marker>>

\* The sidecar leaves: the engine fails, for want of WFP or otherwise.
SidecarLeaves ==
    /\ tun /\ engine = "running"
    /\ tun' = FALSE
    /\ engine' = "failed"
    /\ Queued("wfp") \/ UNCHANGED queue
    /\ UNCHANGED <<program, core, gate, phase, flags, setting, poll, callVars,
                   restarts, marker>>

-----------------------------------------------------------------------------
(* The lifecycle gate                                                      *)

\* s.Start, s.Stop or s.RepairWFP is called.
Calls(c, o, m) ==
    /\ pc' = [pc EXCEPT ![c] = "waiting"]
    /\ op' = [op EXCEPT ![c] = o]
    /\ mode' = [mode EXCEPT ![c] = m]
    /\ late' = late \ {c}
    /\ failed' = failed \ {c}
    /\ began' = (began /\ gate \notin {c, Nobody})

Modes == {"proxy", "tun"}

UserCalls ==
    /\ program = "up" /\ pc["user"] = "idle"
    /\ \/ \E m \in Modes : Calls("user", "start", m)
       \/ Calls("user", "stop", "proxy")
       \/ Calls("user", "repair", "proxy")
    /\ UNCHANGED <<program, core, gate, phase, flags, setting, queue, poll,
                   restarts, session, marker>>

\* Somebody other than the event loop takes over, or is done.
Pardons(c) ==
    restarts' = IF c = "events" THEN restarts ELSE 0

\* A call takes the gate; what it does first is part of the same step.
Acquire(c) ==
    /\ pc[c] = "waiting" /\ gate = Nobody
    /\ gate' = c
    /\ began' = FALSE
    /\ Pardons(c)
    /\ UNCHANGED <<program, core, compat, closing, recovery, stopping, failures,
                   setting, queue, poll, op, mode, late, session, marker>>

\* Where the holder waits for the core, so that it matters to it whether its
\* context has ended.
Waiting == {"ensure", "status", "clear", "start", "starting", "resolve",
            "activate", "deactivate", "stop", "stopping"}

\* The context of the holder ends; if not while it waits for the core, then it
\* notices the next time it does.
Deadline(c) ==
    /\ gate = c /\ c \notin late /\ pc[c] \in Waiting
    /\ late' = late \cup {c}
    /\ UNCHANGED <<program, core, gate, phase, flags, setting, queue, poll, pc,
                   op, mode, failed, began, restarts, session, marker>>

At(c, place) == gate = c /\ pc[c] = place

Step(c, place) == pc' = [pc EXCEPT ![c] = place] /\ UNCHANGED failed

Fail(c, place) ==
    pc' = [pc EXCEPT ![c] = place] /\ failed' = failed \cup {c}

\* What a call held is gone when it returns.
Rest(c, place) ==
    /\ pc' = [pc EXCEPT ![c] = place]
    /\ op' = [op EXCEPT ![c] = "stop"]
    /\ mode' = [mode EXCEPT ![c] = "proxy"]
    /\ late' = late \ {c}
    /\ began' = (began /\ gate \notin {c, Nobody})

\* A restart goes on with Start, whatever Stop has returned; Shutdown with the
\* client.
Returns(c, error) ==
    \/ /\ c = "user" /\ ~closing
       /\ Rest(c, "idle")
       /\ failed' = failed \ {c}
       /\ UNCHANGED <<compat, stopping>>
    \/ /\ c = "events" /\ op[c] = "stop"
       /\ Calls(c, "start", "tun")
       /\ UNCHANGED <<compat, stopping>>
    \/ /\ c = "events" /\ op[c] = "start"
       /\ Rest(c, "idle")
       /\ failed' = failed \ {c}
       /\ compat' = FALSE
       /\ UNCHANGED stopping
    \/ /\ c = "watchdog"
       /\ Rest(c, "idle")
       /\ failed' = failed \ {c}
       /\ stopping' = FALSE
       /\ UNCHANGED compat
    \/ /\ c = "user" /\ closing
       /\ Rest(c, "exit")
       /\ failed' = IF error THEN failed \cup {c} ELSE failed
       /\ UNCHANGED <<compat, stopping>>

\* The gate could not be had in time.
GateTimeout(c) ==
    /\ pc[c] = "waiting" /\ gate # Nobody
    /\ Returns(c, TRUE)
    /\ UNCHANGED <<program, core, gate, phase, applied, closing, recovery,
                   failures, setting, queue, poll, restarts, session,
                   marker>>

\* The fallbacks that a Start or a Stop does not forget.
KeptFlags == IF compat THEN applied ELSE {}

\* What a Stop, or a Start that has gone well, resets at its end.
Finish(c) ==
    /\ applied' = IF op[c] = "stop" THEN KeptFlags ELSE applied
    /\ failures' = IF op[c] = "start" /\ c \notin failed THEN 0 ELSE failures

\* The call has come to its end: the flags, clearTransition, releaseLifecycle.
\* What others do between them they might do before or after.
Leave(c) ==
    /\ At(c, "leave")
    /\ Finish(c)
    /\ phase' = ""
    /\ gate' = Nobody
    /\ Returns(c, FALSE)
    /\ Pardons(c)
    /\ UNCHANGED <<program, core, closing, recovery, setting, queue, poll,
                   session, marker>>

-----------------------------------------------------------------------------
(* Start                                                                   *)

\* A step of the holder leaves the rest of the service alone.
Alone == UNCHANGED <<program, gate, queue, poll, op, mode, late, restarts>>

\* The host is free to take a request.
Ready == core # "down" /\ engine \notin {"starting", "stopping"}

\* A request reports an error whether it was carried out or not.
Unanswered(c) == core = "down" \/ c \in late

\* A fault: a Start during Shutdown is let through.
MayStartClosing == ~recovery

MayStart == ~closing /\ ~recovery

\* No adapter, rules that do not parse, or a blocker of the TUN.
Preflight(c) == Step(c, "ensure") \/ Fail(c, "leave")

StartBegin(c) ==
    /\ Acquire(c) /\ op[c] = "start"
    /\ \/ \* refused here, or for an elevated host that may set no proxy
          /\ ~MayStart \/ mode[c] = "proxy"
          /\ Fail(c, "leave")
          /\ UNCHANGED <<phase, applied>>
       \/ /\ MayStart
          /\ applied' = KeptFlags
          /\ phase' = "starting"
          /\ Preflight(c)

NeedsElevated(c) == \/ op[c] = "repair"
                    \/ op[c] = "start" /\ mode[c] = "tun"

Adequate(c) == core = "elevated" \/ (core = "plain" /\ ~NeedsElevated(c))

\* The core is there, or is launched in place of one that will not do.
Ensure(c) ==
    /\ At(c, "ensure") /\ c \notin late
    /\ IF Adequate(c)
         THEN UNCHANGED <<core, session>>
         ELSE /\ core' = IF NeedsElevated(c) THEN "elevated" ELSE "plain"
              /\ engine' = "stopped"
              /\ tun' = FALSE
    /\ Step(c, CASE op[c] = "start" -> "mode"
                 [] op[c] = "stop" -> "deactivate"
                 [] op[c] = "repair" -> "repair")
    /\ UNCHANGED <<phase, flags, setting, began, marker>>
    /\ Alone

\* A launch that fails has killed the core it was to replace.
EnsureFails(c) ==
    /\ At(c, "ensure")
    /\ UNCHANGED <<core, session>> \/ (~Adequate(c) /\ CoreGone)
    /\ Fail(c, IF op[c] = "stop" THEN "restore" ELSE "leave")
    /\ UNCHANGED <<phase, flags, setting, began, marker>>
    /\ Alone

\* UpdateHome keeps the mode in memory even when it cannot be saved.
UpdateMode(c) ==
    /\ At(c, "mode")
    /\ setting' = mode[c]
    /\ \/ Step(c, "status")
       \/ setting # mode[c] /\ Fail(c, "leave")
    /\ UNCHANGED <<core, phase, flags, began, session, marker>>
    /\ Alone

Status(c) ==
    /\ At(c, "status")
    /\ \/ Ready /\ Step(c, IF engine = "failed" THEN "clear" ELSE "start")
       \/ Unanswered(c) /\ Fail(c, "leave")
    /\ UNCHANGED <<core, phase, flags, setting, began, session, marker>>
    /\ Alone

\* engine.stop of a failed engine; an error is ignored.
ClearCore(c) ==
    /\ At(c, "clear")
    /\ \/ Ready /\ Cleared
       \/ Ready /\ engine = "stopped" /\ UNCHANGED session
       \/ Unanswered(c) /\ UNCHANGED session
    /\ Step(c, "start")
    /\ UNCHANGED <<core, phase, flags, setting, began, marker>>
    /\ Alone

RequestStart(c) ==
    /\ At(c, "start")
    /\ \/ /\ Ready
          /\ StartAccepted
          /\ restarts' = IF c = "events" THEN restarts + 1 ELSE restarts
          /\ Step(c, "starting")
       \/ /\ Unanswered(c) \/ engine = "running"
          /\ Fail(c, "leave")
          /\ UNCHANGED <<session, restarts>>
    /\ UNCHANGED <<program, core, gate, phase, flags, setting, queue, poll, op,
                   mode, late, began, marker>>

\* Without an answer there is no rollback, and the core goes on.
StartReply(c) ==
    /\ At(c, "starting")
    /\ \/ /\ StartEnded
          /\ IF engine' = "running"
               THEN Step(c, IF mode[c] = "proxy" THEN "enable" ELSE "resolve")
               ELSE Fail(c, "leave")
          /\ began' = (engine' = "running")
       \/ /\ Unanswered(c)
          /\ UNCHANGED <<session, began>>
          /\ Fail(c, "leave")
    /\ UNCHANGED <<core, phase, flags, setting, marker>>
    /\ Alone

Enable(c) ==
    /\ At(c, "enable")
    /\ \/ EnableProxy(FALSE) /\ Step(c, "leave")
       \/ EnableProxy(TRUE) /\ Fail(c, "deactivate")
    /\ UNCHANGED <<core, phase, flags, setting, began, session>>
    /\ Alone

\* dns.resolve and the configuration of the sidecar.
Resolve(c) ==
    /\ At(c, "resolve")
    /\ \/ Ready /\ c \notin late /\ Step(c, "activate")
       \/ Fail(c, "deactivate")
    /\ UNCHANGED <<core, phase, flags, setting, began, session, marker>>
    /\ Alone

\* tun.activate, whose sidecar may be gone again when the answer comes.
Activate(c) ==
    /\ At(c, "activate")
    /\ \/ Ready /\ Activated /\ c \notin late /\ Step(c, "probe")
       \/ Ready /\ (Activated \/ EngineFailed) /\ Fail(c, "deactivate")
       \/ /\ Unanswered(c) \/ (Ready /\ engine # "running")
          /\ UNCHANGED session
          /\ Fail(c, "deactivate")
    /\ UNCHANGED <<core, phase, flags, setting, began, marker>>
    /\ Alone

Probe(c) ==
    /\ At(c, "probe")
    /\ Step(c, "leave") \/ Fail(c, "deactivate")
    /\ UNCHANGED <<core, phase, flags, setting, began, session, marker>>
    /\ Alone

-----------------------------------------------------------------------------
(* Stop, and the rollback of Start, which are the same requests            *)

StopBegin(c) ==
    /\ Acquire(c) /\ op[c] = "stop"
    /\ phase' = "stopping"
    /\ Step(c, "ensure")
    /\ UNCHANGED applied

Deactivate(c) ==
    /\ At(c, "deactivate")
    /\ \/ /\ Ready
          /\ tun' = FALSE
          /\ UNCHANGED engine
          /\ Step(c, "stop") \/ Fail(c, "stop")
       \/ /\ Unanswered(c)
          /\ UNCHANGED session
          /\ Fail(c, "stop")
    /\ UNCHANGED <<core, phase, flags, setting, began, marker>>
    /\ Alone

\* A fault: the rollback leaves the engine running.
RequestStopNot(c) ==
    /\ At(c, "stop")
    /\ \/ Ready /\ op[c] = "stop" /\ StopAccepted /\ Step(c, "stopping")
       \/ Ready /\ Cleared /\ Step(c, "restore")
       \/ Ready /\ op[c] = "start" /\ UNCHANGED session /\ Step(c, "restore")
       \/ Ready /\ engine = "stopped" /\ UNCHANGED session /\ Step(c, "restore")
       \/ Unanswered(c) /\ UNCHANGED session /\ Fail(c, "restore")
    /\ UNCHANGED <<core, phase, flags, setting, began, marker>>
    /\ Alone

\* An engine that is stopped already is no error.
RequestStop(c) ==
    /\ At(c, "stop")
    /\ \/ Ready /\ StopAccepted /\ Step(c, "stopping")
       \/ Ready /\ Cleared /\ Step(c, "restore")
       \/ Ready /\ engine = "stopped" /\ UNCHANGED session /\ Step(c, "restore")
       \/ Unanswered(c) /\ UNCHANGED session /\ Fail(c, "restore")
    /\ UNCHANGED <<core, phase, flags, setting, began, marker>>
    /\ Alone

StopReply(c) ==
    /\ At(c, "stopping")
    /\ \/ /\ StopEnded
          /\ IF engine' = "stopped" THEN Step(c, "restore")
                                    ELSE Fail(c, "restore")
       \/ /\ Unanswered(c)
          /\ UNCHANGED session
          /\ Fail(c, "restore")
    /\ UNCHANGED <<core, phase, flags, setting, began, marker>>
    /\ Alone

\* A fault: the error of the restore is dropped.
RestoreQuietly(c) ==
    /\ At(c, "restore")
    /\ \E error \in BOOLEAN : RestoreProxy(error)
    /\ Step(c, "leave")
    /\ UNCHANGED <<core, phase, flags, setting, began, session>>
    /\ Alone

Restore(c) ==
    /\ At(c, "restore")
    /\ \/ RestoreProxy(FALSE) /\ Step(c, "leave")
       \/ RestoreProxy(TRUE) /\ Fail(c, "leave")
    /\ UNCHANGED <<core, phase, flags, setting, began, session>>
    /\ Alone

-----------------------------------------------------------------------------
(* RepairWFP                                                               *)

\* A running engine is refused if its status is told within three seconds.
RepairBegin(c) ==
    /\ Acquire(c) /\ op[c] = "repair"
    /\ \/ (closing \/ (Ready /\ engine = "running")) /\ Fail(c, "leave")
       \/ ~closing /\ Step(c, "ensure")
    /\ UNCHANGED <<phase, applied>>

\* wfp.inspect, and the elevated core is shut down again.
Repair(c) ==
    /\ At(c, "repair")
    /\ \/ CoreGone /\ Step(c, "leave")
       \/ UNCHANGED <<core, session>> /\ Fail(c, "leave")
    /\ UNCHANGED <<phase, flags, setting, began, marker>>
    /\ Alone

-----------------------------------------------------------------------------
(* Events, Snapshot and Shutdown                                           *)

\* A fault: a fallback that was applied is applied again.
IgnoredUnlessBusy(f) == closing \/ setting # "tun" \/ compat

Ignored(f) == closing \/ setting # "tun" \/ f \in applied \/ compat

\* handleDNSFallback and handleWFPCompatibility; the latter ignores the event
\* without a strict route too.
HandleEvent(f) ==
    /\ program = "up" /\ pc["events"] = "idle" /\ f \in queue
    /\ queue' = queue \ {f}
    /\ \/ /\ Ignored(f) \/ f = "wfp"
          /\ UNCHANGED <<applied, compat, callVars>>
       \/ /\ ~Ignored(f)
          /\ applied' = applied \cup {f}
          /\ compat' = TRUE
          /\ Calls("events", "stop", "tun")
    /\ UNCHANGED <<program, core, gate, phase, closing, recovery, stopping,
                   failures, setting, poll, restarts, session, marker>>

\* Snapshot launches a core if there is none.
SnapshotEnsures ==
    /\ program = "up" /\ phase = "" /\ core = "down"
    /\ core' = "plain"
    /\ UNCHANGED <<program, gate, phase, flags, setting, queue, poll, callVars,
                   restarts, session, marker>>

\* It looks at the TUN of a running engine ...
SnapshotProbes ==
    /\ program = "up" /\ phase = "" /\ poll = "idle"
    /\ core # "down" /\ engine = "running" /\ setting = "tun"
    /\ poll' = "probing"
    /\ UNCHANGED <<program, core, gate, phase, flags, setting, queue, callVars,
                   restarts, session, marker>>

\* The watchdog is not called again while it stops.
Stops(n) == n >= WatchdogLimit /\ ~stopping

\* ... and, much later, counts what it has found.
SnapshotEnds ==
    /\ poll = "probing"
    /\ poll' = "idle"
    /\ \/ \* it works, or the network does not
          failures' = 0 /\ UNCHANGED <<stopping, callVars>>
       \/ LET n == failures + 1
          IN \/ /\ Stops(n)
                /\ failures' = 0
                /\ stopping' = TRUE
                /\ Calls("watchdog", "stop", "proxy")
             \/ /\ ~Stops(n)
                /\ failures' = IF n < WatchdogLimit THEN n ELSE failures
                /\ UNCHANGED <<stopping, callVars>>
    /\ UNCHANGED <<program, core, gate, phase, applied, compat, closing,
                   recovery, setting, queue, restarts, session, marker>>

Shutdown ==
    /\ program = "up" /\ pc["user"] = "idle"
    /\ closing' = TRUE
    /\ Calls("user", "stop", "proxy")
    /\ UNCHANGED <<program, core, gate, phase, applied, compat, recovery,
                   stopping, failures, setting, queue, poll, restarts, session,
                   marker>>

-----------------------------------------------------------------------------

HolderStep(c) ==
    \/ Leave(c)
    \/ StartBegin(c) \/ Ensure(c) \/ EnsureFails(c)
    \/ UpdateMode(c) \/ Status(c) \/ ClearCore(c) \/ RequestStart(c)
    \/ StartReply(c) \/ Enable(c) \/ Resolve(c) \/ Activate(c)
    \/ Probe(c)
    \/ StopBegin(c) \/ Deactivate(c) \/ RequestStop(c) \/ StopReply(c)
    \/ Restore(c)
    \/ RepairBegin(c) \/ Repair(c)

\* The core takes the sidecar down before it stops, and notices that it left.
CoreTakesDown ==
    /\ engine \in {"stopping", "failed"}
    /\ SidecarEnded
    /\ UNCHANGED <<serviceVars, marker>>

CoreFails ==
    /\ core = "elevated"
    /\ EngineFailed
    /\ UNCHANGED <<serviceVars, marker>>

ServiceNext ==
    \/ Launch \/ ProgramEnds
    \/ CoreCrashes \/ CoreGoesOn \/ CoreTakesDown \/ CoreFails
    \/ FallbackNeeded \/ SidecarLeaves
    \/ UserCalls \/ Shutdown
    \/ \E f \in Fallbacks : HandleEvent(f)
    \/ SnapshotEnsures \/ SnapshotProbes \/ SnapshotEnds
    \/ \E c \in Callers : \/ GateTimeout(c) \/ Deadline(c)
                          \/ HolderStep(c)

ServiceSpec == ServiceInit /\ [][ServiceNext]_vars

-----------------------------------------------------------------------------
(* Properties                                                              *)

\* "one controlled restart": however often the core asks for a fallback, the
\* event loop starts the engine once for each, until somebody else has come
\* between.
RestartOnce == restarts <= Cardinality(Fallbacks)

\* "HypoMux restores the system network settings it owned": a Stop that
\* reports success has stopped the engine and its sidecar, and the proxy is
\* no longer this program's to bring back.
StopIsComplete ==
    \A c \in Callers :
        pc[c] = "leave" /\ op[c] = "stop" /\ c \notin failed =>
            engine = "stopped" /\ ~tun /\ ~marker

\* A Start that fails once its engine has started takes it down again, unless
\* its context has ended or the host could not stop.
FailedStartIsUndone ==
    \A c \in Callers :
        pc[c] = "leave" /\ op[c] = "start" /\ c \in failed /\ began
            /\ c \notin late => engine # "running" /\ ~tun

\* Once Shutdown has stopped the engine nothing starts it again: not the
\* second half of a restart, nor a call that has waited for the gate.
ShutdownIsFinal ==
    pc["user"] = "exit" /\ "user" \notin failed =>
        engine = "stopped" /\ ~tun

=============================================================================
