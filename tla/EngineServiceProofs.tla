------------------------ MODULE EngineServiceProofs ------------------------
(***************************************************************************)
(* The safety properties of EngineService, for any length of the event     *)
(* queue and any patience of the watchdog.                                 *)
(*                                                                         *)
(* All of them rest on the lifecycle gate: only its holder starts, stops   *)
(* or activates anything, so that what a call has found still holds when   *)
(* it returns.  What remains is what the flags of the service say of the   *)
(* callers that do not hold the gate, and what of a call is undone when it *)
(* has got only so far.                                                    *)
(***************************************************************************)
EXTENDS EngineService, FiniteSetTheorems, TLAPS

\* Where a caller stands that does not hold the gate.
Away == {"idle", "waiting", "exit"}

\* Where a Start stands before its engine has started, and after.
Opening == {"ensure", "mode", "status", "clear", "start", "starting"}
Forward == {"enable", "resolve", "activate", "probe"}

\* Where a call stands that stops the engine.
Closing == {"deactivate", "stop", "stopping", "restore"}

Working == Opening \cup Forward \cup Closing \cup {"repair"}
Holding == Working \cup {"leave"}

\* The holder of the gate is the caller that is at work.
GateInv == \A c \in Callers : gate = c <=> pc[c] \notin Away

\* The flags of a compatibility restart, of the watchdog and of Shutdown say
\* who is at work or waits.
FlagInv ==
    /\ compat <=> pc["events"] # "idle"
    /\ stopping <=> pc["watchdog"] # "idle"
    /\ closing => pc["user"] # "idle" /\ op["user"] = "stop"
    /\ \A c \in Callers : pc[c] = "exit" => c = "user" /\ closing

\* What the holder has called, and what it has met, where it stands.
PlaceOf(c) ==
    /\ pc[c] \in Forward \cup (Opening \ {"ensure"}) => op[c] = "start"
    /\ pc[c] \in Closing => op[c] # "repair"
    /\ pc[c] = "repair" => op[c] = "repair"
    /\ pc[c] \in Opening => ~began
    /\ pc[c] \in Forward \cup Opening => c \notin failed

\* A caller that waits has met no error yet.
WaitInv == \A c \in Callers : pc[c] = "waiting" => c \notin failed

\* The session belongs to a core, and a stopped engine has no sidecar.
SessionInv ==
    /\ core = "down" => engine = "stopped"
    /\ engine = "stopped" => ~tun

\* What a Stop that has met no error has reached.
StopOf(c) ==
    op[c] = "stop" /\ c \notin failed =>
        /\ pc[c] \in {"restore", "leave"} => engine = "stopped"
        /\ pc[c] = "leave" => ~marker

\* What a Start that takes its engine down has reached, unless its context
\* has ended.
Down == engine \notin {"starting", "running"}

UndoOf(c) ==
    op[c] = "start" /\ c \notin late =>
        /\ pc[c] \in Closing \ {"deactivate"} => ~tun
        /\ pc[c] \in {"stopping", "restore"} => Down
        /\ pc[c] = "leave" /\ c \in failed /\ began => ~tun /\ Down

CallInv == \A c \in Callers : PlaceOf(c) /\ StopOf(c) /\ UndoOf(c)

\* Once Shutdown has stopped the engine, no Start gets anywhere.
ExitInv ==
    pc["user"] = "exit" /\ "user" \notin failed =>
        /\ engine = "stopped"
        /\ \A c \in Callers : op[c] = "start" => pc[c] \in Away \cup {"leave"}

\* The event loop is on its way to start the engine.
Pending ==
    \/ op["events"] = "stop" /\ pc["events"] # "idle"
    \/ /\ op["events"] = "start"
       /\ pc["events"] \in {"waiting"} \cup (Opening \ {"starting"})

\* Every restart is paid for by a fallback that was not applied before.
RestartInv ==
    /\ restarts <= Cardinality(applied)
    /\ Pending => restarts < Cardinality(applied)

\* The type invariant in three parts: the truth values, the numbers and words,
\* and what each caller has.
BoolType ==
    /\ marker \in BOOLEAN
    /\ tun \in BOOLEAN
    /\ compat \in BOOLEAN
    /\ closing \in BOOLEAN
    /\ recovery \in BOOLEAN
    /\ stopping \in BOOLEAN
    /\ began \in BOOLEAN

WordType ==
    /\ engine \in {"stopped", "starting", "running", "stopping", "failed"}
    /\ program \in {"down", "up"}
    /\ core \in {"down", "plain", "elevated"}
    /\ phase \in {"", "starting", "stopping"}
    /\ failures \in 0..(WatchdogLimit - 1)
    /\ setting \in Modes
    /\ poll \in {"idle", "probing"}
    /\ applied \in SUBSET Fallbacks
    /\ queue \in SUBSET Fallbacks

CallType ==
    /\ gate \in Callers \cup {Nobody}
    /\ pc \in [Callers -> Away \cup Holding]
    /\ op \in [Callers -> {"start", "stop", "repair"}]
    /\ mode \in [Callers -> Modes]
    /\ late \in SUBSET Callers
    /\ failed \in SUBSET Callers
    /\ restarts \in Nat

TypeInv == BoolType /\ WordType /\ CallType

SInv ==
    /\ TypeInv
    /\ GateInv
    /\ FlagInv
    /\ WaitInv
    /\ CallInv
    /\ SessionInv
    /\ ExitInv
    /\ RestartInv

-----------------------------------------------------------------------------

USE NobodyAssumption

\* Nothing has happened yet.
LEMMA Zeros == 0 \in 0..(WatchdogLimit - 1) /\ 0 <= Cardinality({})
<1>1. WatchdogLimit \in Nat \ {0}
  BY BoundsAssumption
<1>2. Cardinality({}) = 0
  BY FS_EmptySet
<1> QED BY <1>1, <1>2

\* The callers are three.
LEMMA CallersAre ==
    /\ "user" \in Callers /\ "events" \in Callers /\ "watchdog" \in Callers
    /\ \A c \in Callers : c = "user" \/ c = "events" \/ c = "watchdog"
  BY DEF Callers

\* There are as many fallbacks to apply as there are, and a new one counts.
LEMMA AppliedCounts ==
    ASSUME NEW s \in SUBSET Fallbacks
    PROVE  /\ Cardinality(s) \in Nat
           /\ Cardinality(s) <= Cardinality(Fallbacks)
           /\ \A f \in Fallbacks \ s :
                Cardinality(s \cup {f}) = Cardinality(s) + 1
<1>1. IsFiniteSet(Fallbacks)
  <2>1. IsFiniteSet({}) /\ Fallbacks = ({} \cup {"dns"}) \cup {"wfp"}
    BY FS_EmptySet DEF Fallbacks
  <2> QED BY <2>1, FS_AddElement
<1>2. IsFiniteSet(s)
  BY <1>1, FS_Subset
<1> QED BY <1>1, <1>2, FS_Subset, FS_CardinalityType, FS_AddElement

\* A step that moves no caller keeps the invariant, if it does not start the
\* engine, bring up a sidecar or write the marker.
LEMMA BackgroundKeeps ==
    ASSUME SInv, TypeInv', SessionInv',
           UNCHANGED <<gate, applied, compat, closing, stopping, pc, op,
                       failed, began, restarts>>,
           late \subseteq late',
           marker' => marker,
           tun' => tun,
           engine = "stopped" => engine' = "stopped",
           Down => Down'
    PROVE  SInv'
<1>1. GateInv'
  BY DEF SInv, GateInv
<1>2. FlagInv'
  BY DEF SInv, FlagInv
<1>3. CallInv'
  <2> SUFFICES ASSUME NEW c \in Callers
               PROVE  (PlaceOf(c) /\ StopOf(c) /\ UndoOf(c))'
    BY DEF CallInv
  <2> PlaceOf(c) /\ StopOf(c) /\ UndoOf(c)
    BY DEF SInv, CallInv
  <2>1. PlaceOf(c)'
    BY DEF PlaceOf
  <2>2. StopOf(c)'
    BY DEF StopOf
  <2>3. UndoOf(c)'
    BY DEF UndoOf
  <2> QED BY <2>1, <2>2, <2>3
<1>4. ExitInv'
  BY DEF SInv, ExitInv
<1>5. RestartInv'
  BY DEF SInv, RestartInv, Pending
<1>6. WaitInv'
  BY DEF SInv, WaitInv
<1> QED BY <1>1, <1>2, <1>3, <1>4, <1>5, <1>6 DEF SInv

\* The type invariant and its parts.
LEMMA TypeParts == TypeInv => ServiceTypeOK
<1> SUFFICES ASSUME TypeInv PROVE ServiceTypeOK
  OBVIOUS
<1>1. pc \in [Callers -> {"idle", "waiting", "ensure",
                 "mode", "status", "clear", "start", "starting", "enable",
                 "resolve", "activate", "probe", "deactivate",
                 "stop", "stopping", "restore",
                 "repair", "leave", "exit"}]
  BY DEF TypeInv, CallType, Away, Holding, Working, Opening, Forward, Closing
<1>2. mode \in [Callers -> {"proxy", "tun"}] /\ setting \in {"proxy", "tun"}
  BY DEF TypeInv, CallType, WordType, Modes
<1> QED BY <1>1, <1>2, Zenon
        DEF TypeInv, BoolType, WordType, CallType, ServiceTypeOK

\* The core by itself, the desktop it runs for and the looks of Snapshot.
LEMMA CoreKeeps ==
    ASSUME SInv,
           \/ Launch \/ CoreCrashes \/ CoreGoesOn \/ CoreTakesDown
           \/ CoreFails \/ FallbackNeeded \/ SidecarLeaves
           \/ SnapshotEnsures \/ SnapshotProbes
    PROVE  SInv'
<1> BoolType /\ WordType /\ CallType /\ SessionInv
  BY DEF SInv, TypeInv
<1> USE DEF flags, callVars, serviceVars, session
<1>0. CallType'
  BY DEF CallType, Launch, CoreCrashes, CoreGoesOn, CoreTakesDown, CoreFails,
         FallbackNeeded, SidecarLeaves, SnapshotEnsures, SnapshotProbes
<1>1. CASE Launch
  <2>1. BoolType'
    <3>1. marker' \in BOOLEAN /\ recovery' \in BOOLEAN
      BY <1>1 DEF Launch, RestoreProxy, BoolType
    <3> QED BY <1>1, <3>1, Zenon DEF Launch, BoolType
  <2>2. WordType'
    BY <1>1 DEF Launch, WordType
  <2>3. SessionInv'
    BY <1>1 DEF Launch, SessionInv
  <2>4. marker' => marker
    BY <1>1 DEF Launch, RestoreProxy
  <2> QED BY <1>0, <1>1, <2>1, <2>2, <2>3, <2>4, BackgroundKeeps
          DEF Launch, Down, TypeInv
<1>2. CASE CoreCrashes
  <2>1. BoolType'
    BY <1>2, Zenon DEF CoreCrashes, CoreGone, BoolType
  <2>2. WordType'
    BY <1>2 DEF CoreCrashes, CoreGone, WordType
  <2> QED
    BY <1>0, <1>2, <2>1, <2>2, BackgroundKeeps
    DEF CoreCrashes, CoreGone, SessionInv, Down, TypeInv
<1>3. CASE CoreGoesOn
  <2>1. BoolType'
    BY <1>3, Zenon DEF CoreGoesOn, StartEnded, StopEnded, BoolType
  <2>2. WordType'
    BY <1>3 DEF CoreGoesOn, StartEnded, StopEnded, Moves, WordType
  <2>3. SessionInv'
    BY <1>3
    DEF CoreGoesOn, StartEnded, StopEnded, Moves, SessionInv
  <2> QED
    BY <1>0, <1>3, <2>1, <2>2, <2>3, BackgroundKeeps
    DEF CoreGoesOn, StartEnded, StopEnded, Moves, Down, TypeInv
<1>4. CASE CoreTakesDown
  <2>1. BoolType'
    BY <1>4, Zenon DEF CoreTakesDown, SidecarEnded, BoolType
  <2>2. WordType'
    BY <1>4 DEF CoreTakesDown, SidecarEnded, WordType
  <2> QED
    BY <1>0, <1>4, <2>1, <2>2, BackgroundKeeps
    DEF CoreTakesDown, SidecarEnded, SessionInv, Down, TypeInv
<1>5. CASE CoreFails
  <2>1. BoolType'
    BY <1>5, Zenon DEF CoreFails, EngineFailed, BoolType
  <2>2. WordType'
    BY <1>5 DEF CoreFails, EngineFailed, Moves, WordType
  <2> QED
    BY <1>0, <1>5, <2>1, <2>2, BackgroundKeeps
    DEF CoreFails, EngineFailed, Moves, SessionInv, Down, TypeInv
<1>6. CASE FallbackNeeded
  <2>1. BoolType'
    BY <1>6, Zenon DEF FallbackNeeded, BoolType
  <2>2. WordType'
    BY <1>6 DEF FallbackNeeded, Queued, Fallbacks, WordType
  <2> QED
    BY <1>0, <1>6, <2>1, <2>2, BackgroundKeeps
    DEF FallbackNeeded, SessionInv, Down, TypeInv
<1>7. CASE SidecarLeaves
  <2>1. BoolType'
    BY <1>7, Zenon DEF SidecarLeaves, BoolType
  <2>2. WordType'
    BY <1>7 DEF SidecarLeaves, Queued, Fallbacks, WordType
  <2> QED
    BY <1>0, <1>7, <2>1, <2>2, BackgroundKeeps
    DEF SidecarLeaves, SessionInv, Down, TypeInv
<1>8. CASE SnapshotEnsures
  <2>1. BoolType'
    BY <1>8, Zenon DEF SnapshotEnsures, BoolType
  <2>2. WordType'
    BY <1>8 DEF SnapshotEnsures, WordType
  <2> QED
    BY <1>0, <1>8, <2>1, <2>2, BackgroundKeeps
    DEF SnapshotEnsures, SessionInv, Down, TypeInv
<1>9. CASE SnapshotProbes
  <2>1. BoolType'
    BY <1>9, Zenon DEF SnapshotProbes, BoolType
  <2>2. WordType'
    BY <1>9 DEF SnapshotProbes, WordType
  <2> QED
    BY <1>0, <1>9, <2>1, <2>2, BackgroundKeeps
    DEF SnapshotProbes, SessionInv, Down, TypeInv
<1> QED BY <1>1, <1>2, <1>3, <1>4, <1>5, <1>6, <1>7, <1>8, <1>9

\* So does a deadline.
LEMMA DeadlineKeeps ==
    ASSUME SInv, NEW c \in Callers, Deadline(c)
    PROVE  SInv'
<1> BoolType /\ WordType /\ CallType /\ SessionInv
  BY DEF SInv, TypeInv
<1> USE DEF flags, session
<1>1. BoolType'
  BY Zenon DEF Deadline, BoolType
<1>2. WordType' /\ CallType'
  BY DEF Deadline, WordType, CallType
<1>3. SessionInv'
  BY DEF Deadline, SessionInv
<1> QED BY <1>1, <1>2, <1>3, BackgroundKeeps DEF Deadline, Down, TypeInv

\* Everything the program held goes with it.
LEMMA ProgramEndsKeeps ==
    ASSUME SInv, ProgramEnds
    PROVE  SInv'
<1> BoolType /\ WordType
  BY DEF SInv, TypeInv
<1> USE DEF ProgramEnds, Fresh, CoreGone
<1>1. BoolType'
  BY Zenon DEF BoolType
<1>2. WordType'
  BY Zeros, Zenon DEF WordType
<1>3. CallType'
  BY DEF CallType, Away, Modes
<1>4. GateInv'
  BY DEF GateInv, Away
<1>5. FlagInv'
  BY CallersAre DEF FlagInv
<1>6. CallInv'
  BY DEF CallInv, PlaceOf, StopOf, UndoOf, Forward, Opening, Closing
<1>7. SessionInv' /\ ExitInv' /\ WaitInv'
  BY CallersAre DEF SessionInv, ExitInv, WaitInv
<1>8. RestartInv'
  <2>1. ~Pending'
    BY CallersAre DEF Pending
  <2> QED BY <2>1, Zeros, Zenon DEF RestartInv
<1> QED
  BY <1>1, <1>2, <1>3, <1>4, <1>5, <1>6, <1>7, <1>8 DEF SInv, TypeInv

-----------------------------------------------------------------------------
(* Callers that come and go                                                *)

Ops == {"start", "stop", "repair"}

\* A caller that is not at work now, whether it has been or not, disturbs
\* nobody.
LEMMA AwayKeeps ==
    ASSUME SInv, NEW c \in Callers, NEW q \in Away, NEW o \in Ops,
           pc' = [pc EXCEPT ![c] = q],
           op' = [op EXCEPT ![c] = o],
           \A d \in Callers \ {c} : /\ d \in late' <=> d \in late
                                    /\ d \in failed' <=> d \in failed,
           q = "waiting" => c \notin failed',
           began' => began,
           \/ pc[c] \in Away /\ gate' = gate
           \/ gate = c /\ gate' = Nobody,
           UNCHANGED <<engine, tun, marker>>
    PROVE  GateInv' /\ WaitInv' /\ CallInv' /\ (q # "exit" => ExitInv')
<1> /\ pc \in [Callers -> Away \cup Holding] /\ op \in [Callers -> Ops]
    /\ GateInv
  BY DEF SInv, TypeInv, CallType, Ops
<1>1. \A d \in Callers : /\ pc'[d] = IF d = c THEN q ELSE pc[d]
                         /\ op'[d] = IF d = c THEN o ELSE op[d]
  OBVIOUS
<1>2. GateInv'
  BY <1>1 DEF GateInv
<1>3. CallInv'
  <2> SUFFICES ASSUME NEW d \in Callers
               PROVE  (PlaceOf(d) /\ StopOf(d) /\ UndoOf(d))'
    BY DEF CallInv
  <2>1. CASE d = c
    <3>1. pc'[d] \notin Holding
      BY <1>1, <2>1 DEF Holding, Working, Opening, Forward, Closing, Away
    <3> QED BY <3>1 DEF PlaceOf, StopOf, UndoOf, Holding, Working, Opening,
                        Forward, Closing
  <2>2. CASE d # c
    <3>0. PlaceOf(d) /\ StopOf(d) /\ UndoOf(d)
      BY DEF SInv, CallInv
    <3>1. PlaceOf(d)'
      BY <1>1, <2>2, <3>0 DEF PlaceOf
    <3>2. StopOf(d)'
      BY <1>1, <2>2, <3>0 DEF StopOf
    <3>3. UndoOf(d)'
      BY <1>1, <2>2, <3>0 DEF UndoOf, Down
    <3> QED BY <3>1, <3>2, <3>3
  <2> QED BY <2>1, <2>2
<1>4. ASSUME q # "exit" PROVE ExitInv'
  <2> SUFFICES ASSUME pc'["user"] = "exit", "user" \notin failed'
               PROVE  /\ engine' = "stopped"
                      /\ \A d \in Callers : op'[d] = "start" =>
                            pc'[d] \in Away \cup {"leave"}
    BY DEF ExitInv
  <2>1. c # "user"
    BY <1>1, <1>4, CallersAre
  <2>2. pc["user"] = "exit" /\ "user" \notin failed
    BY <1>1, <2>1, CallersAre
  <2> QED BY <1>1, <2>2 DEF SInv, ExitInv
<1>5. WaitInv'
  BY <1>1 DEF SInv, WaitInv
<1> QED BY <1>2, <1>3, <1>4, <1>5

\* What a call, or its end, leaves of the types.
LEMMA AwayType ==
    ASSUME CallType, NEW c \in Callers, NEW q \in Away \cup Holding,
           NEW o \in Ops, NEW m \in Modes,
           pc' = [pc EXCEPT ![c] = q],
           op' = [op EXCEPT ![c] = o],
           mode' = [mode EXCEPT ![c] = m],
           late' = late \ {c},
           failed' \in {failed, failed \ {c}, failed \cup {c}},
           gate' \in {gate, Nobody},
           restarts' \in {restarts, 0}
    PROVE  CallType'
  BY DEF CallType, Ops

\* A caller that was idle calls.
LEMMA CallsKeep ==
    ASSUME SInv, NEW c \in Callers, NEW o \in Ops, NEW m \in Modes,
           pc[c] = "idle", Calls(c, o, m),
           UNCHANGED <<gate, core, engine, tun, marker, recovery, restarts>>,
           compat' \in BOOLEAN, closing' \in BOOLEAN, stopping' \in BOOLEAN,
           WordType', FlagInv', RestartInv'
    PROVE  SInv'
<1>1. CallType'
  BY AwayType DEF SInv, TypeInv, Calls, Away
<1>2. BoolType'
  <2>1. began' \in BOOLEAN
    BY DEF Calls
  <2> QED BY <2>1, Zenon DEF SInv, TypeInv, BoolType
<1>3. GateInv' /\ WaitInv' /\ CallInv' /\ ExitInv'
  <2>1. "waiting" \in Away /\ pc[c] \in Away
    BY DEF Away
  <2>2. \A d \in Callers \ {c} : /\ d \in late' <=> d \in late
                                 /\ d \in failed' <=> d \in failed
    BY DEF Calls
  <2>3. c \notin failed'
    BY DEF Calls
  <2> QED BY <2>1, <2>2, <2>3, AwayKeeps DEF Calls
<1>4. SessionInv'
  BY DEF SInv, SessionInv
<1> QED BY <1>1, <1>2, <1>3, <1>4 DEF SInv, TypeInv

\* The user calls, or ends the program.
LEMMA UserKeeps ==
    ASSUME SInv, UserCalls \/ Shutdown
    PROVE  SInv'
<1> BoolType /\ WordType /\ CallType /\ FlagInv
  BY DEF SInv, TypeInv
<1> USE DEF flags, session
<1>1. PICK o \in Ops, m \in Modes : Calls("user", o, m)
  BY DEF UserCalls, Shutdown, Ops, Modes
<1>2. Shutdown => o = "stop"
  <2> SUFFICES ASSUME Shutdown PROVE o = "stop"
    OBVIOUS
  <2>1. op' = [op EXCEPT !["user"] = "stop"]
    BY DEF Shutdown, Calls
  <2>2. op' = [op EXCEPT !["user"] = o]
    BY <1>1 DEF Calls
  <2> QED BY <2>1, <2>2, CallersAre DEF CallType
<1>3. pc["user"] = "idle"
  BY DEF UserCalls, Shutdown
<1>4. WordType'
  BY DEF UserCalls, Shutdown, WordType
<1>5. /\ compat' \in BOOLEAN /\ closing' \in BOOLEAN /\ stopping' \in BOOLEAN
  BY Zenon DEF UserCalls, Shutdown, BoolType
<1>6. FlagInv'
  <2>1. /\ pc'["user"] = "waiting" /\ op'["user"] = o
        /\ \A d \in Callers \ {"user"} : pc'[d] = pc[d] /\ op'[d] = op[d]
    BY <1>1, CallersAre DEF Calls, CallType
  <2>2. ~closing
    BY <1>3 DEF FlagInv
  <2>3. UNCHANGED <<compat, stopping>> /\ (closing' => Shutdown)
    BY <2>2 DEF UserCalls, Shutdown
  <2> QED BY <1>2, <2>1, <2>2, <2>3, CallersAre DEF FlagInv
<1>7. RestartInv'
  <2>1. pc'["events"] = pc["events"] /\ op'["events"] = op["events"]
    BY <1>1, CallersAre DEF Calls, CallType
  <2>2. UNCHANGED <<applied, restarts>>
    BY DEF UserCalls, Shutdown
  <2> QED BY <2>1, <2>2 DEF SInv, RestartInv, Pending
<1> QED
  BY <1>1, <1>3, <1>4, <1>5, <1>6, <1>7, CallersAre, CallsKeep
  DEF UserCalls, Shutdown

\* The event loop takes up a fallback, or does not.
LEMMA EventKeeps ==
    ASSUME SInv, NEW f \in Fallbacks, HandleEvent(f)
    PROVE  SInv'
<1> BoolType /\ WordType /\ CallType /\ FlagInv /\ SessionInv
  BY DEF SInv, TypeInv
<1> USE DEF flags, session, callVars
<1>1. WordType'
  BY DEF HandleEvent, WordType
<1>2. CASE UNCHANGED <<applied, compat, callVars>>
  <2>1. BoolType'
    BY <1>2, Zenon DEF HandleEvent, BoolType
  <2>2. CallType' /\ SessionInv'
    BY <1>2 DEF HandleEvent, CallType, SessionInv
  <2> QED BY <1>1, <1>2, <2>1, <2>2, BackgroundKeeps
          DEF HandleEvent, Down, TypeInv
<1>3. CASE /\ ~Ignored(f)
           /\ applied' = applied \cup {f}
           /\ compat' = TRUE
           /\ Calls("events", "stop", "tun")
  <2>1. pc["events"] = "idle"
    BY DEF HandleEvent
  <2>2. /\ pc'["events"] = "waiting" /\ op'["events"] = "stop"
        /\ \A d \in Callers \ {"events"} : pc'[d] = pc[d] /\ op'[d] = op[d]
    BY <1>3, CallersAre DEF Calls, CallType
  <2>3. FlagInv'
    <3>1. compat' = TRUE /\ UNCHANGED <<stopping, closing>>
      BY <1>3 DEF HandleEvent
    <3> QED BY <2>2, <3>1, CallersAre DEF FlagInv
  <2>4. RestartInv'
    <3>1. Cardinality(applied') = Cardinality(applied) + 1
      BY <1>3, AppliedCounts DEF Ignored, WordType
    <3>2. restarts' = restarts /\ restarts \in Nat
      BY DEF HandleEvent, CallType
    <3>3. Cardinality(applied) \in Nat /\ restarts <= Cardinality(applied)
      BY AppliedCounts DEF SInv, RestartInv, WordType
    <3> QED BY <3>1, <3>2, <3>3 DEF RestartInv
  <2>5. compat' \in BOOLEAN /\ closing' \in BOOLEAN /\ stopping' \in BOOLEAN
    BY <1>3, Zenon DEF HandleEvent, BoolType
  <2> QED
    BY <1>1, <1>3, <2>1, <2>3, <2>4, <2>5, CallersAre, CallsKeep
    DEF HandleEvent, Ops, Modes
<1> QED BY <1>2, <1>3 DEF HandleEvent

\* Snapshot has looked at the TUN, and may call the watchdog.
LEMMA SnapshotKeeps ==
    ASSUME SInv, SnapshotEnds
    PROVE  SInv'
<1> BoolType /\ WordType /\ CallType /\ FlagInv /\ SessionInv
  BY DEF SInv, TypeInv
<1> USE DEF flags, session, callVars
<1>1. WordType'
  <2>1. failures' \in 0..(WatchdogLimit - 1)
    <3>1. \/ failures' = 0
          \/ failures' = failures
          \/ failures' = failures + 1 /\ failures + 1 < WatchdogLimit
      BY DEF SnapshotEnds
    <3>2. WatchdogLimit \in Nat \ {0}
      BY BoundsAssumption
    <3>3. failures \in 0..(WatchdogLimit - 1)
      BY DEF WordType
    <3>4. CASE failures' = failures + 1 /\ failures + 1 < WatchdogLimit
      BY <3>2, <3>3, <3>4
    <3>5. CASE failures' = 0 \/ failures' = failures
      BY <3>3, <3>5, Zeros
    <3> QED BY <3>1, <3>4, <3>5
  <2> QED BY <2>1, Zenon DEF SnapshotEnds, WordType
<1>2. CASE UNCHANGED <<stopping, callVars>>
  <2>1. BoolType'
    BY <1>2, Zenon DEF SnapshotEnds, BoolType
  <2>2. CallType' /\ SessionInv'
    BY <1>2 DEF SnapshotEnds, CallType, SessionInv
  <2> QED BY <1>1, <1>2, <2>1, <2>2, BackgroundKeeps
          DEF SnapshotEnds, Down, TypeInv
<1>3. CASE ~stopping /\ stopping' = TRUE /\ Calls("watchdog", "stop", "proxy")
  <2>1. pc["watchdog"] = "idle"
    BY <1>3 DEF FlagInv
  <2>2. /\ pc'["watchdog"] = "waiting"
        /\ \A d \in Callers \ {"watchdog"} : pc'[d] = pc[d] /\ op'[d] = op[d]
    BY <1>3, CallersAre DEF Calls, CallType
  <2>3. FlagInv'
    <3>1. stopping' = TRUE /\ UNCHANGED <<compat, closing>>
      BY <1>3 DEF SnapshotEnds
    <3> QED BY <2>2, <3>1, CallersAre DEF FlagInv
  <2>4. RestartInv'
    <3>1. UNCHANGED <<applied, restarts>>
      BY DEF SnapshotEnds
    <3> QED BY <2>2, <3>1, CallersAre DEF SInv, RestartInv, Pending
  <2>5. compat' \in BOOLEAN /\ closing' \in BOOLEAN /\ stopping' \in BOOLEAN
    BY <1>3, Zenon DEF SnapshotEnds, BoolType
  <2> QED
    BY <1>1, <1>3, <2>1, <2>3, <2>4, <2>5, CallersAre, CallsKeep
    DEF SnapshotEnds, Ops, Modes
<1> QED BY <1>2, <1>3 DEF SnapshotEnds, Stops

\* How a call ends: where its caller stands then, and what it is told.
LEMMA ReturnsTo ==
    ASSUME NEW c \in Callers, NEW error \in BOOLEAN, Returns(c, error)
    PROVE  \E q \in Away, o \in Ops, m \in Modes :
              /\ pc' = [pc EXCEPT ![c] = q]
              /\ op' = [op EXCEPT ![c] = o]
              /\ mode' = [mode EXCEPT ![c] = m]
              /\ late' = late \ {c}
              /\ began' = (began /\ gate \notin {c, Nobody})
              /\ \/ /\ c = "user" /\ ~closing /\ q = "idle"
                    /\ failed' = failed \ {c}
                    /\ UNCHANGED <<compat, stopping>>
                 \/ /\ c = "events" /\ op[c] = "stop" /\ q = "waiting"
                    /\ failed' = failed \ {c}
                    /\ UNCHANGED <<compat, stopping>>
                 \/ /\ c = "events" /\ op[c] = "start" /\ q = "idle"
                    /\ failed' = failed \ {c}
                    /\ compat' = FALSE /\ UNCHANGED stopping
                 \/ /\ c = "watchdog" /\ q = "idle"
                    /\ failed' = failed \ {c}
                    /\ stopping' = FALSE /\ UNCHANGED compat
                 \/ /\ c = "user" /\ closing /\ q = "exit" /\ o = "stop"
                    /\ failed' = IF error THEN failed \cup {c} ELSE failed
                    /\ UNCHANGED <<compat, stopping>>
<1> USE DEF Away, Ops, Modes
<1>1. CASE c = "user" /\ ~closing
  <2> WITNESS "idle" \in Away, "stop" \in Ops, "proxy" \in Modes
  <2> QED BY <1>1 DEF Returns, Rest
<1>2. CASE c = "events" /\ op[c] = "stop"
  <2> WITNESS "waiting" \in Away, "start" \in Ops, "tun" \in Modes
  <2> QED BY <1>2 DEF Returns, Calls
<1>3. CASE c = "events" /\ op[c] = "start"
  <2> WITNESS "idle" \in Away, "stop" \in Ops, "proxy" \in Modes
  <2> QED BY <1>3 DEF Returns, Rest
<1>4. CASE c = "watchdog"
  <2> WITNESS "idle" \in Away, "stop" \in Ops, "proxy" \in Modes
  <2> QED BY <1>4 DEF Returns, Rest
<1>5. CASE c = "user" /\ closing
  <2> WITNESS "exit" \in Away, "stop" \in Ops, "proxy" \in Modes
  <2> QED BY <1>5 DEF Returns, Rest
<1> QED BY <1>1, <1>2, <1>3, <1>4, <1>5 DEF Returns

\* A call that could not have the gate, or has come to its end.
LEMMA ReturnKeeps ==
    ASSUME SInv, NEW c \in Callers, GateTimeout(c) \/ Leave(c)
    PROVE  SInv'
<1> BoolType /\ WordType /\ CallType /\ GateInv /\ FlagInv /\ SessionInv
  BY DEF SInv, TypeInv
<1> USE DEF session
<1>0. PICK error \in BOOLEAN :
         Returns(c, error) /\ (error <=> GateTimeout(c))
  <2>1. ~(GateTimeout(c) /\ Leave(c))
    BY DEF GateTimeout, Leave, At
  <2> QED BY <2>1 DEF GateTimeout, Leave
<1>1. PICK q \in Away, o \in Ops, m \in Modes :
         /\ pc' = [pc EXCEPT ![c] = q]
         /\ op' = [op EXCEPT ![c] = o]
         /\ mode' = [mode EXCEPT ![c] = m]
         /\ late' = late \ {c}
         /\ began' = (began /\ gate \notin {c, Nobody})
         /\ \/ /\ c = "user" /\ ~closing /\ q = "idle"
               /\ failed' = failed \ {c}
               /\ UNCHANGED <<compat, stopping>>
            \/ /\ c = "events" /\ op[c] = "stop" /\ q = "waiting"
               /\ failed' = failed \ {c}
               /\ UNCHANGED <<compat, stopping>>
            \/ /\ c = "events" /\ op[c] = "start" /\ q = "idle"
               /\ failed' = failed \ {c}
               /\ compat' = FALSE /\ UNCHANGED stopping
            \/ /\ c = "watchdog" /\ q = "idle"
               /\ failed' = failed \ {c}
               /\ stopping' = FALSE /\ UNCHANGED compat
            \/ /\ c = "user" /\ closing /\ q = "exit" /\ o = "stop"
               /\ failed' = IF error THEN failed \cup {c} ELSE failed
               /\ UNCHANGED <<compat, stopping>>
  BY <1>0, ReturnsTo
<1>2. \A d \in Callers : /\ pc'[d] = IF d = c THEN q ELSE pc[d]
                         /\ op'[d] = IF d = c THEN o ELSE op[d]
  BY <1>1 DEF CallType
<1>3. /\ pc[c] \in {"waiting", "leave"}
      /\ \/ pc[c] \in Away /\ gate' = gate
         \/ gate = c /\ gate' = Nobody
      /\ UNCHANGED <<program, core, engine, tun, marker, closing, recovery>>
      /\ UNCHANGED <<setting, queue, poll>>
  BY DEF GateTimeout, Leave, At, Away
<1>4. BoolType'
  <2>1. began' \in BOOLEAN
    BY <1>1
  <2>2. compat' \in BOOLEAN /\ stopping' \in BOOLEAN
    BY <1>1, Zenon DEF BoolType
  <2> QED BY <1>3, <2>1, <2>2, Zenon DEF BoolType
<1>5. WordType'
  <2>1. applied' \in SUBSET Fallbacks
    BY DEF GateTimeout, Leave, Finish, KeptFlags, WordType
  <2>2. failures' \in 0..(WatchdogLimit - 1)
    BY Zeros DEF GateTimeout, Leave, Finish, WordType
  <2>3. phase' \in {"", "starting", "stopping"}
    BY DEF GateTimeout, Leave, WordType
  <2> QED BY <1>3, <2>1, <2>2, <2>3, Zenon DEF WordType
<1>6. CallType'
  <2>1. restarts' \in {restarts, 0}
    BY DEF GateTimeout, Leave, Pardons
  <2>2. failed' \in {failed, failed \ {c}, failed \cup {c}}
    BY <1>1
  <2> QED BY <1>1, <1>3, <2>1, <2>2, AwayType
<1>7. GateInv' /\ WaitInv' /\ CallInv' /\ (q # "exit" => ExitInv')
  <2>1. \A d \in Callers \ {c} : /\ d \in late' <=> d \in late
                                 /\ d \in failed' <=> d \in failed
    BY <1>1
  <2>2. q = "waiting" => c \notin failed'
    BY <1>1
  <2> QED BY <1>1, <1>3, <2>1, <2>2, AwayKeeps
<1>8. FlagInv'
  BY <1>1, <1>2, <1>3, CallersAre DEF FlagInv
<1>9. SessionInv'
  BY <1>3 DEF SessionInv
<1>10. ExitInv'
  <2> SUFFICES ASSUME q = "exit", "user" \notin failed'
               PROVE  ExitInv'
    BY <1>7, <1>2 DEF ExitInv
  <2>1. c = "user" /\ closing /\ ~error /\ "user" \notin failed
    BY <1>1
  <2>2. Leave(c)
    BY <1>0, <2>1
  <2>3. gate = c /\ pc[c] = "leave"
    BY <2>2 DEF Leave, At
  <2>4. op[c] = "stop"
    BY <2>1 DEF FlagInv
  <2>5. engine = "stopped"
    BY <2>1, <2>3, <2>4 DEF SInv, CallInv, StopOf
  <2>6. \A d \in Callers : pc'[d] \in Away
    BY <1>2, <2>3 DEF GateInv
  <2> QED BY <1>3, <2>5, <2>6 DEF ExitInv
<1>11. RestartInv'
  <2>0. /\ restarts \in Nat /\ Cardinality(applied) \in Nat
        /\ RestartInv
    BY AppliedCounts DEF CallType, WordType, SInv
  <2>1. Pending' => Pending
    BY <1>1, <1>2, <1>3, CallersAre DEF Pending, Opening
  <2>2. CASE UNCHANGED <<applied, restarts>>
    BY <2>0, <2>1, <2>2 DEF RestartInv
  <2>3. CASE Leave(c) /\ c = "events"
    <3>1. compat
      BY <1>3, <2>3 DEF FlagInv
    <3>2. UNCHANGED <<applied, restarts>>
      BY <2>3, <3>1 DEF Leave, Finish, KeptFlags, Pardons
    <3> QED BY <2>2, <3>2
  <2>4. CASE Leave(c) /\ c # "events"
    <3>1. restarts' = 0
      BY <2>4 DEF Leave, Pardons
    <3>2. CASE applied' = applied
      BY <2>0, <2>1, <3>1, <3>2 DEF RestartInv
    <3>3. CASE applied' # applied
      <4>1. applied' = {} /\ ~compat
        BY <2>4, <3>3 DEF Leave, Finish, KeptFlags
      <4>2. pc'["events"] = "idle"
        BY <1>2, <2>4, <4>1, CallersAre DEF FlagInv
      <4>3. ~Pending'
        BY <4>2 DEF Pending, Opening
      <4> QED BY <3>1, <4>1, <4>3, Zeros, Zenon DEF RestartInv
    <3> QED BY <3>2, <3>3
  <2> QED BY <2>2, <2>3, <2>4 DEF GateTimeout
<1> QED
  BY <1>4, <1>5, <1>6, <1>7, <1>8, <1>9, <1>10, <1>11 DEF SInv, TypeInv

-----------------------------------------------------------------------------
(* The holder of the gate                                                  *)

\* Whoever has the gate now, and moves, disturbs nobody else; of itself, of
\* the session and of the restarts there is more to show.
LEMMA HolderKeeps ==
    ASSUME SInv, NEW c \in Callers, NEW q \in Holding,
           gate \in {c, Nobody}, gate' = c, pc[c] # "idle",
           pc' = [pc EXCEPT ![c] = q],
           failed' \in {failed, failed \cup {c}},
           UNCHANGED <<compat, closing, stopping, op>>,
           TypeInv', PlaceOf(c)', StopOf(c)', UndoOf(c)', SessionInv',
           pc["user"] = "exit" /\ "user" \notin failed =>
                engine' = "stopped" /\ (op[c] = "start" => q = "leave"),
           RestartInv'
    PROVE  SInv'
<1> CallType /\ GateInv /\ FlagInv
  BY DEF SInv, TypeInv
<1>1. \A d \in Callers : pc'[d] = IF d = c THEN q ELSE pc[d]
  BY DEF CallType
<1>2. q \notin Away
  BY DEF Holding, Working, Opening, Forward, Closing, Away
<1>3. \A d \in Callers \ {c} : pc[d] \in Away
  BY DEF GateInv
<1>4. GateInv'
  BY <1>1, <1>2, <1>3 DEF GateInv
<1>5. FlagInv'
  <2>1. q # "idle" /\ q # "exit"
    BY <1>2 DEF Away
  <2>2. \A d \in Callers : pc'[d] = "idle" <=> pc[d] = "idle"
    BY <1>1, <2>1
  <2>3. \A d \in Callers : pc'[d] = "exit" => pc[d] = "exit"
    BY <1>1, <2>1
  <2> QED BY <2>2, <2>3, CallersAre DEF FlagInv
<1>6. CallInv'
  <2> SUFFICES ASSUME NEW d \in Callers, d # c
               PROVE  (PlaceOf(d) /\ StopOf(d) /\ UndoOf(d))'
    BY DEF CallInv
  <2>1. pc'[d] \notin Holding
    BY <1>1, <1>3 DEF Holding, Working, Opening, Forward, Closing, Away
  <2> QED BY <2>1 DEF PlaceOf, StopOf, UndoOf, Holding, Working, Opening,
                      Forward, Closing
<1>7. ExitInv'
  <2> SUFFICES ASSUME pc'["user"] = "exit", "user" \notin failed'
               PROVE  /\ engine' = "stopped"
                      /\ \A d \in Callers : op'[d] = "start" =>
                            pc'[d] \in Away \cup {"leave"}
    BY DEF ExitInv
  <2>1. pc["user"] = "exit" /\ "user" \notin failed
    BY <1>1, <1>2, CallersAre DEF Away
  <2> QED BY <1>1, <1>3, <2>1
<1>8. WaitInv'
  BY <1>1, <1>2 DEF SInv, WaitInv, Away
<1> QED BY <1>4, <1>5, <1>6, <1>7, <1>8 DEF SInv

\* One that is at work goes on to q.
Goes(c, q) ==
    /\ gate = c /\ pc[c] \in Working
    /\ pc' = [pc EXCEPT ![c] = q]
    /\ failed' \in {failed, failed \cup {c}}
    /\ UNCHANGED <<program, gate, phase, flags, queue, poll, op, mode, late>>

LEMMA WorkKeeps ==
    ASSUME SInv, NEW c \in Callers, NEW q \in Holding, Goes(c, q),
           PlaceOf(c)', StopOf(c)', UndoOf(c)', SessionInv',
           engine' \in {"stopped", "starting", "running", "stopping", "failed"},
           core' \in {"down", "plain", "elevated"},
           setting' \in Modes,
           tun' \in BOOLEAN, marker' \in BOOLEAN, began' \in BOOLEAN,
           op[c] # "start" /\ engine = "stopped" => engine' = "stopped",
           q \in Opening \ {"starting"} => pc[c] \in Opening \ {"starting"},
           \/ restarts' = restarts
           \/ /\ c = "events" /\ pc[c] = "start" /\ q = "starting"
              /\ restarts' = restarts + 1
    PROVE  SInv'
<1> BoolType /\ WordType /\ CallType
  BY DEF SInv, TypeInv
<1>1. TypeInv'
  <2>1. BoolType'
    BY Zenon DEF Goes, flags, BoolType
  <2>2. WordType'
    BY Zenon DEF Goes, flags, WordType
  <2>3. CallType'
    BY DEF Goes, CallType
  <2> QED BY <2>1, <2>2, <2>3 DEF TypeInv
<1>2. pc["user"] = "exit" /\ "user" \notin failed =>
        engine' = "stopped" /\ (op[c] = "start" => q = "leave")
  <2>1. pc[c] \notin Away \cup {"leave"}
    BY DEF Goes, Working, Opening, Forward, Closing, Away
  <2> QED BY <2>1 DEF SInv, ExitInv
<1>3. RestartInv'
  <2>0. /\ restarts \in Nat /\ Cardinality(applied) \in Nat
        /\ RestartInv /\ PlaceOf(c)
        /\ applied' = applied
    BY AppliedCounts DEF CallType, WordType, SInv, CallInv, Goes, flags
  <2>1. /\ pc'[c] = q
        /\ \A d \in Callers \ {c} : pc'[d] = pc[d]
        /\ op' = op
    BY DEF CallType, Goes
  <2>2. CASE restarts' = restarts
    <3>1. pc[c] # "idle"
      BY DEF Goes, Working, Opening, Forward, Closing
    <3>2. Pending' => Pending
      BY <2>1, <3>1, CallersAre
      DEF Pending, Opening, Holding, Working, Forward, Closing
    <3> QED BY <2>0, <2>2, <3>2 DEF RestartInv
  <2>3. CASE /\ c = "events" /\ pc[c] = "start" /\ q = "starting"
             /\ restarts' = restarts + 1
    <3>1. op["events"] = "start"
      BY <2>0, <2>3 DEF PlaceOf, Opening
    <3>2. Pending /\ ~Pending'
      BY <2>1, <2>3, <3>1, CallersAre DEF Pending, Opening
    <3> QED BY <2>0, <2>3, <3>2 DEF RestartInv
  <2> QED BY <2>2, <2>3
<1>4. pc[c] # "idle" /\ UNCHANGED <<compat, closing, stopping, op>>
  BY DEF Goes, Working, Opening, Forward, Closing, flags
<1> QED BY <1>1, <1>2, <1>3, <1>4, HolderKeeps DEF Goes

\* A call takes the gate.
LEMMA BeginKeeps ==
    ASSUME SInv, NEW c \in Callers,
           StartBegin(c) \/ StopBegin(c) \/ RepairBegin(c)
    PROVE  SInv'
<1> BoolType /\ WordType /\ CallType /\ FlagInv /\ WaitInv
  BY DEF SInv, TypeInv
<1>0. Acquire(c)
  BY DEF StartBegin, StopBegin, RepairBegin
<1>1. /\ pc[c] = "waiting" /\ gate = Nobody /\ gate' = c /\ began' = FALSE
      /\ UNCHANGED <<program, core, compat, closing, recovery, stopping>>
      /\ UNCHANGED <<failures, setting, queue, poll, op, mode, late>>
      /\ UNCHANGED <<engine, tun, marker>>
  BY <1>0 DEF Acquire, session
<1>2. PICK q \in {"ensure", "leave"} :
         /\ pc' = [pc EXCEPT ![c] = q]
         /\ failed' = IF q = "leave" THEN failed \cup {c} ELSE failed
         /\ op[c] = "start" /\ closing => q = "leave"
         /\ op[c] = "stop" => q = "ensure"
  BY <1>1
  DEF StartBegin, StopBegin, RepairBegin, Preflight, MayStart, Step, Fail
<1>3. /\ applied' \in {applied, KeptFlags}
      /\ phase' \in {phase, "starting", "stopping"}
  BY DEF StartBegin, StopBegin, RepairBegin
<1>4. q \in Holding
  BY DEF Holding, Working, Opening
<1>5. TypeInv'
  <2>1. BoolType'
    BY <1>1, Zenon DEF BoolType
  <2>2. applied' \in SUBSET Fallbacks /\ phase' \in {"", "starting", "stopping"}
    BY <1>3 DEF WordType, KeptFlags
  <2>3. WordType'
    BY <1>1, <2>2, Zenon DEF WordType
  <2>4. restarts' \in Nat
    BY <1>0 DEF Acquire, Pardons, CallType
  <2>5. CallType'
    BY <1>1, <1>2, <1>4, <2>4 DEF CallType
  <2> QED BY <2>1, <2>3, <2>5 DEF TypeInv
<1>6. /\ pc'[c] = q /\ op' = op
      /\ \A d \in Callers \ {c} : pc'[d] = pc[d]
  BY <1>1, <1>2 DEF CallType
<1>7. PlaceOf(c)'
  BY <1>1, <1>2, <1>6
  DEF PlaceOf, WaitInv, Forward, Opening, Closing
<1>8. StopOf(c)'
  BY <1>1, <1>2, <1>6 DEF StopOf
<1>9. UndoOf(c)'
  BY <1>1, <1>2, <1>6 DEF UndoOf, Closing
<1>10. SessionInv'
  BY <1>1 DEF SInv, SessionInv
<1>11. pc["user"] = "exit" /\ "user" \notin failed =>
         engine' = "stopped" /\ (op[c] = "start" => q = "leave")
  BY <1>1, <1>2, CallersAre DEF SInv, ExitInv, FlagInv
<1>12. RestartInv'
  <2>0. /\ restarts \in Nat /\ Cardinality(applied) \in Nat
        /\ RestartInv
    BY AppliedCounts DEF CallType, WordType, SInv
  <2>1. CASE c = "events"
    <3>1. applied' = applied
      BY <1>1, <1>3, <2>1 DEF FlagInv, KeptFlags
    <3>2. restarts' = restarts
      BY <1>0, <2>1 DEF Acquire, Pardons
    <3>3. Pending' => Pending
      BY <1>1, <1>6, <2>1 DEF Pending, Opening
    <3> QED BY <2>0, <3>1, <3>2, <3>3 DEF RestartInv
  <2>2. CASE c # "events"
    <3>1. restarts' = 0
      BY <1>0, <2>2 DEF Acquire, Pardons
    <3>2. Pending' => Pending
      BY <1>6, <2>2, CallersAre DEF Pending
    <3>3. CASE applied' = applied
      BY <2>0, <3>1, <3>2, <3>3 DEF RestartInv
    <3>4. CASE applied' # applied
      <4>1. applied' = {} /\ ~compat
        BY <1>3, <3>4 DEF KeptFlags
      <4>2. ~Pending'
        BY <3>2, <4>1 DEF Pending, Opening, FlagInv
      <4> QED BY <3>1, <4>1, <4>2, Zeros, Zenon DEF RestartInv
    <3> QED BY <3>3, <3>4
  <2> QED BY <2>1, <2>2
<1> QED
  <2>1. pc[c] # "idle" /\ failed' \in {failed, failed \cup {c}}
    BY <1>1, <1>2
  <2> QED BY <1>1, <1>2, <1>4, <1>5, <1>6, <1>7, <1>8, <1>9, <1>10, <1>11,
             <1>12, <2>1, HolderKeeps

\* Where the one that goes on stands then.
LEMMA GoesTo ==
    ASSUME CallType, NEW c \in Callers, NEW q \in Holding, Goes(c, q)
    PROVE  pc'[c] = q /\ op'[c] = op[c] /\ (c \in late' <=> c \in late)
  BY DEF CallType, Goes

\* What is known of the one that goes on.
LEMMA Known ==
    ASSUME SInv, NEW c \in Callers
    PROVE  /\ BoolType /\ WordType /\ CallType /\ SessionInv
           /\ PlaceOf(c) /\ StopOf(c) /\ UndoOf(c)
  BY DEF SInv, TypeInv, CallInv

\* A step that leaves the core, its session and the marker alone.
LEMMA QuietKeeps ==
    ASSUME SInv, NEW c \in Callers, NEW q \in Holding, Goes(c, q),
           UNCHANGED <<core, engine, tun, marker, began, restarts>>,
           setting' \in Modes,
           PlaceOf(c)', StopOf(c)', UndoOf(c)',
           q \in Opening \ {"starting"} => pc[c] \in Opening \ {"starting"}
    PROVE  SInv'
<1> BoolType /\ WordType /\ SessionInv
  BY Known
<1>1. SessionInv'
  BY DEF SessionInv
<1>2. /\ tun' \in BOOLEAN /\ marker' \in BOOLEAN /\ began' \in BOOLEAN
  BY Zenon DEF BoolType
<1>3. /\ engine' \in {"stopped", "starting", "running", "stopping", "failed"}
      /\ core' \in {"down", "plain", "elevated"}
  BY DEF WordType
<1> QED BY <1>1, <1>2, <1>3, WorkKeeps

\* The steps of a Start that ask nothing of the core.
LEMMA QuietSteps ==
    ASSUME SInv, NEW c \in Callers,
           \/ UpdateMode(c) \/ Status(c) \/ Resolve(c) \/ Probe(c)
    PROVE  SInv'
<1> BoolType /\ WordType /\ CallType /\ PlaceOf(c)
  BY Known
<1> USE DEF session, Alone, At, Step, Fail
<1>1. PICK q \in {"status", "clear", "start", "activate", "leave", "deactivate"} :
         /\ Goes(c, q)
         /\ q \in {"status", "clear", "start", "activate"} => failed' = failed
         /\ q \in {"status", "clear", "start"} =>
                pc[c] \in Opening \ {"starting"}
         /\ q = "leave" =>
                \/ pc[c] \in Opening \/ (pc[c] = "probe" /\ failed' = failed)
         /\ q \in {"activate", "deactivate"} => pc[c] \in Forward
         /\ pc[c] \in Forward \cup (Opening \ {"ensure"})
  <2> USE DEF Goes, flags, Working, Opening, Forward
  <2>1. CASE UpdateMode(c)
    BY <2>1, Zenon DEF UpdateMode
  <2>2. CASE Status(c)
    BY <2>2 DEF Status
  <2>3. CASE Resolve(c)
    BY <2>3 DEF Resolve
  <2>4. CASE Probe(c)
    BY <2>4 DEF Probe
  <2> QED BY <2>1, <2>2, <2>3, <2>4
<1>2. /\ UNCHANGED <<core, engine, tun, marker, began, restarts>>
      /\ setting' \in Modes
  <2>1. UNCHANGED <<core, engine, tun, marker, began, restarts>>
    BY Zenon DEF UpdateMode, Status, Resolve, Probe
  <2>2. setting' = setting \/ setting' = mode[c]
    BY Zenon DEF UpdateMode, Status, Resolve, Probe
  <2>3. mode[c] \in Modes /\ setting \in Modes
    BY DEF CallType, WordType
  <2> QED BY <2>1, <2>2, <2>3
<1>3. q \in Holding
  BY DEF Holding, Working, Opening, Forward, Closing
<1>4. /\ pc'[c] = q /\ op'[c] = op[c] /\ (c \in late' <=> c \in late)
      /\ op[c] = "start"
  BY <1>1, <1>3, GoesTo DEF PlaceOf
<1>5. PlaceOf(c)'
  BY <1>1, <1>2, <1>4 DEF PlaceOf, Opening, Forward, Closing
<1>6. StopOf(c)'
  BY <1>4 DEF StopOf
<1>7. UndoOf(c)'
  BY <1>1, <1>2, <1>4 DEF UndoOf, PlaceOf, Closing, Forward, Opening
<1>8. q \in Opening \ {"starting"} => pc[c] \in Opening \ {"starting"}
  BY <1>1 DEF Opening
<1> QED BY <1>1, <1>2, <1>3, <1>5, <1>6, <1>7, <1>8, QuietKeeps

\* The core that a call needs, and its launch.
LEMMA EnsureKeeps ==
    ASSUME SInv, NEW c \in Callers, Ensure(c) \/ EnsureFails(c)
    PROVE  SInv'
<1> /\ BoolType /\ WordType /\ CallType /\ SessionInv
    /\ PlaceOf(c) /\ StopOf(c) /\ UndoOf(c)
  BY Known
<1> USE DEF session, Alone, At, Step, Fail
<1>0. pc[c] = "ensure" /\ op[c] \in Ops
  BY DEF Ensure, EnsureFails, CallType, Ops
<1>1. PICK q \in {"mode", "deactivate", "repair", "restore", "leave"} :
         /\ Goes(c, q)
         /\ q = "mode" => op[c] = "start" /\ failed' = failed
         /\ q = "deactivate" => op[c] = "stop"
         /\ q = "repair" => op[c] = "repair"
         /\ q = "restore" => op[c] = "stop" /\ c \in failed'
         /\ q = "leave" => c \in failed'
  <2> USE <1>0 DEF Goes, flags, Working, Opening
  <2>1. CASE Ensure(c)
    <3>1. CASE op[c] = "start"
      BY <2>1, <3>1 DEF Ensure
    <3>2. CASE op[c] = "stop"
      BY <2>1, <3>2 DEF Ensure
    <3>3. CASE op[c] = "repair"
      BY <2>1, <3>3 DEF Ensure
    <3> QED BY <3>1, <3>2, <3>3 DEF Ops
  <2>2. CASE EnsureFails(c)
    BY <2>2 DEF EnsureFails
  <2> QED BY <2>1, <2>2
<1>2. UNCHANGED <<setting, began, marker, restarts>>
  BY DEF Ensure, EnsureFails
<1>3. \/ UNCHANGED <<core, engine, tun>>
      \/ /\ core' \in {"down", "plain", "elevated"}
         /\ engine' = "stopped" /\ tun' = FALSE
  BY DEF Ensure, EnsureFails, CoreGone
<1>4. q \in Holding
  BY DEF Holding, Working, Opening, Forward, Closing
<1>5. pc'[c] = q /\ op'[c] = op[c]
  BY <1>1, <1>4, GoesTo
<1>6. PlaceOf(c)'
  BY <1>0, <1>1, <1>2, <1>5 DEF PlaceOf, Opening, Forward, Closing
<1>7. StopOf(c)'
  BY <1>1, <1>5 DEF StopOf
<1>8. UndoOf(c)'
  BY <1>0, <1>1, <1>2, <1>5 DEF UndoOf, PlaceOf, Closing, Opening
<1>9. SessionInv'
  BY <1>3 DEF SessionInv
<1>10. /\ engine' \in {"stopped", "starting", "running", "stopping", "failed"}
       /\ core' \in {"down", "plain", "elevated"}
       /\ setting' \in Modes
  BY <1>2, <1>3 DEF WordType
<1>11. tun' \in BOOLEAN /\ marker' \in BOOLEAN /\ began' \in BOOLEAN
  BY <1>2, <1>3, Zenon DEF BoolType
<1>12. q \in Opening \ {"starting"} => pc[c] \in Opening \ {"starting"}
  BY <1>0 DEF Opening
<1>13. engine = "stopped" => engine' = "stopped"
  BY <1>3
<1> QED BY <1>1, <1>2, <1>4, <1>6, <1>7, <1>8, <1>9, <1>10, <1>11, <1>12,
           <1>13, WorkKeeps

\* A failed engine is cleared, and the engine is started.
LEMMA StartKeeps ==
    ASSUME SInv, NEW c \in Callers,
           ClearCore(c) \/ RequestStart(c) \/ StartReply(c)
    PROVE  SInv'
<1> /\ BoolType /\ WordType /\ CallType /\ SessionInv
    /\ PlaceOf(c) /\ StopOf(c) /\ UndoOf(c)
  BY Known
<1> USE DEF session, Alone, At, Step, Fail
<1>0. pc[c] \in {"clear", "start", "starting"} /\ op[c] = "start"
  BY DEF ClearCore, RequestStart, StartReply, PlaceOf, Opening
<1>1. PICK q \in {"start", "starting", "enable", "resolve", "leave"} :
         /\ Goes(c, q)
         /\ q # "leave" => failed' = failed
         /\ q \in {"start", "starting", "leave"} => ~began'
         /\ q = "start" => pc[c] = "clear"
         /\ \/ UNCHANGED restarts
            \/ /\ c = "events" /\ pc[c] = "start" /\ q = "starting"
               /\ restarts' = restarts + 1
  <2> USE <1>0 DEF Goes, flags, Working, Opening
  <2>0. ~began
    BY DEF PlaceOf
  <2>1. CASE ClearCore(c)
    BY <2>0, <2>1 DEF ClearCore
  <2>2. CASE RequestStart(c)
    BY <2>0, <2>2 DEF RequestStart
  <2>3. CASE StartReply(c)
    <3>1. restarts' = restarts
      BY <2>3, Zenon DEF StartReply
    <3>2. CASE engine' = "running" /\ StartEnded
      BY <2>3, <3>1, <3>2 DEF StartReply, StartEnded, Moves, Unanswered
    <3>3. CASE pc' = [pc EXCEPT ![c] = "leave"]
      <4>1. ~began'
        BY <2>0, <2>3, <3>3 DEF StartReply, CallType
      <4> QED BY <2>3, <3>1, <3>3, <4>1, Zenon DEF StartReply
    <3>4. pc' = [pc EXCEPT ![c] = "leave"] \/ (engine' = "running" /\ StartEnded)
      BY <2>3, Zenon DEF StartReply
    <3> QED BY <3>2, <3>3, <3>4
  <2> QED BY <2>1, <2>2, <2>3
<1>2. UNCHANGED <<setting, marker, core>> /\ began' \in BOOLEAN
  BY Zenon DEF ClearCore, RequestStart, StartReply, BoolType
<1>3. \/ Cleared \/ (Ready /\ StartAccepted) \/ StartEnded
      \/ UNCHANGED <<engine, tun>>
  BY DEF ClearCore, RequestStart, StartReply
<1>4. q \in Holding
  BY DEF Holding, Working, Opening, Forward, Closing
<1>5. pc'[c] = q /\ op'[c] = op[c]
  BY <1>1, <1>4, GoesTo
<1>6. PlaceOf(c)'
  BY <1>0, <1>1, <1>5 DEF PlaceOf, Opening, Forward, Closing
<1>7. StopOf(c)'
  BY <1>0, <1>5 DEF StopOf
<1>8. UndoOf(c)'
  BY <1>1, <1>5 DEF UndoOf, Closing
<1>9. /\ SessionInv'
      /\ engine' \in {"stopped", "starting", "running", "stopping", "failed"}
  <2>1. CASE Cleared
    BY <1>2, <2>1 DEF SessionInv, Cleared, Moves
  <2>2. CASE Ready /\ StartAccepted
    BY <1>2, <2>2 DEF SessionInv, StartAccepted, Moves, Ready
  <2>3. CASE StartEnded
    BY <1>2, <2>3 DEF SessionInv, StartEnded, Moves
  <2>4. CASE UNCHANGED <<engine, tun>>
    BY <1>2, <2>4 DEF SessionInv, WordType
  <2> QED BY <1>3, <2>1, <2>2, <2>3, <2>4
<1>10. core' \in {"down", "plain", "elevated"} /\ setting' \in Modes
  BY <1>2 DEF WordType
<1>11. tun' \in BOOLEAN /\ marker' \in BOOLEAN
  BY <1>2, <1>3, Zenon
  DEF BoolType, Cleared, StartAccepted, StartEnded
<1>12. q \in Opening \ {"starting"} => pc[c] \in Opening \ {"starting"}
  BY <1>1 DEF Opening
<1> QED BY <1>0, <1>1, <1>2, <1>4, <1>6, <1>7, <1>8, <1>9, <1>10, <1>11,
           <1>12, WorkKeeps

\* The proxy and the sidecar of an engine that has started.
LEMMA ForwardKeeps ==
    ASSUME SInv, NEW c \in Callers, Enable(c) \/ Activate(c)
    PROVE  SInv'
<1> /\ BoolType /\ WordType /\ CallType /\ SessionInv
    /\ PlaceOf(c) /\ StopOf(c) /\ UndoOf(c)
  BY Known
<1> USE DEF session, Alone, At, Step, Fail
<1>0. pc[c] \in {"enable", "activate"} /\ op[c] = "start" /\ c \notin failed
  BY DEF Enable, Activate, PlaceOf, Forward
<1>1. PICK q \in {"leave", "probe", "deactivate"} :
         Goes(c, q) /\ (q # "deactivate" => failed' = failed)
  <2> USE <1>0 DEF Goes, flags, Working, Forward
  <2>1. CASE Enable(c)
    BY <2>1 DEF Enable
  <2>2. CASE Activate(c)
    BY <2>2 DEF Activate
  <2> QED BY <2>1, <2>2
<1>2. UNCHANGED <<setting, core, began, restarts>>
  BY Zenon DEF Enable, Activate
<1>3. Activated \/ EngineFailed \/ UNCHANGED <<engine, tun>>
  BY DEF Enable, Activate
<1>4. q \in Holding
  BY DEF Holding, Working, Opening, Forward, Closing
<1>5. pc'[c] = q /\ op'[c] = op[c]
  BY <1>1, <1>4, GoesTo
<1>6. PlaceOf(c)'
  BY <1>0, <1>1, <1>5 DEF PlaceOf, Opening, Forward, Closing
<1>7. StopOf(c)'
  BY <1>0, <1>5 DEF StopOf
<1>8. UndoOf(c)'
  BY <1>0, <1>1, <1>5 DEF UndoOf, Closing
<1>9. /\ SessionInv'
      /\ engine' \in {"stopped", "starting", "running", "stopping", "failed"}
  <2>1. CASE Activated
    BY <1>2, <2>1 DEF SessionInv, Activated
  <2>2. CASE EngineFailed
    BY <1>2, <2>2 DEF SessionInv, EngineFailed, Moves
  <2>3. CASE UNCHANGED <<engine, tun>>
    BY <1>2, <2>3 DEF SessionInv, WordType
  <2> QED BY <1>3, <2>1, <2>2, <2>3
<1>10. core' \in {"down", "plain", "elevated"} /\ setting' \in Modes
  BY <1>2 DEF WordType
<1>11. tun' \in BOOLEAN /\ marker' \in BOOLEAN /\ began' \in BOOLEAN
  <2>1. marker' = TRUE \/ marker' = marker
    BY Zenon DEF Enable, Activate, EnableProxy
  <2>2. tun' = TRUE \/ tun' = tun
    BY <1>3 DEF Activated, EngineFailed
  <2> QED BY <1>2, <2>1, <2>2, Zenon DEF BoolType
<1>12. q \in Opening \ {"starting"} => pc[c] \in Opening \ {"starting"}
  BY DEF Opening
<1> QED BY <1>0, <1>1, <1>2, <1>4, <1>6, <1>7, <1>8, <1>9, <1>10, <1>11,
           <1>12, WorkKeeps

\* The way down, of a Stop and of a Start that has failed.
LEMMA StopKeeps ==
    ASSUME SInv, NEW c \in Callers,
           Deactivate(c) \/ RequestStop(c) \/ StopReply(c)
    PROVE  SInv'
<1> /\ BoolType /\ WordType /\ CallType /\ SessionInv
    /\ PlaceOf(c) /\ StopOf(c) /\ UndoOf(c)
  BY Known
<1> USE DEF session, Alone, At, Step, Fail
<1>0. pc[c] \in {"deactivate", "stop", "stopping"} /\ op[c] # "repair"
  BY DEF Deactivate, RequestStop, StopReply, PlaceOf, Closing
<1>1. PICK q \in {"stop", "stopping", "restore"} :
         /\ Goes(c, q)
         /\ q = "stop" => Deactivate(c)
         /\ q # "stop" => pc[c] \in {"stop", "stopping"}
         /\ q = "restore" => engine' = "stopped" \/ c \in failed'
  <2> USE <1>0 DEF Goes, flags, Working, Closing
  <2>1. CASE Deactivate(c)
    BY <2>1 DEF Deactivate
  <2>2. CASE RequestStop(c)
    BY <2>2 DEF RequestStop, Cleared, Moves
  <2>3. CASE StopReply(c)
    <3>1. Goes(c, "restore")
      BY <2>3 DEF StopReply
    <3>2. engine' = "stopped" \/ c \in failed'
      BY <2>3 DEF StopReply
    <3> QED BY <2>3, <3>1, <3>2 DEF StopReply
  <2> QED BY <2>1, <2>2, <2>3
<1>2. UNCHANGED <<setting, core, began, marker, restarts>>
  BY Zenon DEF Deactivate, RequestStop, StopReply
<1>3. \/ Ready /\ tun' = FALSE /\ UNCHANGED engine
      \/ Ready /\ q = "stopping" /\ StopAccepted
      \/ Cleared
      \/ q = "restore" /\ engine = "stopped" /\ UNCHANGED <<engine, tun>>
      \/ q = "restore" /\ StopEnded
      \/ Unanswered(c) /\ UNCHANGED <<engine, tun>>
  <2>0. CallType /\ pc'[c] = q
    BY <1>1 DEF CallType, Goes
  <2>1. CASE Deactivate(c)
    BY <2>1 DEF Deactivate
  <2>2. CASE RequestStop(c)
    BY <2>0, <2>2 DEF RequestStop, CallType
  <2>3. CASE StopReply(c)
    BY <2>0, <2>3 DEF StopReply, CallType
  <2> QED BY <2>1, <2>2, <2>3
<1>4. q \in Holding
  BY DEF Holding, Working, Opening, Forward, Closing
<1>5. pc'[c] = q /\ op'[c] = op[c] /\ (c \in late' <=> c \in late)
  BY <1>1, <1>4, GoesTo
<1>6. PlaceOf(c)'
  BY <1>0, <1>5 DEF PlaceOf, Opening, Forward, Closing
<1>7. StopOf(c)'
  BY <1>1, <1>5 DEF StopOf
<1>8. UndoOf(c)'
  <2> SUFFICES ASSUME op[c] = "start", c \notin late
               PROVE  ~tun' /\ (q # "stop" => Down')
    BY <1>5 DEF UndoOf, Closing
  <2>1. q # "stop" => ~tun
    BY <1>1 DEF UndoOf, Closing
  <2>2. Unanswered(c) => engine = "stopped" /\ ~tun
    BY DEF Unanswered, SessionInv
  <2>3. CASE q = "stop"
    <3>1. tun' = FALSE \/ (Unanswered(c) /\ tun' = tun)
      BY <1>1, <2>3 DEF Deactivate
    <3> QED BY <2>2, <2>3, <3>1
  <2>4. CASE q # "stop"
    <3>1. RequestStop(c) \/ StopReply(c)
      BY <1>1, <2>4 DEF Deactivate
    <3>2. tun' => tun
      BY <3>1 DEF RequestStop, StopReply, StopAccepted, Cleared, StopEnded
    <3>3. \/ engine' \in {"stopping", "stopped", "failed"}
          \/ Unanswered(c) /\ engine' = engine
      BY <3>1 DEF RequestStop, StopReply, StopAccepted, Cleared, StopEnded,
                  Moves
    <3> QED BY <2>1, <2>2, <2>4, <3>2, <3>3 DEF Down
  <2> QED BY <2>3, <2>4
<1>9. /\ SessionInv'
      /\ engine' \in {"stopped", "starting", "running", "stopping", "failed"}
      /\ engine = "stopped" => engine' = "stopped"
  <2>1. CASE tun' = FALSE /\ UNCHANGED engine
    BY <1>2, <2>1 DEF SessionInv, WordType
  <2>2. CASE Ready /\ StopAccepted
    BY <1>2, <2>2 DEF Ready, SessionInv, StopAccepted, Moves
  <2>3. CASE Cleared \/ StopEnded
    BY <1>2, <2>3 DEF SessionInv, Cleared, StopEnded, Moves
  <2>4. CASE UNCHANGED <<engine, tun>>
    BY <1>2, <2>4 DEF SessionInv, WordType
  <2> QED BY <1>3, <2>1, <2>2, <2>3, <2>4
<1>10. core' \in {"down", "plain", "elevated"} /\ setting' \in Modes
  BY <1>2 DEF WordType
<1>11. tun' \in BOOLEAN /\ marker' \in BOOLEAN /\ began' \in BOOLEAN
  <2>1. tun' = FALSE \/ tun' = tun
    BY <1>3 DEF StopAccepted, Cleared, StopEnded
  <2> QED BY <1>2, <2>1, Zenon DEF BoolType
<1>12. q \in Opening \ {"starting"} => pc[c] \in Opening \ {"starting"}
  BY DEF Opening
<1> QED BY <1>1, <1>2, <1>4, <1>6, <1>7, <1>8, <1>9, <1>10, <1>11,
           <1>12, WorkKeeps

\* The proxy is brought back, or the elevated core has repaired the WFP.
LEMMA LastKeeps ==
    ASSUME SInv, NEW c \in Callers, Restore(c) \/ Repair(c)
    PROVE  SInv'
<1> /\ BoolType /\ WordType /\ CallType /\ SessionInv
    /\ PlaceOf(c) /\ StopOf(c) /\ UndoOf(c)
  BY Known
<1> USE DEF session, Alone, At, Step, Fail
<1>1. Goes(c, "leave")
  BY DEF Restore, Repair, Goes, flags, Working, Closing
<1>2. UNCHANGED <<setting, began, restarts>>
  BY Zenon DEF Restore, Repair
<1>3. \/ UNCHANGED <<core, engine, tun>>
      \/ core' = "down" /\ engine' = "stopped" /\ tun' = FALSE
  BY DEF Restore, Repair, CoreGone
<1>4. "leave" \in Holding
  BY DEF Holding
<1>5. pc'[c] = "leave" /\ op'[c] = op[c] /\ (c \in late' <=> c \in late)
  BY <1>1, <1>4, GoesTo
<1>6. PlaceOf(c)'
  BY <1>5 DEF PlaceOf, Opening, Forward, Closing
<1>7. StopOf(c)' /\ UndoOf(c)'
  <2>1. CASE Restore(c)
    <3>1. pc[c] = "restore" /\ UNCHANGED <<engine, tun>>
      BY <2>1 DEF Restore
    <3>2. ~marker' \/ c \in failed'
      BY <2>1 DEF Restore, RestoreProxy
    <3>3. c \notin failed' => c \notin failed
      BY <1>1 DEF Goes
    <3>4. StopOf(c)'
      BY <1>5, <3>1, <3>2, <3>3 DEF StopOf
    <3>5. UndoOf(c)'
      BY <1>5, <3>1 DEF UndoOf, Closing, Down
    <3> QED BY <3>4, <3>5
  <2>2. CASE Repair(c)
    <3>1. op[c] = "repair"
      BY <2>2 DEF Repair, PlaceOf
    <3> QED BY <1>5, <3>1 DEF StopOf, UndoOf
  <2> QED BY <2>1, <2>2
<1>8. SessionInv'
  BY <1>3 DEF SessionInv
<1>9. /\ engine' \in {"stopped", "starting", "running", "stopping", "failed"}
      /\ core' \in {"down", "plain", "elevated"} /\ setting' \in Modes
      /\ engine = "stopped" => engine' = "stopped"
  BY <1>2, <1>3 DEF WordType
<1>10. tun' \in BOOLEAN /\ marker' \in BOOLEAN /\ began' \in BOOLEAN
  <2>1. marker' \in BOOLEAN
    BY Zenon DEF Restore, Repair, RestoreProxy, BoolType
  <2> QED BY <1>2, <1>3, <2>1, Zenon DEF BoolType
<1> QED BY <1>1, <1>2, <1>4, <1>6, <1>7, <1>8, <1>9, <1>10, WorkKeeps
        DEF Opening

-----------------------------------------------------------------------------
(* The theorems                                                            *)

\* The invariant holds at first, and a step keeps it.
LEMMA ServiceInvInit == ServiceInit => SInv
<1> SUFFICES ASSUME ServiceInit PROVE SInv
  OBVIOUS
<1> USE DEF ServiceInit, SessionInit
<1>1. BoolType
  BY Zenon DEF BoolType
<1>2. WordType
  BY Zeros, Zenon DEF WordType, Modes
<1>3. CallType
  BY DEF CallType, Away, Modes
<1>4. GateInv
  BY DEF GateInv, Away
<1>5. FlagInv /\ WaitInv
  BY CallersAre DEF FlagInv, WaitInv
<1>6. CallInv
  BY DEF CallInv, PlaceOf, StopOf, UndoOf, Forward, Opening, Closing
<1>7. SessionInv /\ ExitInv
  BY CallersAre DEF SessionInv, ExitInv
<1>8. RestartInv
  <2>1. ~Pending
    BY CallersAre DEF Pending, Opening
  <2> QED BY <2>1, Zeros, Zenon DEF RestartInv
<1> QED BY <1>1, <1>2, <1>3, <1>4, <1>5, <1>6, <1>7, <1>8 DEF SInv, TypeInv

LEMMA ServiceInvStep == SInv /\ [ServiceNext]_vars => SInv'
<1> SUFFICES ASSUME SInv, [ServiceNext]_vars PROVE SInv'
  OBVIOUS
<1>1. CASE UNCHANGED vars
  <2> USE <1>1 DEF vars, serviceVars, callVars, flags, session
  <2> BoolType /\ WordType /\ CallType /\ SessionInv
    BY DEF SInv, TypeInv
  <2>1. BoolType'
    BY Zenon DEF BoolType
  <2>2. WordType' /\ CallType' /\ SessionInv'
    BY DEF WordType, CallType, SessionInv
  <2> QED BY <2>1, <2>2, BackgroundKeeps DEF Down, TypeInv
<1>2. CASE ServiceNext
  <2>1. ASSUME NEW c \in Callers, HolderStep(c) PROVE SInv'
    BY <2>1, ReturnKeeps, BeginKeeps, EnsureKeeps, QuietSteps, StartKeeps,
       ForwardKeeps, StopKeeps, LastKeeps
    DEF HolderStep
  <2> QED BY <1>2, <2>1, CoreKeeps, ProgramEndsKeeps, UserKeeps, EventKeeps,
             SnapshotKeeps, DeadlineKeeps, ReturnKeeps
          DEF ServiceNext
<1> QED BY <1>1, <1>2

\* Under the service the flags say who is at work, only the holder of the
\* gate is, and of a call is done what its place says.
THEOREM ServiceInvariance == ServiceSpec => []SInv
  BY ServiceInvInit, ServiceInvStep, PTL DEF ServiceSpec

\* Every variable of the service keeps its type.
THEOREM ServiceTypeCorrect == ServiceSpec => []ServiceTypeOK
<1>1. SInv => ServiceTypeOK
  BY TypeParts DEF SInv
<1> QED BY <1>1, ServiceInvariance, PTL

\* The event loop starts the engine at most once for each fallback until
\* somebody else has had the gate, whatever restarts, watchdogs, failures and
\* users come between.
THEOREM RestartOnceAlways == ServiceSpec => []RestartOnce
<1>1. SInv => RestartOnce
  <2> SUFFICES ASSUME SInv PROVE RestartOnce
    OBVIOUS
  <2>1. /\ Cardinality(applied) \in Nat
        /\ Cardinality(applied) <= Cardinality(Fallbacks)
        /\ Cardinality(Fallbacks) \in Nat
    BY AppliedCounts DEF SInv, TypeInv, WordType
  <2>2. restarts \in Nat /\ restarts <= Cardinality(applied)
    BY DEF SInv, TypeInv, CallType, RestartInv
  <2> QED BY <2>1, <2>2 DEF RestartOnce
<1> QED BY <1>1, ServiceInvariance, PTL

\* A Stop that reports success has stopped the engine, taken the sidecar down
\* and given the proxy back.
THEOREM StopIsCompleteAlways == ServiceSpec => []StopIsComplete
<1>1. SInv => StopIsComplete
  BY DEF SInv, CallInv, StopOf, SessionInv, StopIsComplete
<1> QED BY <1>1, ServiceInvariance, PTL

\* A Start that fails after the engine has started takes it down again.
THEOREM FailedStartIsUndoneAlways == ServiceSpec => []FailedStartIsUndone
<1>1. SInv => FailedStartIsUndone
  BY DEF SInv, CallInv, UndoOf, Down, FailedStartIsUndone
<1> QED BY <1>1, ServiceInvariance, PTL

\* After Shutdown has stopped the engine, nothing starts it.
THEOREM ShutdownIsFinalAlways == ServiceSpec => []ShutdownIsFinal
<1>1. SInv => ShutdownIsFinal
  BY DEF SInv, ExitInv, SessionInv, ShutdownIsFinal
<1> QED BY <1>1, ServiceInvariance, PTL

=============================================================================
