--------------------------- MODULE EngineSession ---------------------------
(***************************************************************************)
(* What the protocol host promises a client about the engine and its       *)
(* sidecar.  EngineHost implements it; EngineService is a client of it.    *)
(*                                                                         *)
(* A sidecar comes up only in a running engine, goes at any time, and is   *)
(* gone before the engine is stopped.  Only a request starts or stops the  *)
(* engine; it fails by itself.                                             *)
(***************************************************************************)

VARIABLES
    engine,         \* the state of the engine
    tun             \* a sidecar is alive that nobody has killed

session == <<engine, tun>>

SessionInit == engine = "stopped" /\ tun = FALSE

Moves(from, to) == engine \in from /\ engine' \in to

\* engine.start
StartAccepted == Moves({"stopped", "failed"}, {"starting"}) /\ UNCHANGED tun

StartEnded == Moves({"starting"}, {"running", "failed"}) /\ UNCHANGED tun

\* engine.stop, which begins by taking the sidecar down
StopAccepted == Moves({"running"}, {"stopping"}) /\ tun' \in {tun, FALSE}

StopEnded == /\ Moves({"stopping"}, {"stopped", "failed"})
             /\ ~tun
             /\ UNCHANGED tun

\* engine.stop of a failed engine
Cleared == Moves({"failed"}, {"stopped"}) /\ ~tun /\ UNCHANGED tun

\* tun.activate
Activated == engine = "running" /\ tun' = TRUE /\ UNCHANGED engine

\* The sidecar leaves by itself or is taken down.
SidecarEnded == tun /\ tun' = FALSE /\ UNCHANGED engine

\* An activation that failed, or a sidecar that is missed.
EngineFailed == Moves({"running"}, {"failed"}) /\ UNCHANGED tun

SessionNext ==
    \/ StartAccepted
    \/ StartEnded
    \/ StopAccepted
    \/ StopEnded
    \/ Cleared
    \/ Activated
    \/ SidecarEnded
    \/ EngineFailed

SessionSpec == SessionInit /\ [][SessionNext]_session

=============================================================================
