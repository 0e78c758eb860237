--------------------------- MODULE EngineRuntime ---------------------------
(***************************************************************************)
(* The canonical lifecycle of the engine (engine/internal/runtime): one    *)
(* state, changed only by Transition.  Snapshot.Sequence counts the        *)
(* changes; its users only compare it for equality, so they are modelled   *)
(* by whether the state has changed since they read it.                    *)
(***************************************************************************)
EngineStates == {"stopped", "starting", "running", "degraded", "stopping",
                 "failed"}

\* A fault: a start that fails has nowhere to go.
SuccessorsNoStartFailure == [stopped  |-> {"starting"},
                             starting |-> {"running", "stopping"},
                             running  |-> {"degraded", "stopping", "failed"},
                             degraded |-> {"running", "stopping", "failed"},
                             stopping |-> {"stopped", "failed"},
                             failed   |-> {"starting", "stopped"}]

\* canTransition: the states that may follow each state.
Successors == [stopped  |-> {"starting"},
               starting |-> {"running", "stopping", "failed"},
               running  |-> {"degraded", "stopping", "failed"},
               degraded |-> {"running", "stopping", "failed"},
               stopping |-> {"stopped", "failed"},
               failed   |-> {"starting", "stopped"}]

CanTransition(current, next) == next \in Successors[current]

\* The state that Transition(next) leaves; a refused one changes nothing.
Transitioned(current, next) ==
    IF CanTransition(current, next) THEN next ELSE current

=============================================================================
