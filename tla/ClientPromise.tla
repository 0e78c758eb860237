--------------------------- MODULE ClientPromise ---------------------------
(***************************************************************************)
(* What the core client promises its callers.  CoreClient implements it.   *)
(*                                                                         *)
(* A call asks at most once, and only while the client is connected.  What *)
(* it asked is answered by that session, or is lost with it, never both    *)
(* and never neither: the moment a session ends, all that was open is      *)
(* lost, and nothing that was answered.  A session that has ended does not *)
(* come back, so no answer is taken for that of another session.  A call   *)
(* may return at any time, with its answer or because of its deadline.     *)
(***************************************************************************)

CONSTANTS Calls, Sessions, Nobody

VARIABLES
    conn,       \* the session in place
    over,       \* the sessions that have ended
    state       \* how far each call has come

promise == <<conn, over, state>>

PromiseInit ==
    /\ conn = Nobody
    /\ over = {}
    /\ state = [c \in Calls |-> "new"]

Connect(s) ==
    /\ conn = Nobody /\ s \notin over
    /\ conn' = s
    /\ UNCHANGED <<over, state>>

Moves(c, from, to) ==
    /\ state[c] \in from
    /\ state' = [state EXCEPT ![c] = to]
    /\ UNCHANGED <<conn, over>>

Ask(c) == conn # Nobody /\ Moves(c, {"new"}, "open")

Answer(c) == conn # Nobody /\ Moves(c, {"open"}, "answered")

\* What a call that has asked waits for.
Asked == {"open", "answered", "lost"}

Return(c) == Moves(c, Asked \cup {"new"}, "ended")

\* The session ends; a call that has given it up returns with it.
Disconnect(quitting) ==
    /\ conn # Nobody
    /\ conn' = Nobody
    /\ over' = over \cup {conn}
    /\ state' = [c \in Calls |-> IF c \in quitting THEN "ended"
                                 ELSE IF state[c] = "open" THEN "lost"
                                 ELSE state[c]]

PromiseNext ==
    \/ \E s \in Sessions : Connect(s)
    \/ \E c \in Calls : \/ Ask(c) \/ Answer(c) \/ Return(c)
                        \/ state[c] \in Asked /\ Disconnect({c})
    \/ Disconnect({})

PromiseSpec == PromiseInit /\ [][PromiseNext]_promise

=============================================================================
