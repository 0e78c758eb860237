----------------------------- MODULE ProxyPool -----------------------------
(***************************************************************************)
(* The proxy pool (engine/internal/proxy): Start, the accept loop, the     *)
(* goroutine of each TCP session with its two relays, the registry of      *)
(* sessions, and Stop.  UdpAssociation adds the UDP associations, whose    *)
(* flows are sessions of the registry too.                                 *)
(*                                                                         *)
(* Stop runs beside the accept loop and the sessions: it forbids new ones, *)
(* cancels dials, closes the connections of the sessions it finds in the   *)
(* registry and waits for the wait group.  A step is one critical section  *)
(* of s.mu, r.mu or session.mu, or one blocking operation.                 *)
(*                                                                         *)
(* The requests, the choice of an adapter and the bytes relayed are left   *)
(* out.  The direct channel is one of the Adapters: it has a counter of    *)
(* its own.                                                                *)
(*                                                                         *)
(* A "tunnel" is a SOCKS or HTTP CONNECT session, which answers its client *)
(* before it relays; a "plain" session is an HTTP request, which is        *)
(* forwarded to the server instead; a "udp" session asks for an            *)
(* association.                                                            *)
(***************************************************************************)
EXTENDS Naturals, FiniteSets

CONSTANTS Sessions, Flows, Adapters, Nobody, Requests

ASSUME NobodyAssumption == Nobody \notin Sessions \cup Adapters

\* A session is not mistaken for a state of the accept loop.
ASSUME AcceptorAssumption == Sessions \cap {"off", "accepting", "ended"} = {}

ASSUME FlowsAssumption == Flows \subseteq Sessions

\* The sessions that come through the listener.
Accepted == Sessions \ Flows

\* What their clients ask for; "none" is a client that does not come.
ASSUME RequestsAssumption ==
    Requests \subseteq [Accepted -> {"tunnel", "plain", "udp", "none"}]

VARIABLES
    running,        \* s.running
    cancelled,      \* whether s.ctx is cancelled
    listening,      \* whether the listener is open
    acceptor,       \* the accept loop, or the client it has just accepted
    stop,           \* where Stop stands, and what the latest one has reported
    todo,           \* the sessions that CloseAll has yet to close
    current,        \* the one whose client it has closed
    connections,    \* r.connections
    active,         \* the active counter of each adapter
    pc,             \* where the goroutine of each session stands
    kind,           \* what its client asks for
    client,         \* the connection of its client
    server,         \* the connection to its server
    adapter,        \* session.adapter; its upstream is set with it
    relays          \* the relay goroutines that run

stopVars == <<stop, todo, current>>
poolVars == <<running, cancelled, listening, acceptor>>
sessionVars == <<pc, kind, client, server, adapter, relays>>
vars == <<poolVars, stopVars, connections, active, sessionVars>>

Conn == {"none", "open", "closed"}

PoolTypeOK ==
    /\ running \in BOOLEAN
    /\ cancelled \in BOOLEAN
    /\ listening \in BOOLEAN
    /\ acceptor \in Sessions \cup {"off", "accepting", "ended"}
    /\ stop \in {"idle", "listeners", "snapshot", "closing", "waiting", "ok",
                 "timeout", "again"}
    /\ todo \in SUBSET Sessions
    /\ current \in Sessions \cup {Nobody}
    /\ connections \in SUBSET Sessions
    /\ active \in [Adapters -> Nat]
    /\ pc \in [Sessions -> {"none", "handshake", "dialing", "dialed", "reply",
                            "relay", "finish", "done",
                            "serving", "creating", "sending", "sweep",
                            "registered"}]
    /\ kind \in Requests
    /\ client \in [Sessions -> Conn]
    /\ server \in [Sessions -> Conn]
    /\ adapter \in [Sessions -> Adapters \cup {Nobody}]
    /\ relays \in [Sessions -> SUBSET {"up", "down"}]

PoolInit ==
    /\ running = FALSE
    /\ cancelled = FALSE
    /\ listening = FALSE
    /\ acceptor = "off"
    /\ stop = "idle"
    /\ todo = {}
    /\ current = Nobody
    /\ connections = {}
    /\ active = [a \in Adapters |-> 0]
    /\ pc = [s \in Sessions |-> "none"]
    /\ kind \in Requests
    /\ client = [s \in Sessions |-> "none"]
    /\ server = [s \in Sessions |-> "none"]
    /\ adapter = [s \in Sessions |-> Nobody]
    /\ relays = [s \in Sessions |-> {}]

-----------------------------------------------------------------------------
(* Start and the accept loop                                               *)

\* Every listener opens, or Start closes what it has opened and fails, which
\* leaves the pool as it was.  The host makes a new pool for each start.
Start ==
    /\ ~running /\ acceptor = "off"
    /\ running' = TRUE
    /\ listening' = TRUE
    /\ acceptor' = "accepting"
    /\ UNCHANGED <<cancelled, stopVars, connections, active, sessionVars>>

AcceptReturns(s) ==
    /\ acceptor = "accepting" /\ listening
    /\ pc[s] = "none" /\ client[s] = "none" /\ kind[s] # "none"
    /\ acceptor' = s
    /\ client' = [client EXCEPT ![s] = "open"]
    /\ UNCHANGED <<running, cancelled, listening, stopVars, connections, active,
                   pc, kind, server, adapter, relays>>

\* A fault: a client accepted before the stop is served after it.
AdmitAlways(s) ==
    /\ acceptor = s
    /\ connections' = connections \cup {s}
    /\ pc' = [pc EXCEPT ![s] = "handshake"]
    /\ acceptor' = "accepting"
    /\ UNCHANGED <<running, cancelled, listening, stopVars, active, kind,
                   client, server, adapter, relays>>

\* s.running, registry.Begin and wg.Add under one read lock.
Admit(s) ==
    /\ acceptor = s
    /\ running
    /\ connections' = connections \cup {s}
    /\ pc' = [pc EXCEPT ![s] = "handshake"]
    /\ acceptor' = "accepting"
    /\ UNCHANGED <<running, cancelled, listening, stopVars, active, kind,
                   client, server, adapter, relays>>

Refuse(s) ==
    /\ acceptor = s
    /\ ~running
    /\ client' = [client EXCEPT ![s] = "closed"]
    /\ acceptor' = "ended"
    /\ UNCHANGED <<running, cancelled, listening, stopVars, connections, active,
                   pc, kind, server, adapter, relays>>

\* Accept fails for another reason while the pool is being stopped.
AcceptFails ==
    /\ acceptor = "accepting" /\ cancelled
    /\ acceptor' = "ended"
    /\ UNCHANGED <<running, cancelled, listening, stopVars, connections, active,
                   sessionVars>>

AcceptEnds ==
    /\ acceptor = "accepting" /\ ~listening
    /\ acceptor' = "ended"
    /\ UNCHANGED <<running, cancelled, listening, stopVars, connections, active,
                   sessionVars>>

-----------------------------------------------------------------------------
(* A session                                                               *)

\* A request is read from an open client; anything else ends the session.
Handshake(s) ==
    /\ pc[s] = "handshake"
    /\ \/ /\ client[s] = "open" /\ kind[s] # "udp"
          /\ pc' = [pc EXCEPT ![s] = "dialing"]
       \/ pc' = [pc EXCEPT ![s] = "finish"]
    /\ UNCHANGED <<poolVars, stopVars, connections, active, kind, client,
                   server, adapter, relays>>

\* A dial succeeds unless its context, a child of s.ctx, has ended.
Dial(s) ==
    /\ pc[s] = "dialing"
    /\ \/ /\ ~cancelled
          /\ pc' = [pc EXCEPT ![s] = "dialed"]
          /\ server' = [server EXCEPT ![s] = "open"]
       \/ /\ pc' = [pc EXCEPT ![s] = "finish"]
          /\ UNCHANGED server
    /\ UNCHANGED <<poolVars, stopVars, connections, active, kind, client,
                   adapter, relays>>

\* registry.Attach: only from here on does CloseAll see the server.
Attach(s, a) ==
    /\ pc[s] = "dialed" /\ s \in connections
    /\ adapter' = [adapter EXCEPT ![s] = a]
    /\ active' = [active EXCEPT ![a] = @ + 1]
    /\ pc' = [pc EXCEPT ![s] = "reply"]
    /\ UNCHANGED <<poolVars, stopVars, connections, kind, client, server,
                   relays>>

\* The connection that the first write goes to; the peer may have hung up.
FirstWrite(s) == IF kind[s] = "tunnel" THEN client[s] ELSE server[s]

ReplyFails(s) ==
    /\ pc[s] = "reply"
    /\ server' = [server EXCEPT ![s] = "closed"]
    /\ pc' = [pc EXCEPT ![s] = "finish"]
    /\ UNCHANGED <<poolVars, stopVars, connections, active, kind, client,
                   adapter, relays>>

Reply(s) ==
    /\ pc[s] = "reply"
    /\ FirstWrite(s) = "open"
    /\ pc' = [pc EXCEPT ![s] = "relay"]
    /\ relays' = [relays EXCEPT ![s] = {"up", "down"}]
    /\ UNCHANGED <<poolVars, stopVars, connections, active, kind, client,
                   server, adapter>>

EndRelay(s, r) ==
    /\ r \in relays[s]
    /\ relays' = [relays EXCEPT ![s] = @ \ {r}]
    /\ UNCHANGED <<poolVars, stopVars, connections, active, pc, kind, client,
                   server, adapter>>

\* A relay notices that a connection was closed here: at once on the side it
\* reads from, on the other side with its next write.
RelayCut(s) ==
    \/ client[s] = "closed" /\ EndRelay(s, "up")
    \/ server[s] = "closed" /\ EndRelay(s, "down")

\* The client hangs up, or sends to a server that was closed.
ClientTalks(s) == EndRelay(s, "up")

\* The server hangs up, or sends to a client that was closed.
ServerTalks(s) == EndRelay(s, "down")

RelayDone(s) ==
    /\ pc[s] = "relay"
    /\ relays[s] = {}
    /\ server' = [server EXCEPT ![s] = "closed"]
    /\ pc' = [pc EXCEPT ![s] = "finish"]
    /\ UNCHANGED <<poolVars, stopVars, connections, active, kind, client,
                   adapter, relays>>

\* A fault: the counter of some adapter goes down whether it went up or not.
UncountAlways(s) ==
    \E a \in Adapters :
        /\ adapter[s] \in {a, Nobody}
        /\ active' = [active EXCEPT ![a] = IF @ = 0 THEN 0 ELSE @ - 1]

\* A session that was never attached has no counter to give back.
Uncount(s) ==
    active' = IF adapter[s] = Nobody THEN active
                                     ELSE [active EXCEPT ![adapter[s]] = @ - 1]

\* registry.Finish, client.Close, wg.Done
Finish(s) ==
    /\ pc[s] = "finish"
    /\ connections' = connections \ {s}
    /\ Uncount(s)
    /\ client' = [client EXCEPT ![s] = "closed"]
    /\ pc' = [pc EXCEPT ![s] = "done"]
    /\ UNCHANGED <<poolVars, stopVars, kind, server, adapter, relays>>

-----------------------------------------------------------------------------
(* Stop                                                                    *)

StopBegin ==
    /\ running
    /\ running' = FALSE
    /\ cancelled' = TRUE
    /\ stop' = "listeners"
    /\ UNCHANGED <<listening, acceptor, todo, current, connections, active,
                   sessionVars>>

CloseListeners ==
    /\ stop = "listeners"
    /\ listening' = FALSE
    /\ stop' = "snapshot"
    /\ UNCHANGED <<running, cancelled, acceptor, todo, current, connections,
                   active, sessionVars>>

\* CloseAll copies the registry and closes what it has copied.
Snapshot ==
    /\ stop = "snapshot"
    /\ todo' = connections
    /\ stop' = "closing"
    /\ UNCHANGED <<poolVars, current, connections, active, sessionVars>>

CloseClient(s) ==
    /\ stop = "closing" /\ current = Nobody /\ s \in todo
    /\ client' = [client EXCEPT ![s] = "closed"]
    /\ current' = s
    /\ UNCHANGED <<poolVars, stop, todo, connections, active, pc, kind, server,
                   adapter, relays>>

\* A fault: only the clients are closed.
CloseUpstreamNot ==
    /\ stop = "closing" /\ current # Nobody
    /\ current' = Nobody
    /\ todo' = todo \ {current}
    /\ UNCHANGED <<poolVars, stop, connections, active, sessionVars>>

CloseUpstream ==
    /\ stop = "closing" /\ current # Nobody
    /\ server' = IF adapter[current] = Nobody
                   THEN server ELSE [server EXCEPT ![current] = "closed"]
    /\ current' = Nobody
    /\ todo' = todo \ {current}
    /\ UNCHANGED <<poolVars, stop, connections, active, pc, kind, client,
                   adapter, relays>>

CloseAllEnds ==
    /\ stop = "closing" /\ current = Nobody /\ todo = {}
    /\ stop' = "waiting"
    /\ UNCHANGED <<poolVars, todo, current, connections, active, sessionVars>>

\* A fault: sessions are not added to the wait group.
IdleLoopOnly == acceptor = "ended"

\* The wait group is empty.
Idle == /\ acceptor = "ended"
        /\ \A s \in Sessions : pc[s] \in {"none", "done"} /\ relays[s] = {}

StopDone ==
    /\ stop = "waiting"
    /\ Idle
    /\ stop' = "ok"
    /\ UNCHANGED <<poolVars, todo, current, connections, active, sessionVars>>

\* The context of Stop ends first.
StopTimeout ==
    /\ stop = "waiting"
    /\ stop' = "timeout"
    /\ UNCHANGED <<poolVars, todo, current, connections, active, sessionVars>>

\* A pool that no longer runs is not waited for: after a stop that timed out the
\* host keeps the pool, and its next Stop reports success at once.  Before Start
\* and after a stop that has succeeded it changes nothing.
StopAgain ==
    /\ stop = "timeout" /\ ~running
    /\ stop' = "again"
    /\ UNCHANGED <<poolVars, todo, current, connections, active, sessionVars>>

-----------------------------------------------------------------------------

SessionStep(s) ==
    \/ Admit(s)
    \/ Refuse(s)
    \/ Handshake(s)
    \/ Dial(s)
    \/ \E a \in Adapters : Attach(s, a)
    \/ Reply(s)
    \/ ReplyFails(s)
    \/ RelayCut(s)
    \/ RelayDone(s)
    \/ Finish(s)

\* A handshake ends by itself only once its client is closed.
Blocked(s) == pc[s] = "handshake" /\ client[s] = "open"

StopStep ==
    \/ CloseListeners
    \/ Snapshot
    \/ \E s \in Accepted : CloseClient(s)
    \/ CloseUpstream
    \/ CloseAllEnds
    \/ StopDone

PoolNext ==
    \/ Start
    \/ StopBegin
    \/ AcceptEnds
    \/ AcceptFails
    \/ StopStep
    \/ StopTimeout
    \/ StopAgain
    \/ \E s \in Accepted : \/ AcceptReturns(s)
                           \/ SessionStep(s)
                           \/ ClientTalks(s)
                           \/ ServerTalks(s)

-----------------------------------------------------------------------------
(* Properties                                                              *)

\* The count of an adapter is the number of sessions attached to it that have
\* not finished; as an unsigned number it would never recover from an error.
ActiveCounts ==
    \A a \in Adapters :
        active[a] = Cardinality({s \in Sessions : /\ adapter[s] = a
                                                  /\ pc[s] # "done"})

=============================================================================
