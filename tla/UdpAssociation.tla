--------------------------- MODULE UdpAssociation ---------------------------
(***************************************************************************)
(* The UDP associations of the proxy pool (engine/internal/proxy/udp.go),  *)
(* composed with the pool: the goroutine of a "udp" session serves the     *)
(* datagrams of its client and opens a flow for each new target; a flow    *)
(* has a receive loop, and is closed once by whoever finds it broken.      *)
(*                                                                         *)
(* A flow is a session of the registry whose client is the relay of its    *)
(* association, so that CloseAll closes the relay along with the flow.     *)
(* The choice of an adapter is AdapterHealth's; datagrams are not modelled *)
(* beyond what they make the association do.                               *)
(***************************************************************************)
EXTENDS ProxyPool

CONSTANT FlowLimit

ASSUME FlowLimitAssumption == FlowLimit \in Nat

VARIABLES
    relay,          \* a.relay of each association
    flows,          \* a.flows
    owner,          \* the association of each flow
    busy,           \* the flow an association creates, sends to or closes
    left,           \* the flows it has yet to close
    once            \* how far the close of each flow has come

udpVars == <<relay, flows, owner, busy, left, once>>

allVars == <<vars, udpVars>>

UdpTypeOK ==
    /\ PoolTypeOK
    /\ relay \in [Accepted -> Conn]
    /\ flows \in [Accepted -> SUBSET Flows]
    /\ owner \in [Flows -> Accepted \cup {Nobody}]
    /\ busy \in [Accepted -> Flows \cup {Nobody}]
    /\ left \in [Accepted -> SUBSET Flows]
    /\ once \in [Flows -> {"no", "closed", "removed", "done"}]

UdpInit ==
    /\ PoolInit
    /\ relay = [s \in Accepted |-> "none"]
    /\ flows = [s \in Accepted |-> {}]
    /\ owner = [f \in Flows |-> Nobody]
    /\ busy = [s \in Accepted |-> Nobody]
    /\ left = [s \in Accepted |-> {}]
    /\ once = [f \in Flows |-> "no"]

-----------------------------------------------------------------------------
(* The association                                                         *)

\* The relay listens, the client is told, and a goroutine of its own reads
\* the control connection until it ends.
Associate(s) ==
    /\ pc[s] = "handshake" /\ kind[s] = "udp" /\ client[s] = "open"
    /\ relay' = [relay EXCEPT ![s] = "open"]
    /\ relays' = [relays EXCEPT ![s] = {"up"}]
    /\ pc' = [pc EXCEPT ![s] = "serving"]
    /\ UNCHANGED <<poolVars, stopVars, connections, active, kind, client,
                   server, adapter, flows, owner, busy, left, once>>

Over(s) == "up" \notin relays[s] \/ cancelled

\* The watcher wakes the serving goroutine up.
Watch(s) ==
    /\ pc[s] \in {"serving", "creating", "sending"}
    /\ relay[s] = "open" /\ Over(s)
    /\ relay' = [relay EXCEPT ![s] = "closed"]
    /\ UNCHANGED <<vars, flows, owner, busy, left, once>>

\* A fault: the flows are left to their idle timeout.
SweepNothing(s) ==
    /\ left' = [left EXCEPT ![s] = {}]
    /\ relay' = [relay EXCEPT ![s] = "closed"]
    /\ pc' = [pc EXCEPT ![s] = "sweep"]
    /\ UNCHANGED <<poolVars, stopVars, connections, active, kind, client,
                   server, adapter, relays, flows, owner, busy, once>>

\* association.close: the flows are copied under the lock and closed after.
Sweep(s) ==
    /\ left' = [left EXCEPT ![s] = flows[s]]
    /\ relay' = [relay EXCEPT ![s] = "closed"]
    /\ pc' = [pc EXCEPT ![s] = "sweep"]
    /\ UNCHANGED <<poolVars, stopVars, connections, active, kind, client,
                   server, adapter, relays, flows, owner, busy, once>>

ServeEnds(s) ==
    /\ pc[s] = "serving"
    /\ Over(s) \/ relay[s] = "closed"
    /\ Sweep(s)

\* The relay cannot be read.
ServeFails(s) == pc[s] = "serving" /\ relay[s] = "open" /\ Sweep(s)

SweepNext(s, f) ==
    /\ pc[s] = "sweep" /\ busy[s] = Nobody /\ f \in left[s]
    /\ busy' = [busy EXCEPT ![s] = f]
    /\ left' = [left EXCEPT ![s] = @ \ {f}]
    /\ UNCHANGED <<vars, relay, flows, owner, once>>

SweepEnds(s) ==
    /\ pc[s] = "sweep" /\ busy[s] = Nobody /\ left[s] = {}
    /\ pc' = [pc EXCEPT ![s] = "finish"]
    /\ UNCHANGED <<poolVars, stopVars, connections, active, kind, client,
                   server, adapter, relays, udpVars>>

-----------------------------------------------------------------------------
(* forward and createFlow                                                  *)

Room(s) == Cardinality(flows[s]) < FlowLimit

\* A datagram for a new target; without room it is dropped.
Forward(s, f) ==
    /\ pc[s] = "serving" /\ relay[s] = "open" /\ Room(s)
    /\ pc[f] = "none"
    /\ pc' = [pc EXCEPT ![s] = "creating", ![f] = "dialing"]
    /\ owner' = [owner EXCEPT ![f] = s]
    /\ busy' = [busy EXCEPT ![s] = f]
    /\ UNCHANGED <<poolVars, stopVars, connections, active, kind, client,
                   server, adapter, relays, relay, flows, left, once>>

\* Two adapters are tried, or the direct route; the first datagram is sent.
CreateFlow(f) ==
    /\ pc[f] = "dialing"
    /\ \/ /\ ~cancelled
          /\ server' = [server EXCEPT ![f] = "open"]
          /\ pc' = [pc EXCEPT ![f] = "dialed"]
          /\ UNCHANGED <<owner, busy>>
       \/ /\ pc' = [pc EXCEPT ![f] = "none", ![owner[f]] = "serving"]
          /\ owner' = [owner EXCEPT ![f] = Nobody]
          /\ busy' = [busy EXCEPT ![owner[f]] = Nobody]
          /\ UNCHANGED server
    /\ UNCHANGED <<poolVars, stopVars, connections, active, kind, client,
                   adapter, relays, relay, flows, left, once>>

\* registry.BeginAddress; Attach follows.
BeginAddress(f) ==
    /\ pc[f] = "dialed" /\ f \notin connections
    /\ connections' = connections \cup {f}
    /\ UNCHANGED <<poolVars, stopVars, active, sessionVars, udpVars>>

\* Nobody else adds flows or closes the association meanwhile: the goroutine
\* that creates one is the one that would do so.
Register(f) ==
    /\ pc[f] = "reply"
    /\ flows' = [flows EXCEPT ![owner[f]] = @ \cup {f}]
    /\ pc' = [pc EXCEPT ![f] = "registered"]
    /\ UNCHANGED <<poolVars, stopVars, connections, active, kind, client,
                   server, adapter, relays, relay, owner, busy, left, once>>

\* wg.Add, and the receive loop is started.
Receive(f) ==
    /\ pc[f] = "registered"
    /\ pc' = [pc EXCEPT ![f] = "relay", ![owner[f]] = "serving"]
    /\ relays' = [relays EXCEPT ![f] = {"down"}]
    /\ busy' = [busy EXCEPT ![owner[f]] = Nobody]
    /\ UNCHANGED <<poolVars, stopVars, connections, active, kind, client,
                   server, adapter, relay, flows, owner, left, once>>

\* A datagram for a known target cannot be sent, and the flow is closed.
SendFails(s, f) ==
    /\ pc[s] = "serving" /\ relay[s] = "open" /\ f \in flows[s]
    /\ busy' = [busy EXCEPT ![s] = f]
    /\ pc' = [pc EXCEPT ![s] = "sending"]
    /\ UNCHANGED <<poolVars, stopVars, connections, active, kind, client,
                   server, adapter, relays, relay, flows, owner, left, once>>

-----------------------------------------------------------------------------
(* flow.close, which closeOnce lets through once                           *)

Closers(f) ==
    \/ relays[f] = {}
    \/ busy[owner[f]] = f /\ pc[owner[f]] \in {"sending", "sweep"}

CloseConnection(f) ==
    /\ pc[f] = "relay" /\ once[f] = "no" /\ Closers(f)
    /\ server' = [server EXCEPT ![f] = "closed"]
    /\ once' = [once EXCEPT ![f] = "closed"]
    /\ UNCHANGED <<poolVars, stopVars, connections, active, pc, kind, client,
                   adapter, relays, relay, flows, owner, busy, left>>

RemoveFlow(f) ==
    /\ once[f] = "closed"
    /\ flows' = [flows EXCEPT ![owner[f]] = @ \ {f}]
    /\ once' = [once EXCEPT ![f] = "removed"]
    /\ UNCHANGED <<vars, relay, owner, busy, left>>

\* registry.Finish
FinishFlow(f) ==
    /\ once[f] = "removed"
    /\ connections' = connections \ {f}
    /\ Uncount(f)
    /\ pc' = [pc EXCEPT ![f] = "done"]
    /\ once' = [once EXCEPT ![f] = "done"]
    /\ UNCHANGED <<poolVars, stopVars, kind, client, server, adapter, relays,
                   relay, flows, owner, busy, left>>

\* Whoever called close, and perhaps waited for another's, goes on.
Closed(s) ==
    /\ busy[s] # Nobody /\ pc[s] \in {"sending", "sweep"}
    /\ once[busy[s]] = "done"
    /\ busy' = [busy EXCEPT ![s] = Nobody]
    /\ pc' = IF pc[s] = "sending" THEN [pc EXCEPT ![s] = "serving"] ELSE pc
    /\ UNCHANGED <<poolVars, stopVars, connections, active, kind, client,
                   server, adapter, relays, relay, flows, owner, left, once>>

\* CloseAll closes the relay as the client of a flow.
CloseRelay(f) ==
    /\ stop = "closing" /\ current = Nobody /\ f \in todo
    /\ relay' = [relay EXCEPT ![owner[f]] = "closed"]
    /\ current' = f
    /\ UNCHANGED <<poolVars, stop, todo, connections, active, sessionVars,
                   flows, owner, busy, left, once>>

-----------------------------------------------------------------------------

AssociationStep(s) ==
    \/ Associate(s) \/ Watch(s) \/ ServeEnds(s) \/ SweepEnds(s) \/ Closed(s)
    \/ \E f \in Flows : SweepNext(s, f)

FlowStep(f) ==
    \/ CreateFlow(f) \/ BeginAddress(f) \/ Register(f) \/ Receive(f)
    \/ (\E a \in Adapters : Attach(f, a)) /\ UNCHANGED udpVars
    \/ RelayCut(f) /\ UNCHANGED udpVars
    \/ CloseConnection(f) \/ RemoveFlow(f) \/ FinishFlow(f)

StopProgress ==
    \/ StopStep /\ UNCHANGED udpVars
    \/ \E f \in Flows : CloseRelay(f)

UdpNext ==
    \/ PoolNext /\ UNCHANGED udpVars
    \/ \E s \in Accepted : \/ AssociationStep(s) \/ ServeFails(s)
                           \/ \E f \in Flows : Forward(s, f) \/ SendFails(s, f)
    \/ \E f \in Flows : \/ FlowStep(f) \/ CloseRelay(f)
                        \/ ServerTalks(f) /\ UNCHANGED udpVars

\* Goroutines go on; a client or a server may stay silent for ever, and no
\* deadline is assumed to pass except that of a dial.
UdpSpec ==
    /\ UdpInit
    /\ [][UdpNext]_allVars
    /\ WF_allVars(AcceptEnds /\ UNCHANGED udpVars)
    /\ WF_allVars(StopProgress)
    /\ \A s \in Accepted :
          /\ WF_allVars(SessionStep(s) /\ ~Blocked(s) /\ UNCHANGED udpVars)
          /\ WF_allVars(AssociationStep(s) /\ ~Blocked(s))
    /\ \A f \in Flows : WF_allVars(FlowStep(f))

-----------------------------------------------------------------------------
(* Properties                                                              *)

\* No connection to a server, relay or flow of an association, and no count.
Released ==
    /\ \A s \in Sessions : server[s] # "open"
    /\ \A s \in Accepted : relay[s] # "open" /\ flows[s] = {}
    /\ \A a \in Adapters : active[a] = 0

\* A stop that has waited for the pool and reports success has left nothing
\* behind: all is released, no goroutine runs, no client is connected and no
\* entry is in the registry.  A client accepted just before the stop, a dial
\* that ended during it, a session attached after CloseAll and a flow that was
\* being created, sent to or closed are no exceptions.  The stop repeated after
\* a timeout ("again") waits for nothing and succeeds with all of these left, so
\* nothing is said of it.
StopLeavesNothing ==
    stop = "ok" =>
        /\ Released
        /\ Idle
        /\ connections = {}
        /\ \A s \in Sessions : client[s] # "open"

\* A session that has ended holds no connection, whichever way it ended, and
\* its association has taken its flows along: each is closed and out of its map.
EndedHoldsNothing ==
    \A s \in Accepted :
        pc[s] = "done" =>
            /\ client[s] = "closed" /\ server[s] # "open" /\ relay[s] # "open"
            /\ flows[s] = {}
            /\ \A f \in Flows : owner[f] = s => server[f] = "closed"

\* Servers answer or hang up sooner or later.
ServersTalk ==
    \A s \in Accepted : WF_allVars(ServerTalks(s) /\ UNCHANGED udpVars)

\* Stop returns without the help of its deadline if servers do not stay
\* silent for ever: every relay it does not cut ends by itself.
StopReturns == ServersTalk => (stop = "listeners" ~> stop \in {"ok", "timeout"})

\* Every session or flow that was relaying when CloseAll looked at it ends,
\* whatever clients and servers do.
RelaysCut ==
    \A s \in Sessions :
        stop = "closing" /\ s \in todo /\ pc[s] = "relay" ~> pc[s] = "done"

=============================================================================
