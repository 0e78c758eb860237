------------------------ MODULE UdpAssociationProofs ------------------------
(***************************************************************************)
(* Proofs about the proxy pool and its UDP associations, for any set of    *)
(* sessions, flows and adapters, and any limit of flows.                   *)
(*                                                                         *)
(* The invariant says which places of a goroutine may hold what: a         *)
(* connection, an entry of the registry, a count, a relay, a flow.  What   *)
(* a stop or the end of a session leaves behind then follows from where    *)
(* the goroutines are.                                                     *)
(***************************************************************************)
EXTENDS UdpAssociation, FiniteSetTheorems, TLAPS

Places == {"none", "handshake", "dialing", "dialed", "reply", "relay",
           "finish", "done", "serving", "creating", "sending", "sweep",
           "registered"}

StopStates == {"idle", "listeners", "snapshot", "closing", "waiting", "ok",
               "timeout", "again"}

OnceStates == {"no", "closed", "removed", "done"}

BoolType ==
    /\ running \in BOOLEAN
    /\ cancelled \in BOOLEAN
    /\ listening \in BOOLEAN

StopType ==
    /\ acceptor \in Sessions \cup {"off", "accepting", "ended"}
    /\ stop \in StopStates
    /\ todo \in SUBSET Sessions
    /\ current \in Sessions \cup {Nobody}

SessionType ==
    /\ connections \in SUBSET Sessions
    /\ pc \in [Sessions -> Places]
    /\ kind \in Requests
    /\ client \in [Sessions -> Conn]
    /\ server \in [Sessions -> Conn]
    /\ adapter \in [Sessions -> Adapters \cup {Nobody}]
    /\ relays \in [Sessions -> SUBSET {"up", "down"}]

FlowType ==
    /\ relay \in [Accepted -> Conn]
    /\ flows \in [Accepted -> SUBSET Flows]
    /\ owner \in [Flows -> Accepted \cup {Nobody}]
    /\ busy \in [Accepted -> Flows \cup {Nobody}]
    /\ left \in [Accepted -> SUBSET Flows]
    /\ once \in [Flows -> OnceStates]

\* A pool is started once, and stopped after that.
StopInv ==
    /\ running => stop = "idle"
    /\ running \/ stop # "idle" => acceptor # "off"

\* The wait group stays empty once Stop has found it so.
OkInv == stop = "ok" => Idle

\* A client belongs to the accept loop or to a goroutine.
ClientInv ==
    /\ \A s \in Accepted :
          /\ acceptor = s => pc[s] = "none"
          /\ client[s] = "open" => acceptor = s \/ pc[s] \notin {"none", "done"}
          /\ pc[s] = "done" => client[s] = "closed"
    /\ \A f \in Flows : client[f] = "none"

ServerInv ==
    \A s \in Sessions :
        server[s] = "open" => pc[s] \in {"dialed", "reply", "registered", "relay"}

ConnectionsInv ==
    \A s \in connections :
        /\ pc[s] \notin {"none", "done"}
        /\ s \in Flows => pc[s] # "dialing"

AdapterInv ==
    \A s \in Sessions :
        adapter[s] # Nobody =>
            pc[s] \in {"reply", "registered", "relay", "finish", "done"}

Attached(a) == {s \in Sessions : adapter[s] = a /\ pc[s] # "done"}

CountInv ==
    /\ active \in [Adapters -> Nat]
    /\ \A a \in Adapters : /\ IsFiniteSet(Attached(a))
                           /\ active[a] = Cardinality(Attached(a))

RelayInv ==
    \A s \in Accepted :
        relay[s] = "open" => pc[s] \in {"serving", "creating", "sending"}

\* The places of a flow on its way into the map of its association.
Creating == {"dialing", "dialed", "reply", "registered"}

\* A flow is created by its association, one at a time, and closed once.
FlowIs(f) ==
    /\ pc[f] \in {"none", "relay", "done"} \cup Creating
    /\ owner[f] = Nobody <=> pc[f] = "none"
    /\ pc[f] \in Creating => pc[owner[f]] = "creating" /\ busy[owner[f]] = f
    /\ once[f] = "done" <=> pc[f] = "done"
    /\ once[f] \in {"closed", "removed"} => pc[f] = "relay"
    /\ once[f] # "no" => server[f] = "closed"

FlowInv == \A f \in Flows : FlowIs(f)

\* a.flows has the flows of the association that are not removed yet.
MemberInv ==
    \A s \in Accepted, f \in Flows :
        f \in flows[s] <=>
            /\ owner[f] = s
            /\ \/ pc[f] = "registered"
               \/ pc[f] = "relay" /\ once[f] \in {"no", "closed"}

\* Who has flows serves them, or is about to close them.
HeldInv ==
    \A s \in Accepted : \A f \in flows[s] :
        \/ pc[s] \in {"serving", "creating", "sending"}
        \/ pc[s] = "sweep" /\ (f \in left[s] \/ f = busy[s])

TypeInv == BoolType /\ StopType /\ SessionType /\ FlowType

PoolInv == StopInv /\ OkInv /\ ClientInv

SessionInv ==
    /\ ServerInv /\ ConnectionsInv /\ AdapterInv /\ RelayInv
    /\ CountInv

AssociationInv == FlowInv /\ MemberInv /\ HeldInv

UInv == TypeInv /\ PoolInv /\ SessionInv /\ AssociationInv

-----------------------------------------------------------------------------

USE NobodyAssumption, AcceptorAssumption, FlowsAssumption
USE DEF poolVars, stopVars, sessionVars, vars, udpVars

\* A session comes through the listener or is a flow, and Nobody is none.
LEMMA Apart ==
    /\ Accepted \subseteq Sessions /\ Flows \subseteq Sessions
    /\ Accepted \cap Flows = {} /\ Sessions = Accepted \cup Flows
    /\ Nobody \notin Sessions
  BY DEF Accepted

-----------------------------------------------------------------------------
(* What the counters count                                                 *)

LEMMA CountStays ==
    ASSUME CountInv, UNCHANGED <<active, adapter>>,
           \A x \in Sessions :
               adapter[x] # Nobody => (pc'[x] = "done" <=> pc[x] = "done")
    PROVE  CountInv'
<1>1. \A a \in Adapters : Attached(a)' = Attached(a)
  BY DEF Attached
<1> QED BY <1>1 DEF CountInv

LEMMA CountMore ==
    ASSUME CountInv, NEW s \in Sessions, NEW a \in Adapters,
           adapter \in [Sessions -> Adapters \cup {Nobody}],
           adapter[s] = Nobody, pc'[s] # "done",
           adapter' = [adapter EXCEPT ![s] = a],
           active' = [active EXCEPT ![a] = @ + 1],
           \A x \in Sessions \ {s} : pc'[x] = pc[x]
    PROVE  CountInv'
<1>1. Attached(a)' = Attached(a) \cup {s} /\ s \notin Attached(a)
  BY DEF Attached
<1>2. \A b \in Adapters \ {a} : Attached(b)' = Attached(b)
  BY DEF Attached
<1>3. /\ active \in [Adapters -> Nat]
      /\ \A b \in Adapters : /\ IsFiniteSet(Attached(b))
                             /\ active[b] = Cardinality(Attached(b))
  BY DEF CountInv
<1>4. /\ IsFiniteSet(Attached(a) \cup {s})
      /\ Cardinality(Attached(a) \cup {s}) = Cardinality(Attached(a)) + 1
  BY <1>1, <1>3, FS_AddElement
<1>5. /\ active' \in [Adapters -> Nat]
      /\ active'[a] = active[a] + 1
      /\ \A b \in Adapters \ {a} : active'[b] = active[b]
  BY <1>3
<1>6. \A b \in Adapters : /\ IsFiniteSet(Attached(b)')
                         /\ active'[b] = Cardinality(Attached(b)')
  <2>1. /\ IsFiniteSet(Attached(a)')
        /\ active'[a] = Cardinality(Attached(a)')
    BY <1>1, <1>3, <1>4, <1>5
  <2>2. \A b \in Adapters \ {a} : /\ IsFiniteSet(Attached(b)')
                                 /\ active'[b] = Cardinality(Attached(b)')
    BY <1>2, <1>3, <1>5
  <2> QED BY <2>1, <2>2
<1> QED BY <1>5, <1>6 DEF CountInv

LEMMA CountLess ==
    ASSUME CountInv, NEW s \in Sessions,
           adapter \in [Sessions -> Adapters \cup {Nobody}],
           pc[s] # "done", pc'[s] = "done",
           Uncount(s), UNCHANGED adapter,
           \A x \in Sessions \ {s} : pc'[x] = pc[x]
    PROVE  CountInv'
<1>1. CASE adapter[s] = Nobody
  <2>1. active' = active
    BY <1>1 DEF Uncount
  <2>2. \A a \in Adapters : Attached(a)' = Attached(a)
    BY <1>1 DEF Attached
  <2> QED BY <2>1, <2>2 DEF CountInv
<1>2. CASE adapter[s] # Nobody
  <2>1. PICK a \in Adapters : adapter[s] = a
    BY <1>2
  <2>2. active' = [active EXCEPT ![a] = @ - 1]
    BY <1>2, <2>1 DEF Uncount
  <2>3. Attached(a)' = Attached(a) \ {s} /\ s \in Attached(a)
    BY <2>1 DEF Attached
  <2>4. \A b \in Adapters \ {a} : Attached(b)' = Attached(b)
    BY <2>1 DEF Attached
  <2>5. /\ active \in [Adapters -> Nat]
        /\ \A b \in Adapters : /\ IsFiniteSet(Attached(b))
                               /\ active[b] = Cardinality(Attached(b))
    BY DEF CountInv
  <2>6. /\ IsFiniteSet(Attached(a) \ {s})
        /\ Cardinality(Attached(a) \ {s}) = Cardinality(Attached(a)) - 1
        /\ Cardinality(Attached(a) \ {s}) \in Nat
    BY <2>3, <2>5, FS_RemoveElement, FS_CardinalityType
  <2>7. /\ active' \in [Adapters -> Nat]
        /\ active'[a] = active[a] - 1
        /\ \A b \in Adapters \ {a} : active'[b] = active[b]
    BY <2>2, <2>5, <2>6
  <2>8. \A b \in Adapters : /\ IsFiniteSet(Attached(b)')
                           /\ active'[b] = Cardinality(Attached(b)')
    BY <2>3, <2>4, <2>5, <2>6, <2>7
  <2> QED BY <2>7, <2>8 DEF CountInv
<1> QED BY <1>1, <1>2

-----------------------------------------------------------------------------
(* Steps that move no goroutine and no flow                                *)

\* Such a step closes connections at most.
LEMMA QuietKeeps ==
    ASSUME SessionType, FlowType, SessionInv, AssociationInv,
           UNCHANGED <<connections, active, pc, adapter, flows, owner, busy,
                       left, once>>,
           \A x \in Sessions : server'[x] \in {server[x], "closed"},
           \A x \in Accepted : relay'[x] \in {relay[x], "closed"}
    PROVE  SessionInv' /\ AssociationInv'
<1>1. ServerInv' /\ ConnectionsInv' /\ AdapterInv' /\ RelayInv'
  BY DEF SessionInv, ServerInv, ConnectionsInv, AdapterInv, RelayInv
<1>2. CountInv'
  BY CountStays DEF SessionInv
<1>3. FlowInv'
  BY Apart DEF AssociationInv, FlowInv, FlowIs, Creating
<1>4. MemberInv' /\ HeldInv'
  BY DEF AssociationInv, MemberInv, HeldInv
<1> QED BY <1>1, <1>2, <1>3, <1>4 DEF SessionInv, AssociationInv

\* Start, the accept loop, and the start of Stop.
LEMMA LoopKeeps ==
    ASSUME UInv, UNCHANGED udpVars,
           \/ Start \/ AcceptEnds \/ AcceptFails \/ StopBegin \/ CloseListeners
           \/ Snapshot \/ CloseAllEnds \/ StopDone \/ StopTimeout \/ StopAgain
    PROVE  UInv'
<1>1. /\ UNCHANGED <<connections, active, sessionVars, udpVars>>
      /\ SessionType' /\ FlowType'
      /\ SessionInv' /\ AssociationInv'
  <2>1. UNCHANGED <<connections, active, sessionVars>>
    BY DEF Start, AcceptEnds, AcceptFails, StopBegin, CloseListeners, Snapshot,
           CloseAllEnds, StopDone, StopTimeout, StopAgain
  <2>2. SessionType' /\ FlowType'
    BY <2>1 DEF UInv, TypeInv, SessionType, FlowType
  <2> QED BY <2>1, <2>2, QuietKeeps DEF UInv, TypeInv
<1>2. BoolType' /\ StopType'
  <2>1. BoolType'
    BY Zenon DEF UInv, TypeInv, BoolType, Start, AcceptEnds, AcceptFails,
       StopBegin, CloseListeners, Snapshot, CloseAllEnds, StopDone, StopTimeout,
       StopAgain
  <2>2. StopType'
    BY DEF UInv, TypeInv, StopType, StopStates, SessionType, Start, AcceptEnds,
       AcceptFails, StopBegin, CloseListeners, Snapshot, CloseAllEnds, StopDone,
       StopTimeout, StopAgain
  <2> QED BY <2>1, <2>2
<1>3. ClientInv'
  BY <1>1, Apart DEF UInv, PoolInv, ClientInv, Start, AcceptEnds, AcceptFails,
     StopBegin, CloseListeners, Snapshot, CloseAllEnds, StopDone, StopTimeout,
     StopAgain
<1>4. StopInv'
  BY DEF UInv, PoolInv, StopInv, Start, AcceptEnds, AcceptFails,
     StopBegin, CloseListeners, Snapshot, CloseAllEnds, StopDone, StopTimeout,
     StopAgain
<1>5. OkInv'
  BY <1>1 DEF UInv, PoolInv, OkInv, Idle, Start, AcceptEnds, AcceptFails,
     StopBegin, CloseListeners, Snapshot, CloseAllEnds, StopDone, StopTimeout,
     StopAgain
<1> QED BY <1>1, <1>2, <1>3, <1>4, <1>5 DEF UInv, TypeInv, PoolInv

\* A client is accepted, or refused while the pool is being stopped.
LEMMA AcceptKeeps ==
    ASSUME UInv, UNCHANGED udpVars, NEW s \in Accepted,
           AcceptReturns(s) \/ Refuse(s)
    PROVE  UInv'
<1>0. s \in Sessions /\ s \notin {"off", "accepting", "ended"}
  BY Apart
<1>1. UNCHANGED <<running, cancelled, listening, stopVars, connections,
                  active, pc, kind, server, adapter, relays, udpVars>>
  BY DEF AcceptReturns, Refuse
<1>2. client' \in [Sessions -> Conn]
  BY DEF UInv, TypeInv, SessionType, Conn, AcceptReturns, Refuse
<1>3. BoolType' /\ StopType' /\ SessionType' /\ FlowType'
  <2>1. BoolType' /\ FlowType'
    BY <1>1 DEF UInv, TypeInv, BoolType, FlowType
  <2>2. StopType'
    BY <1>0, <1>1 DEF UInv, TypeInv, StopType, AcceptReturns, Refuse
  <2>3. SessionType'
    BY <1>1, <1>2 DEF UInv, TypeInv, SessionType
  <2> QED BY <2>1, <2>2, <2>3
<1>4. SessionInv' /\ AssociationInv'
  BY <1>1, QuietKeeps DEF UInv, TypeInv
<1>5. StopInv' /\ OkInv'
  BY <1>0, <1>1 DEF UInv, PoolInv, StopInv, OkInv, Idle, AcceptReturns, Refuse
<1>6. ClientInv'
  <2>1. /\ pc[s] = "none" /\ pc' = pc
        /\ \A x \in Sessions \ {s} : client'[x] = client[x]
    BY <1>0 DEF UInv, TypeInv, SessionType, PoolInv, ClientInv, AcceptReturns,
                Refuse
  <2>2. \A x \in Accepted \ {s} : acceptor # x /\ acceptor' # x
    BY <1>0, Apart DEF AcceptReturns, Refuse
  <2>3. acceptor' = s \/ client'[s] = "closed"
    BY <1>0 DEF UInv, TypeInv, SessionType, AcceptReturns, Refuse
  <2> QED BY <1>0, <2>1, <2>2, <2>3, Apart DEF UInv, PoolInv, ClientInv
<1> QED BY <1>3, <1>4, <1>5, <1>6 DEF UInv, TypeInv, PoolInv

-----------------------------------------------------------------------------

\* CloseAll, the watcher of an association and the relays of a session.
LEMMA ClosingKeeps ==
    ASSUME UInv,
           UNCHANGED <<poolVars, stop, connections, active, pc, kind, adapter,
                       flows, owner, busy, left, once>>,
           todo' \in SUBSET Sessions, current' \in Sessions \cup {Nobody},
           client' \in [Sessions -> Conn],
           server' \in [Sessions -> Conn],
           relay' \in [Accepted -> Conn],
           relays' \in [Sessions -> SUBSET {"up", "down"}],
           \A x \in Accepted : client'[x] \in {client[x], "closed"},
           \A x \in Flows : client'[x] = client[x],
           \A x \in Sessions : server'[x] \in {server[x], "closed"},
           \A x \in Accepted : relay'[x] \in {relay[x], "closed"},
           \A x \in Sessions : relays'[x] \subseteq relays[x]
    PROVE  UInv'
<1>1. BoolType' /\ StopType'
  BY DEF UInv, TypeInv, BoolType, StopType
<1>2. SessionType' /\ FlowType'
  BY DEF UInv, TypeInv, SessionType, FlowType
<1>3. SessionInv' /\ AssociationInv'
  BY QuietKeeps DEF UInv, TypeInv
<1>4. StopInv' /\ OkInv'
  BY DEF UInv, PoolInv, StopInv, OkInv, Idle
<1>5. ClientInv'
  BY Apart DEF UInv, PoolInv, ClientInv
<1> QED BY <1>1, <1>2, <1>3, <1>4, <1>5 DEF UInv, TypeInv, PoolInv

LEMMA CloseClientKeeps ==
    ASSUME UInv, UNCHANGED udpVars, NEW s \in Accepted, CloseClient(s)
    PROVE  UInv'
<1>1. /\ client' = [client EXCEPT ![s] = "closed"]
      /\ current' = s
      /\ UNCHANGED <<poolVars, stop, todo, connections, active, pc, kind,
                     server, adapter, relays>>
  BY DEF CloseClient
<1>2. TypeInv /\ s \in Sessions /\ s \notin Flows
  BY Apart DEF UInv
<1>3. /\ client' \in [Sessions -> Conn]
      /\ \A x \in Sessions : client'[x] \in {client[x], "closed"}
      /\ \A x \in Sessions \ {s} : client'[x] = client[x]
  BY <1>1, <1>2 DEF TypeInv, SessionType, Conn
<1>4. /\ todo' \in SUBSET Sessions /\ current' \in Sessions \cup {Nobody}
      /\ server' \in [Sessions -> Conn] /\ relay' \in [Accepted -> Conn]
      /\ relays' \in [Sessions -> SUBSET {"up", "down"}]
  BY <1>1, <1>2 DEF TypeInv, StopType, SessionType, FlowType
<1> QED BY <1>1, <1>2, <1>3, <1>4, ClosingKeeps, Apart

LEMMA CloseUpstreamKeeps ==
    ASSUME UInv, UNCHANGED udpVars, CloseUpstream
    PROVE  UInv'
<1>1. /\ current \in Sessions /\ current' = Nobody
      /\ todo' = todo \ {current}
      /\ server' = server \/ server' = [server EXCEPT ![current] = "closed"]
      /\ UNCHANGED <<poolVars, stop, connections, active, pc, kind, client,
                     adapter, relays>>
  BY DEF UInv, TypeInv, StopType, CloseUpstream
<1>2. /\ server' \in [Sessions -> Conn]
      /\ \A x \in Sessions : server'[x] \in {server[x], "closed"}
  BY <1>1 DEF UInv, TypeInv, SessionType, Conn
<1>3. /\ todo' \in SUBSET Sessions /\ current' \in Sessions \cup {Nobody}
      /\ client' \in [Sessions -> Conn] /\ relay' \in [Accepted -> Conn]
      /\ relays' \in [Sessions -> SUBSET {"up", "down"}]
  BY <1>1 DEF UInv, TypeInv, StopType, SessionType, FlowType
<1> QED BY <1>1, <1>2, <1>3, ClosingKeeps

LEMMA EndRelayKeeps ==
    ASSUME UInv, UNCHANGED udpVars, NEW s \in Sessions, NEW r, EndRelay(s, r)
    PROVE  UInv'
<1>1. /\ relays' = [relays EXCEPT ![s] = @ \ {r}]
      /\ UNCHANGED <<poolVars, stopVars, connections, active, pc, kind, client,
                     server, adapter>>
  BY DEF EndRelay
<1>2. /\ relays' \in [Sessions -> SUBSET {"up", "down"}]
      /\ \A x \in Sessions : relays'[x] \subseteq relays[x]
  BY <1>1 DEF UInv, TypeInv, SessionType
<1>3. /\ todo' \in SUBSET Sessions /\ current' \in Sessions \cup {Nobody}
      /\ client' \in [Sessions -> Conn] /\ server' \in [Sessions -> Conn]
      /\ relay' \in [Accepted -> Conn]
  BY <1>1 DEF UInv, TypeInv, StopType, SessionType, FlowType
<1> QED BY <1>1, <1>2, <1>3, ClosingKeeps

LEMMA TalkKeeps ==
    ASSUME UInv, UNCHANGED udpVars, NEW s \in Sessions,
           RelayCut(s) \/ ClientTalks(s) \/ ServerTalks(s)
    PROVE  UInv'
  BY EndRelayKeeps DEF RelayCut, ClientTalks, ServerTalks

\* The relay of an association is closed by its watcher, or as the client of
\* one of its flows.
LEMMA CutKeeps ==
    ASSUME UInv, NEW s, relay' = [relay EXCEPT ![s] = "closed"],
           current' \in Sessions \cup {Nobody},
           UNCHANGED <<poolVars, stop, todo, connections, active, sessionVars,
                       flows, owner, busy, left, once>>
    PROVE  UInv'
<1>1. /\ relay' \in [Accepted -> Conn]
      /\ \A x \in Accepted : relay'[x] \in {relay[x], "closed"}
  BY DEF UInv, TypeInv, FlowType, Conn
<1>2. /\ todo' \in SUBSET Sessions
      /\ client' \in [Sessions -> Conn] /\ server' \in [Sessions -> Conn]
      /\ relays' \in [Sessions -> SUBSET {"up", "down"}]
  BY DEF UInv, TypeInv, StopType, SessionType
<1> QED BY <1>1, <1>2, ClosingKeeps

LEMMA WatchKeeps ==
    ASSUME UInv, NEW s \in Accepted, Watch(s)
    PROVE  UInv'
<1>1. current \in Sessions \cup {Nobody}
  BY DEF UInv, TypeInv, StopType
<1> QED BY <1>1, CutKeeps DEF Watch

LEMMA CloseRelayKeeps ==
    ASSUME UInv, NEW f \in Flows, CloseRelay(f)
    PROVE  UInv'
<1>1. current' \in Sessions \cup {Nobody}
  BY Apart DEF CloseRelay
<1> QED BY <1>1, CutKeeps DEF CloseRelay

-----------------------------------------------------------------------------

(* The goroutine of a session moves                                        *)

ServingPlaces == {"serving", "creating", "sending"}

\* The flows stay where they are.
LEMMA MoveKeepsFlows ==
    ASSUME SessionType, FlowType, AssociationInv,
           NEW s \in Accepted, NEW to \in Places, pc[s] # "creating",
           pc' = [pc EXCEPT ![s] = to],
           UNCHANGED <<flows, owner, busy, once>>,
           \A f \in Flows : server'[f] = server[f],
           \A x \in Accepted \ {s} : left'[x] = left[x],
           \A f \in flows[s] :
               \/ to \in ServingPlaces
               \/ to = "sweep" /\ (f \in left'[s] \/ f = busy[s])
    PROVE  AssociationInv'
<1>1. /\ \A f \in Flows : pc'[f] = pc[f]
      /\ \A x \in Accepted \ {s} : pc'[x] = pc[x]
      /\ pc'[s] = to
  BY Apart DEF SessionType
<1>2. FlowInv'
  <2> SUFFICES ASSUME NEW f \in Flows
               PROVE  /\ pc'[f] \in {"none", "relay", "done"} \cup Creating
                      /\ owner[f] = Nobody <=> pc'[f] = "none"
                      /\ pc'[f] \in Creating =>
                            pc'[owner[f]] = "creating" /\ busy[owner[f]] = f
                      /\ once[f] = "done" <=> pc'[f] = "done"
                      /\ once[f] \in {"closed", "removed"} => pc'[f] = "relay"
                      /\ once[f] # "no" => server'[f] = "closed"
    BY DEF FlowInv, FlowIs, Creating
  <2>1. owner[f] \in Accepted \cup {Nobody}
    BY DEF FlowType
  <2>2. pc[f] \in Creating => owner[f] # s /\ owner[f] \in Accepted
    BY <2>1 DEF AssociationInv, FlowInv, FlowIs, Creating
  <2> QED BY <1>1, <2>2 DEF AssociationInv, FlowInv, FlowIs
<1>3. MemberInv'
  BY <1>1 DEF AssociationInv, MemberInv
<1>4. HeldInv'
  BY <1>1 DEF AssociationInv, HeldInv, ServingPlaces
<1> QED BY <1>2, <1>3, <1>4 DEF AssociationInv

\* The goroutine of s goes to another place, or is started by the accept loop.
Moves(s, to) ==
    /\ pc' = [pc EXCEPT ![s] = to]
    /\ \/ pc[s] \notin {"none", "done", "creating"} /\ UNCHANGED acceptor
       \/ pc[s] = "none" /\ acceptor = s /\ acceptor' = "accepting"
    /\ UNCHANGED <<running, cancelled, listening, stopVars, kind, flows, owner,
                   busy, once>>

\* What it has changed belongs to s.
TouchesOnly(s) ==
    /\ connections' \in SUBSET Sessions
    /\ client' \in [Sessions -> Conn]
    /\ server' \in [Sessions -> Conn]
    /\ adapter' \in [Sessions -> Adapters \cup {Nobody}]
    /\ relays' \in [Sessions -> SUBSET {"up", "down"}]
    /\ relay' \in [Accepted -> Conn]
    /\ left' \in [Accepted -> SUBSET Flows]
    /\ \A x \in Sessions \ {s} : /\ client'[x] = client[x]
                                 /\ server'[x] = server[x]
                                 /\ adapter'[x] = adapter[x]
                                 /\ x \in connections' => x \in connections
    /\ \A x \in Accepted \ {s} : relay'[x] = relay[x] /\ left'[x] = left[x]

\* What the new place may hold.
Holds(s, to) ==
    /\ client'[s] \in {client[s], "closed"}
    /\ to = "done" => client'[s] = "closed"
    /\ server'[s] = "open" => to \in {"dialed", "reply", "registered", "relay"}
    /\ adapter'[s] # Nobody =>
          to \in {"reply", "registered", "relay", "finish", "done"}
    /\ relay'[s] = "open" => to \in ServingPlaces
    /\ s \in connections' => to # "done"
    /\ \A f \in flows[s] : \/ to \in ServingPlaces
                           \/ to = "sweep" /\ (f \in left'[s] \/ f = busy[s])

LEMMA MoveKeeps ==
    ASSUME UInv, NEW s \in Accepted, NEW to \in Places \ {"none"},
           Moves(s, to), TouchesOnly(s), Holds(s, to), CountInv'
    PROVE  UInv'
<1>0. /\ s \in Sessions /\ s \notin Flows
      /\ s \notin {"off", "accepting", "ended"}
  BY Apart
<1>1. /\ \A x \in Sessions \ {s} : pc'[x] = pc[x]
      /\ pc'[s] = to
      /\ pc' \in [Sessions -> Places]
  BY <1>0 DEF UInv, TypeInv, SessionType, Moves
<1>2. BoolType' /\ StopType'
  BY DEF UInv, TypeInv, BoolType, StopType, Moves
<1>3. SessionType' /\ FlowType'
  BY <1>1 DEF UInv, TypeInv, SessionType, FlowType, Moves, TouchesOnly
<1>4. stop # "ok"
  BY <1>0 DEF UInv, PoolInv, OkInv, Idle, Moves
<1>5. StopInv' /\ OkInv'
  BY <1>4 DEF UInv, PoolInv, StopInv, OkInv, Moves
<1>6. ClientInv'
  <2>1. \A f \in Flows : client'[f] = "none"
    BY <1>0, Apart DEF UInv, PoolInv, ClientInv, TouchesOnly
  <2>2. \A x \in Accepted \ {s} :
           /\ acceptor' = x => pc'[x] = "none"
           /\ client'[x] = "open" => acceptor' = x \/ pc'[x] \notin {"none", "done"}
           /\ pc'[x] = "done" => client'[x] = "closed"
    BY <1>0, <1>1, Apart DEF UInv, PoolInv, ClientInv, TouchesOnly, Moves
  <2>3. /\ acceptor' # s
        /\ client'[s] = "open" => pc'[s] \notin {"none", "done"}
        /\ pc'[s] = "done" => client'[s] = "closed"
    BY <1>0, <1>1 DEF UInv, PoolInv, ClientInv, Moves, Holds
  <2> QED BY <2>1, <2>2, <2>3 DEF ClientInv
<1>7. ServerInv' /\ ConnectionsInv' /\ AdapterInv' /\ RelayInv'
  <2>1. ServerInv'
    BY <1>1 DEF UInv, SessionInv, ServerInv, TouchesOnly, Holds
  <2>2. ConnectionsInv'
    BY <1>0, <1>1 DEF UInv, SessionInv, ConnectionsInv, TouchesOnly, Holds
  <2>3. AdapterInv'
    BY <1>1 DEF UInv, SessionInv, AdapterInv, TouchesOnly, Holds
  <2>4. RelayInv'
    BY <1>1, Apart DEF UInv, SessionInv, RelayInv, TouchesOnly, Holds,
                       ServingPlaces
  <2> QED BY <2>1, <2>2, <2>3, <2>4
<1>8. AssociationInv'
  <2>1. \A f \in Flows : server'[f] = server[f]
    BY <1>0, Apart DEF TouchesOnly
  <2>2. pc[s] # "creating"
    BY DEF Moves
  <2> QED BY <2>1, <2>2, MoveKeepsFlows DEF UInv, TypeInv, Moves, TouchesOnly,
                                          Holds
<1> QED BY <1>2, <1>3, <1>5, <1>6, <1>7, <1>8
        DEF UInv, TypeInv, PoolInv, SessionInv

\* What s holds where it is.
LEMMA Held ==
    ASSUME UInv, NEW s \in Accepted
    PROVE  /\ s \in Sessions /\ pc[s] \in Places
           /\ client[s] \in Conn
           /\ pc[s] \notin {"dialed", "reply", "registered", "relay"} =>
                 server[s] # "open"
           /\ pc[s] \notin {"reply", "registered", "relay", "finish", "done"} =>
                 adapter[s] = Nobody
           /\ pc[s] \notin ServingPlaces => relay[s] # "open"
           /\ pc[s] \notin ServingPlaces \cup {"sweep"} => flows[s] = {}
           /\ pc[s] \notin {"none", "done"} => acceptor # s
           /\ pc[s] \in {"none", "done"} => s \notin connections
<1>1. s \in Sessions
  BY Apart
<1>2. flows[s] \subseteq Flows
  BY DEF UInv, TypeInv, FlowType
<1>3. pc[s] \notin ServingPlaces \cup {"sweep"} => flows[s] = {}
  BY <1>2 DEF UInv, AssociationInv, HeldInv, ServingPlaces
<1> QED BY <1>1, <1>3 DEF UInv, TypeInv, SessionType, PoolInv, ClientInv,
           SessionInv, ServerInv, AdapterInv, RelayInv, ConnectionsInv,
           ServingPlaces

\* A step that only takes the goroutine to another place that is not the end.
LEMMA StepKeeps ==
    ASSUME UInv, NEW s \in Accepted, NEW to \in Places \ {"none", "done"},
           Moves(s, to),
           UNCHANGED <<connections, active, client, adapter, relay>>,
           left' \in [Accepted -> SUBSET Flows],
           \A x \in Accepted \ {s} : left'[x] = left[x],
           server' \in [Sessions -> Conn],
           relays' \in [Sessions -> SUBSET {"up", "down"}],
           \A x \in Sessions \ {s} : server'[x] = server[x],
           Holds(s, to)
    PROVE  UInv'
<1>1. TouchesOnly(s)
  BY DEF UInv, TypeInv, SessionType, FlowType, TouchesOnly
<1>2. CountInv'
  <2>1. \A x \in Sessions : pc'[x] = "done" <=> pc[x] = "done"
    BY Apart DEF UInv, TypeInv, SessionType, Moves
  <2> QED BY <2>1, CountStays DEF UInv, SessionInv
<1> QED BY <1>1, <1>2, MoveKeeps

LEMMA AdmitKeeps ==
    ASSUME UInv, UNCHANGED udpVars, NEW s \in Accepted, Admit(s)
    PROVE  UInv'
<1>1. /\ pc[s] = "none" /\ Moves(s, "handshake")
      /\ connections' = connections \cup {s}
      /\ UNCHANGED <<active, client, server, adapter, relays>>
  BY DEF UInv, PoolInv, ClientInv, Admit, Moves
<1>2. TouchesOnly(s)
  BY <1>1, Held DEF UInv, TypeInv, SessionType, FlowType, TouchesOnly
<1>3. Holds(s, "handshake")
  BY <1>1, Held DEF Holds, ServingPlaces
<1>4. CountInv'
  <2>1. \A x \in Sessions : pc'[x] = "done" <=> pc[x] = "done"
    BY <1>1, Held DEF UInv, TypeInv, SessionType, Moves
  <2> QED BY <1>1, <2>1, CountStays DEF UInv, SessionInv
<1> QED BY <1>1, <1>2, <1>3, <1>4, MoveKeeps DEF Places

LEMMA HandshakeKeeps ==
    ASSUME UInv, UNCHANGED udpVars, NEW s \in Accepted, Handshake(s)
    PROVE  UInv'
<1>1. PICK to \in {"dialing", "finish"} : pc' = [pc EXCEPT ![s] = to]
  BY DEF Handshake
<1>2. /\ pc[s] = "handshake" /\ Moves(s, to)
      /\ UNCHANGED <<connections, active, client, server, adapter, relays>>
  BY <1>1 DEF Handshake, Moves
<1>3. Holds(s, to)
  BY <1>2, Held DEF Holds, ServingPlaces
<1> QED BY <1>2, <1>3, StepKeeps
        DEF Places, UInv, TypeInv, SessionType, FlowType

LEMMA DialKeeps ==
    ASSUME UInv, UNCHANGED udpVars, NEW s \in Accepted, Dial(s)
    PROVE  UInv'
<1>1. pc[s] = "dialing" /\ server[s] # "open" /\ s \in Sessions
  BY Held DEF Dial
<1>2. CASE /\ server' = [server EXCEPT ![s] = "open"]
           /\ pc' = [pc EXCEPT ![s] = "dialed"]
  <2>1. /\ Moves(s, "dialed")
        /\ UNCHANGED <<connections, active, client, adapter, relays>>
    BY <1>1, <1>2 DEF Dial, Moves
  <2>2. /\ server' \in [Sessions -> Conn]
        /\ \A x \in Sessions \ {s} : server'[x] = server[x]
    BY <1>2 DEF UInv, TypeInv, SessionType, Conn
  <2>3. Holds(s, "dialed")
    BY <1>1, <2>1, Held DEF Holds, ServingPlaces
  <2> QED BY <2>1, <2>2, <2>3, StepKeeps
          DEF Places, UInv, TypeInv, SessionType, FlowType
<1>3. CASE pc' = [pc EXCEPT ![s] = "finish"] /\ UNCHANGED server
  <2>1. /\ Moves(s, "finish")
        /\ UNCHANGED <<connections, active, client, adapter, relays>>
    BY <1>1, <1>3 DEF Dial, Moves
  <2>2. Holds(s, "finish")
    BY <1>1, <1>3, <2>1, Held DEF Holds, ServingPlaces
  <2> QED BY <1>3, <2>1, <2>2, StepKeeps
          DEF Places, UInv, TypeInv, SessionType, FlowType
<1> QED BY <1>2, <1>3 DEF Dial

LEMMA AttachKeeps ==
    ASSUME UInv, UNCHANGED udpVars, NEW s \in Accepted, NEW a \in Adapters,
           Attach(s, a)
    PROVE  UInv'
<1>1. /\ pc[s] = "dialed" /\ adapter[s] = Nobody /\ s \in Sessions
      /\ Moves(s, "reply")
      /\ adapter' = [adapter EXCEPT ![s] = a]
      /\ active' = [active EXCEPT ![a] = @ + 1]
      /\ UNCHANGED <<connections, client, server, relays>>
  BY Held DEF Attach, Moves
<1>2. TouchesOnly(s)
  BY <1>1 DEF UInv, TypeInv, SessionType, FlowType, TouchesOnly
<1>3. Holds(s, "reply")
  BY <1>1, Held DEF Holds, ServingPlaces
<1>4. CountInv'
  <2>1. pc'[s] # "done" /\ \A x \in Sessions \ {s} : pc'[x] = pc[x]
    BY <1>1 DEF UInv, TypeInv, SessionType, Moves
  <2> QED BY <1>1, <2>1, CountMore DEF UInv, TypeInv, SessionType, SessionInv
<1> QED BY <1>1, <1>2, <1>3, <1>4, MoveKeeps DEF Places

LEMMA ReplyKeeps ==
    ASSUME UInv, UNCHANGED udpVars, NEW s \in Accepted, Reply(s)
    PROVE  UInv'
<1>1. /\ pc[s] = "reply" /\ s \in Sessions
      /\ Moves(s, "relay")
      /\ relays' = [relays EXCEPT ![s] = {"up", "down"}]
      /\ UNCHANGED <<connections, active, client, server, adapter>>
  BY Held DEF Reply, Moves
<1>2. relays' \in [Sessions -> SUBSET {"up", "down"}]
  BY <1>1 DEF UInv, TypeInv, SessionType
<1>3. Holds(s, "relay")
  BY <1>1, Held DEF Holds, ServingPlaces
<1> QED BY <1>1, <1>2, <1>3, StepKeeps
        DEF Places, UInv, TypeInv, SessionType, FlowType

\* The server is closed by the goroutine.
LEMMA HangUpKeeps ==
    ASSUME UInv, UNCHANGED udpVars, NEW s \in Accepted,
           ReplyFails(s) \/ RelayDone(s)
    PROVE  UInv'
<1>1. /\ pc[s] \in {"reply", "relay"} /\ s \in Sessions
      /\ Moves(s, "finish")
      /\ server' = [server EXCEPT ![s] = "closed"]
      /\ UNCHANGED <<connections, active, client, adapter, relays>>
  BY Held DEF ReplyFails, RelayDone, Moves
<1>2. /\ server' \in [Sessions -> Conn] /\ server'[s] = "closed"
      /\ \A x \in Sessions \ {s} : server'[x] = server[x]
  BY <1>1 DEF UInv, TypeInv, SessionType, Conn
<1>3. Holds(s, "finish")
  BY <1>1, <1>2, Held DEF Holds, ServingPlaces
<1> QED BY <1>1, <1>2, <1>3, StepKeeps
        DEF Places, UInv, TypeInv, SessionType, FlowType

LEMMA FinishKeeps ==
    ASSUME UInv, UNCHANGED udpVars, NEW s \in Accepted, Finish(s)
    PROVE  UInv'
<1>1. /\ pc[s] = "finish" /\ s \in Sessions
      /\ Moves(s, "done")
      /\ client' = [client EXCEPT ![s] = "closed"]
      /\ connections' = connections \ {s}
      /\ Uncount(s)
      /\ UNCHANGED <<server, adapter, relays>>
  BY Held DEF Finish, Moves
<1>2. client' \in [Sessions -> Conn] /\ client'[s] = "closed"
  BY <1>1 DEF UInv, TypeInv, SessionType, Conn
<1>3. TouchesOnly(s)
  BY <1>1, <1>2 DEF UInv, TypeInv, SessionType, FlowType, TouchesOnly
<1>4. Holds(s, "done")
  BY <1>1, <1>2, Held DEF Holds, ServingPlaces
<1>5. CountInv'
  <2>1. pc'[s] = "done" /\ \A x \in Sessions \ {s} : pc'[x] = pc[x]
    BY <1>1 DEF UInv, TypeInv, SessionType, Moves
  <2> QED BY <1>1, <2>1, CountLess DEF UInv, TypeInv, SessionType, SessionInv
<1> QED BY <1>1, <1>3, <1>4, <1>5, MoveKeeps DEF Places

-----------------------------------------------------------------------------

(* The goroutine of an association moves                                   *)

LEMMA ServeKeeps ==
    ASSUME UInv, NEW s \in Accepted, NEW to \in Places \ {"none", "done"},
           Moves(s, to),
           UNCHANGED <<connections, active, client, server, adapter>>,
           relays' \in [Sessions -> SUBSET {"up", "down"}],
           relay' \in [Accepted -> Conn],
           left' \in [Accepted -> SUBSET Flows],
           \A x \in Accepted \ {s} : relay'[x] = relay[x] /\ left'[x] = left[x],
           Holds(s, to)
    PROVE  UInv'
<1>1. TouchesOnly(s)
  BY DEF UInv, TypeInv, SessionType, FlowType, TouchesOnly
<1>2. CountInv'
  <2>1. \A x \in Sessions : pc'[x] = "done" <=> pc[x] = "done"
    BY Apart DEF UInv, TypeInv, SessionType, Moves
  <2> QED BY <2>1, CountStays DEF UInv, SessionInv
<1> QED BY <1>1, <1>2, MoveKeeps

LEMMA AssociateKeeps ==
    ASSUME UInv, NEW s \in Accepted, Associate(s)
    PROVE  UInv'
<1>1. /\ pc[s] = "handshake" /\ s \in Sessions
      /\ Moves(s, "serving")
      /\ relay' = [relay EXCEPT ![s] = "open"]
      /\ relays' = [relays EXCEPT ![s] = {"up"}]
      /\ UNCHANGED <<connections, active, client, server, adapter, left>>
  BY Held DEF Associate, Moves
<1>2. /\ relays' \in [Sessions -> SUBSET {"up", "down"}]
      /\ relay' \in [Accepted -> Conn]
      /\ \A x \in Accepted \ {s} : relay'[x] = relay[x]
  BY <1>1 DEF UInv, TypeInv, SessionType, FlowType, Conn
<1>3. Holds(s, "serving")
  BY <1>1, Held DEF Holds, ServingPlaces
<1> QED BY <1>1, <1>2, <1>3, ServeKeeps DEF Places, UInv, TypeInv, FlowType

LEMMA SweepKeeps ==
    ASSUME UInv, NEW s \in Accepted, ServeEnds(s) \/ ServeFails(s)
    PROVE  UInv'
<1>1. /\ pc[s] = "serving" /\ s \in Sessions
      /\ Moves(s, "sweep")
      /\ relay' = [relay EXCEPT ![s] = "closed"]
      /\ left' = [left EXCEPT ![s] = flows[s]]
      /\ UNCHANGED <<connections, active, client, server, adapter, relays>>
  BY Held DEF ServeEnds, ServeFails, Sweep, Moves
<1>2. /\ relay' \in [Accepted -> Conn] /\ relay'[s] = "closed"
      /\ left' \in [Accepted -> SUBSET Flows] /\ left'[s] = flows[s]
      /\ \A x \in Accepted \ {s} : relay'[x] = relay[x] /\ left'[x] = left[x]
  BY <1>1 DEF UInv, TypeInv, FlowType, Conn
<1>3. Holds(s, "sweep")
  BY <1>1, <1>2, Held DEF Holds, ServingPlaces
<1> QED BY <1>1, <1>2, <1>3, ServeKeeps DEF Places, UInv, TypeInv, SessionType

\* All flows of the association have been closed.
LEMMA SweepEndsKeeps ==
    ASSUME UInv, NEW s \in Accepted, SweepEnds(s)
    PROVE  UInv'
<1>1. /\ pc[s] = "sweep" /\ s \in Sessions
      /\ busy[s] = Nobody /\ left[s] = {}
      /\ Moves(s, "finish")
      /\ UNCHANGED <<connections, active, client, server, adapter, relays,
                     relay, left>>
  BY Held DEF SweepEnds, Moves
<1>2. flows[s] = {}
  <2>1. Nobody \notin flows[s]
    BY Apart DEF UInv, TypeInv, FlowType
  <2> QED BY <1>1, <2>1 DEF UInv, AssociationInv, HeldInv
<1>3. Holds(s, "finish")
  BY <1>1, <1>2, Held DEF Holds, ServingPlaces
<1> QED BY <1>1, <1>3, ServeKeeps
        DEF Places, UInv, TypeInv, SessionType, FlowType

\* The next flow is taken out of those that are left.
LEMMA SweepNextKeeps ==
    ASSUME UInv, NEW s \in Accepted, NEW f \in Flows, SweepNext(s, f)
    PROVE  UInv'
<1>1. /\ pc[s] = "sweep" /\ busy[s] = Nobody
      /\ busy' = [busy EXCEPT ![s] = f]
      /\ left' = [left EXCEPT ![s] = @ \ {f}]
      /\ UNCHANGED <<vars, relay, flows, owner, once>>
  BY DEF SweepNext
<1>2. /\ busy' \in [Accepted -> Flows \cup {Nobody}]
      /\ left' \in [Accepted -> SUBSET Flows]
      /\ \A x \in Accepted \ {s} : busy'[x] = busy[x] /\ left'[x] = left[x]
      /\ busy'[s] = f /\ left'[s] = left[s] \ {f}
  BY <1>1 DEF UInv, TypeInv, FlowType
<1>3. BoolType' /\ StopType' /\ SessionType' /\ FlowType'
  BY <1>1, <1>2
  DEF UInv, TypeInv, BoolType, StopType, SessionType, FlowType
<1>4. PoolInv'
  BY <1>1 DEF UInv, PoolInv, StopInv, OkInv, Idle, ClientInv
<1>5. SessionInv'
  <2>1. ServerInv' /\ ConnectionsInv' /\ AdapterInv' /\ RelayInv'
    BY <1>1 DEF UInv, SessionInv, ServerInv, ConnectionsInv, AdapterInv,
                RelayInv
  <2>2. CountInv'
    BY <1>1, CountStays DEF UInv, SessionInv
  <2> QED BY <2>1, <2>2 DEF SessionInv
<1>6. FlowInv'
  <2>1. \A g \in Flows : pc[g] \in Creating => owner[g] \in Accepted \ {s}
    BY <1>1 DEF UInv, TypeInv, FlowType, AssociationInv, FlowInv, FlowIs, Creating
  <2> QED BY <1>1, <1>2, <2>1 DEF UInv, AssociationInv, FlowInv, FlowIs, Creating
<1>7. MemberInv'
  BY <1>1 DEF UInv, AssociationInv, MemberInv
<1>8. HeldInv'
  <2>1. Nobody \notin flows[s]
    BY Apart DEF UInv, TypeInv, FlowType
  <2> QED BY <1>1, <1>2, <2>1 DEF UInv, AssociationInv, HeldInv
<1> QED BY <1>3, <1>4, <1>5, <1>6, <1>7, <1>8
        DEF UInv, TypeInv, AssociationInv

-----------------------------------------------------------------------------
(* A flow moves, and perhaps its association between serving places        *)

LEMMA FlowMoveKeeps ==
    ASSUME UInv,
           UNCHANGED <<poolVars, stopVars, kind, client, relay>>,
           NEW z \in Sessions, pc[z] \notin {"none", "done"},
           SessionType', FlowType',
           \A x \in Accepted :
               pc'[x] = pc[x] \/ {pc[x], pc'[x]} \subseteq ServingPlaces
    PROVE  TypeInv' /\ PoolInv' /\ RelayInv'
<1>1. BoolType' /\ StopType'
  BY DEF UInv, TypeInv, BoolType, StopType
<1>2. stop # "ok"
  BY DEF UInv, PoolInv, OkInv, Idle
<1>3. StopInv' /\ OkInv'
  BY <1>2 DEF UInv, PoolInv, StopInv, OkInv
<1>4. ClientInv'
  <2>1. \A x \in Accepted : /\ pc[x] = "none" <=> pc'[x] = "none"
                            /\ pc[x] = "done" <=> pc'[x] = "done"
    BY DEF ServingPlaces
  <2> QED BY <2>1 DEF UInv, PoolInv, ClientInv
<1>5. RelayInv'
  BY DEF UInv, SessionInv, RelayInv, ServingPlaces
<1> QED BY <1>1, <1>3, <1>4, <1>5 DEF TypeInv, PoolInv

\* What a flow holds where it is.
LEMMA HeldFlow ==
    ASSUME UInv, NEW f \in Flows
    PROVE  /\ f \in Sessions /\ f \notin Accepted
           /\ pc[f] \in {"none", "relay", "done"} \cup Creating
           /\ pc[f] \notin {"dialed", "reply", "registered", "relay"} =>
                 server[f] # "open"
           /\ pc[f] \notin {"reply", "registered", "relay", "done"} =>
                 adapter[f] = Nobody
           /\ pc[f] \in {"none", "dialing", "done"} => f \notin connections
           /\ pc[f] # "none" => owner[f] \in Accepted /\ owner[f] \in Sessions
           /\ pc[f] = "none" => owner[f] = Nobody
           /\ pc[f] \in Creating =>
                 pc[owner[f]] = "creating" /\ busy[owner[f]] = f
           /\ pc[f] \in {"none"} \cup Creating => once[f] = "no"
<1>1. f \in Sessions /\ f \notin Accepted /\ Accepted \subseteq Sessions
  BY Apart
<1>2. owner[f] \in Accepted \cup {Nobody} /\ once[f] \in OnceStates
  BY DEF UInv, TypeInv, FlowType
<1>3. /\ pc[f] \in {"none", "relay", "done"} \cup Creating
      /\ pc[f] # "none" => owner[f] \in Accepted /\ owner[f] \in Sessions
      /\ pc[f] = "none" => owner[f] = Nobody
      /\ pc[f] \in Creating =>
            pc[owner[f]] = "creating" /\ busy[owner[f]] = f
      /\ pc[f] \in {"none"} \cup Creating => once[f] = "no"
  BY <1>1, <1>2 DEF UInv, AssociationInv, FlowInv, FlowIs, Creating, OnceStates
<1>4. /\ server[f] = "open" => pc[f] \in {"dialed", "reply", "registered", "relay"}
      /\ adapter[f] # Nobody =>
            pc[f] \in {"reply", "registered", "relay", "finish", "done"}
      /\ f \in connections => pc[f] \notin {"none", "dialing", "done"}
  BY <1>1 DEF UInv, SessionInv, ServerInv, AdapterInv, ConnectionsInv
<1> QED BY <1>1, <1>3, <1>4 DEF Creating

\* A flow that does not move.
LEMMA FlowStays ==
    ASSUME NEW g, FlowIs(g),
           pc'[g] = pc[g], owner'[g] = owner[g], once'[g] = once[g],
           server[g] = "closed" => server'[g] = "closed",
           pc[g] \in Creating =>
               pc'[owner[g]] = "creating" /\ busy'[owner[g]] = g
    PROVE  FlowIs(g)'
  BY DEF FlowIs, Creating

\* An association creates one flow at a time.
LEMMA OthersStay ==
    ASSUME UInv, NEW f \in Flows,
           \A g \in Flows \ {f} :
               /\ pc'[g] = pc[g] /\ owner'[g] = owner[g] /\ once'[g] = once[g]
               /\ server[g] = "closed" => server'[g] = "closed",
           \A x \in Accepted :
               \/ pc'[x] = pc[x] /\ busy'[x] = busy[x]
               \/ pc[x] # "creating" \/ busy[x] = f
    PROVE  \A g \in Flows \ {f} : FlowIs(g)'
<1> SUFFICES ASSUME NEW g \in Flows \ {f} PROVE FlowIs(g)'
  OBVIOUS
<1>1. pc[g] \in Creating => pc'[owner[g]] = "creating" /\ busy'[owner[g]] = g
  <2>1. pc[g] \in Creating => /\ owner[g] \in Accepted
                             /\ pc[owner[g]] = "creating" /\ busy[owner[g]] = g
    BY HeldFlow DEF Creating
  <2> QED BY <2>1
<1>2. FlowIs(g)
  BY DEF UInv, AssociationInv, FlowInv
<1> QED BY <1>1, <1>2, FlowStays

\* A flow is begun for a new target.
LEMMA ForwardKeeps ==
    ASSUME UInv, NEW s \in Accepted, NEW f \in Flows, Forward(s, f)
    PROVE  UInv'
<1>1. /\ s \in Sessions /\ f \in Sessions /\ s # f /\ s \notin Flows
      /\ pc[s] = "serving" /\ pc[f] = "none"
      /\ pc' = [pc EXCEPT ![s] = "creating", ![f] = "dialing"]
      /\ owner' = [owner EXCEPT ![f] = s]
      /\ busy' = [busy EXCEPT ![s] = f]
      /\ UNCHANGED <<poolVars, stopVars, connections, active, kind, client,
                     server, adapter, relays, relay, flows, left, once>>
  BY Apart DEF Forward
<1>2. /\ pc' \in [Sessions -> Places]
      /\ pc'[s] = "creating" /\ pc'[f] = "dialing"
      /\ \A x \in Sessions \ {s, f} : pc'[x] = pc[x]
  BY <1>1 DEF UInv, TypeInv, SessionType, Places
<1>3. /\ owner' \in [Flows -> Accepted \cup {Nobody}]
      /\ busy' \in [Accepted -> Flows \cup {Nobody}]
      /\ owner'[f] = s /\ busy'[s] = f
      /\ \A g \in Flows \ {f} : owner'[g] = owner[g]
      /\ \A x \in Accepted \ {s} : busy'[x] = busy[x]
  BY <1>1 DEF UInv, TypeInv, FlowType
<1>4. SessionType' /\ FlowType'
  BY <1>1, <1>2, <1>3 DEF UInv, TypeInv, SessionType, FlowType
<1>5. TypeInv' /\ PoolInv' /\ RelayInv'
  BY <1>1, <1>2, <1>4, FlowMoveKeeps, Apart DEF ServingPlaces
<1>6. ServerInv' /\ ConnectionsInv' /\ AdapterInv'
  <2>1. server[f] # "open" /\ adapter[f] = Nobody /\ f \notin connections
    BY <1>1, HeldFlow
  <2>2. server[s] # "open" /\ adapter[s] = Nobody
    BY <1>1, Held
  <2> QED BY <1>1, <1>2, <2>1, <2>2
          DEF UInv, TypeInv, SessionType, SessionInv, ServerInv,
              ConnectionsInv, AdapterInv
<1>7. CountInv'
  BY <1>1, <1>2, CountStays DEF UInv, SessionInv
<1>8. FlowInv'
  <2>1. \A g \in Flows \ {f} : FlowIs(g)'
    BY <1>1, <1>2, <1>3, OthersStay, Apart
  <2>2. once[f] = "no" /\ s # Nobody
    BY <1>1, HeldFlow, Apart
  <2>3. FlowIs(f)'
    BY <1>1, <1>2, <1>3, <2>2 DEF FlowIs, Creating
  <2> QED BY <2>1, <2>3 DEF FlowInv
<1>9. MemberInv'
  <2>1. owner[f] = Nobody /\ Nobody \notin Accepted
    BY <1>1, HeldFlow, Apart
  <2> QED BY <1>1, <1>2, <1>3, <2>1, Apart
          DEF UInv, AssociationInv, MemberInv
<1>10. HeldInv'
  BY <1>1, <1>2, <1>3, Apart DEF UInv, AssociationInv, HeldInv
<1> QED BY <1>5, <1>6, <1>7, <1>8, <1>9, <1>10
        DEF UInv, SessionInv, AssociationInv

\* Until it is in the map only the flow moves.
LEMMA CreatingKeeps ==
    ASSUME UInv, NEW f \in Flows, NEW to \in {"dialing", "dialed", "reply"},
           pc[f] \in {"dialing", "dialed", "reply"},
           pc' = [pc EXCEPT ![f] = to],
           UNCHANGED <<poolVars, stopVars, kind, client, relays, udpVars>>,
           connections' \in SUBSET Sessions,
           server' \in [Sessions -> Conn],
           adapter' \in [Sessions -> Adapters \cup {Nobody}],
           \A x \in Sessions \ {f} :
               /\ server'[x] = server[x] /\ adapter'[x] = adapter[x]
               /\ x \in connections' => x \in connections,
           server'[f] = "open" => to # "dialing",
           f \in connections' => to # "dialing",
           adapter'[f] # Nobody => to = "reply",
           CountInv'
    PROVE  UInv'
<1>1. /\ f \in Sessions /\ f \notin Accepted /\ once[f] = "no"
      /\ owner[f] \in Accepted
      /\ pc[owner[f]] = "creating" /\ busy[owner[f]] = f
  BY HeldFlow DEF Creating
<1>2. /\ pc' \in [Sessions -> Places]
      /\ pc'[f] = to
      /\ \A x \in Sessions \ {f} : pc'[x] = pc[x]
  BY <1>1 DEF UInv, TypeInv, SessionType, Places
<1>3. SessionType' /\ FlowType'
  BY <1>2 DEF UInv, TypeInv, SessionType, FlowType
<1>4. TypeInv' /\ PoolInv' /\ RelayInv'
  BY <1>1, <1>2, <1>3, FlowMoveKeeps, Apart
<1>5. ServerInv' /\ ConnectionsInv' /\ AdapterInv'
  BY <1>2 DEF UInv, SessionInv, ServerInv, ConnectionsInv, AdapterInv
<1>6. FlowInv'
  <2>1. \A g \in Flows \ {f} : FlowIs(g)'
    BY <1>1, <1>2, OthersStay, Apart
  <2>2. owner[f] # Nobody /\ pc'[owner[f]] = "creating"
    BY <1>1, <1>2, Apart
  <2>3. FlowIs(f)'
    BY <1>1, <1>2, <2>2 DEF FlowIs, Creating
  <2> QED BY <2>1, <2>3 DEF FlowInv
<1>7. MemberInv'
  BY <1>1, <1>2, Apart DEF UInv, AssociationInv, MemberInv
<1>8. HeldInv'
  BY <1>1, <1>2, Apart DEF UInv, AssociationInv, HeldInv
<1> QED BY <1>4, <1>5, <1>6, <1>7, <1>8 DEF UInv, SessionInv, AssociationInv

\* No adapter is found for the flow, and it is given up.
LEMMA GiveUpKeeps ==
    ASSUME UInv, NEW f \in Flows, pc[f] = "dialing",
           pc' = [pc EXCEPT ![f] = "none", ![owner[f]] = "serving"],
           owner' = [owner EXCEPT ![f] = Nobody],
           busy' = [busy EXCEPT ![owner[f]] = Nobody],
           UNCHANGED <<poolVars, stopVars, connections, active, kind, client,
                       server, adapter, relays, relay, flows, left, once>>
    PROVE  UInv'
<1>1. /\ f \in Sessions /\ f \notin Accepted /\ once[f] = "no"
      /\ pc[owner[f]] = "creating" /\ busy[owner[f]] = f
      /\ server[f] # "open" /\ adapter[f] = Nobody /\ f \notin connections
  BY HeldFlow DEF Creating
<1>2. PICK s \in Accepted : owner[f] = s
  BY HeldFlow DEF Creating
<1>3. s \in Sessions /\ s # f /\ server[s] # "open" /\ adapter[s] = Nobody
  BY <1>1, <1>2, Held
<1>4. /\ pc' \in [Sessions -> Places]
      /\ pc'[f] = "none" /\ pc'[s] = "serving"
      /\ \A x \in Sessions \ {s, f} : pc'[x] = pc[x]
  BY <1>1, <1>2, <1>3 DEF UInv, TypeInv, SessionType, Places
<1>5. /\ owner' \in [Flows -> Accepted \cup {Nobody}]
      /\ busy' \in [Accepted -> Flows \cup {Nobody}]
      /\ owner'[f] = Nobody /\ busy'[s] = Nobody
      /\ \A g \in Flows \ {f} : owner'[g] = owner[g]
      /\ \A x \in Accepted \ {s} : busy'[x] = busy[x]
  BY <1>2 DEF UInv, TypeInv, FlowType
<1>6. SessionType' /\ FlowType'
  BY <1>4, <1>5 DEF UInv, TypeInv, SessionType, FlowType
<1>7. TypeInv' /\ PoolInv' /\ RelayInv'
  BY <1>1, <1>2, <1>4, <1>6, FlowMoveKeeps, Apart DEF ServingPlaces
<1>8. ServerInv' /\ ConnectionsInv' /\ AdapterInv'
  BY <1>1, <1>2, <1>3, <1>4 DEF UInv, TypeInv, SessionType, SessionInv,
     ServerInv, ConnectionsInv, AdapterInv
<1>9. CountInv'
  BY <1>1, <1>2, <1>4, CountStays DEF UInv, SessionInv
<1>10. FlowInv'
  <2>1. \A g \in Flows \ {f} : FlowIs(g)'
    BY <1>1, <1>2, <1>4, <1>5, OthersStay, Apart
  <2>2. FlowIs(f)'
    BY <1>1, <1>4, <1>5 DEF FlowIs, Creating
  <2> QED BY <2>1, <2>2 DEF FlowInv
<1>11. MemberInv'
  <2>1. Nobody \notin Accepted
    BY Apart
  <2> QED BY <1>1, <1>2, <1>4, <1>5, <2>1, Apart
          DEF UInv, AssociationInv, MemberInv
<1>12. HeldInv'
  BY <1>1, <1>2, <1>4, <1>5, Apart DEF UInv, AssociationInv, HeldInv
<1> QED BY <1>7, <1>8, <1>9, <1>10, <1>11, <1>12
        DEF UInv, SessionInv, AssociationInv

LEMMA CreateFlowKeeps ==
    ASSUME UInv, NEW f \in Flows, CreateFlow(f)
    PROVE  UInv'
<1>1. /\ pc[f] = "dialing" /\ f \notin connections /\ adapter[f] = Nobody
      /\ f \in Sessions
      /\ UNCHANGED <<poolVars, stopVars, connections, active, kind, client,
                     adapter, relays, relay, flows, left, once>>
  BY HeldFlow DEF CreateFlow
<1>2. CASE /\ server' = [server EXCEPT ![f] = "open"]
           /\ pc' = [pc EXCEPT ![f] = "dialed"]
           /\ UNCHANGED <<owner, busy>>
  <2>1. /\ server' \in [Sessions -> Conn]
        /\ \A x \in Sessions \ {f} : server'[x] = server[x]
    BY <1>2 DEF UInv, TypeInv, SessionType, Conn
  <2>2. connections' \in SUBSET Sessions
        /\ adapter' \in [Sessions -> Adapters \cup {Nobody}]
    BY <1>1 DEF UInv, TypeInv, SessionType
  <2>3. CountInv'
    <3>1. \A x \in Sessions : pc'[x] = "done" <=> pc[x] = "done"
      BY <1>1, <1>2 DEF UInv, TypeInv, SessionType
    <3> QED BY <1>1, <3>1, CountStays DEF UInv, SessionInv
  <2> QED BY <1>1, <1>2, <2>1, <2>2, <2>3, CreatingKeeps
<1>3. CASE /\ pc' = [pc EXCEPT ![f] = "none", ![owner[f]] = "serving"]
           /\ owner' = [owner EXCEPT ![f] = Nobody]
           /\ busy' = [busy EXCEPT ![owner[f]] = Nobody]
           /\ UNCHANGED server
  BY <1>1, <1>3, GiveUpKeeps
<1> QED BY <1>2, <1>3 DEF CreateFlow

LEMMA BeginAddressKeeps ==
    ASSUME UInv, NEW f \in Flows, BeginAddress(f)
    PROVE  UInv'
<1>1. /\ pc[f] = "dialed" /\ f \in Sessions /\ adapter[f] = Nobody
      /\ connections' = connections \cup {f}
      /\ UNCHANGED <<poolVars, stopVars, active, sessionVars, udpVars>>
  BY HeldFlow DEF BeginAddress
<1>2. pc' = [pc EXCEPT ![f] = "dialed"]
  BY <1>1 DEF UInv, TypeInv, SessionType
<1>3. /\ connections' \in SUBSET Sessions
      /\ server' \in [Sessions -> Conn]
      /\ adapter' \in [Sessions -> Adapters \cup {Nobody}]
      /\ \A x \in Sessions \ {f} : x \in connections' => x \in connections
  BY <1>1 DEF UInv, TypeInv, SessionType
<1>4. CountInv'
  BY <1>1, CountStays DEF UInv, SessionInv
<1> QED BY <1>1, <1>2, <1>3, <1>4, CreatingKeeps

LEMMA AttachFlowKeeps ==
    ASSUME UInv, NEW f \in Flows, NEW a \in Adapters, Attach(f, a),
           UNCHANGED udpVars
    PROVE  UInv'
<1>1. /\ pc[f] = "dialed" /\ f \in Sessions /\ adapter[f] = Nobody
      /\ pc' = [pc EXCEPT ![f] = "reply"]
      /\ adapter' = [adapter EXCEPT ![f] = a]
      /\ active' = [active EXCEPT ![a] = @ + 1]
      /\ UNCHANGED <<poolVars, stopVars, connections, kind, client, server,
                     relays>>
  BY HeldFlow DEF Attach
<1>2. /\ adapter' \in [Sessions -> Adapters \cup {Nobody}]
      /\ connections' \in SUBSET Sessions /\ server' \in [Sessions -> Conn]
      /\ \A x \in Sessions \ {f} : adapter'[x] = adapter[x]
  BY <1>1 DEF UInv, TypeInv, SessionType
<1>3. CountInv'
  <2>1. pc'[f] # "done" /\ \A x \in Sessions \ {f} : pc'[x] = pc[x]
    BY <1>1 DEF UInv, TypeInv, SessionType
  <2> QED BY <1>1, <2>1, CountMore DEF UInv, TypeInv, SessionType, SessionInv
<1> QED BY <1>1, <1>2, <1>3, CreatingKeeps

\* The flow is put into the map.
LEMMA RegisterKeeps ==
    ASSUME UInv, NEW f \in Flows, Register(f)
    PROVE  UInv'
<1>1. /\ f \in Sessions /\ f \notin Accepted /\ once[f] = "no"
      /\ pc[f] = "reply"
      /\ pc[owner[f]] = "creating" /\ busy[owner[f]] = f
      /\ pc' = [pc EXCEPT ![f] = "registered"]
      /\ flows' = [flows EXCEPT ![owner[f]] = @ \cup {f}]
      /\ UNCHANGED <<poolVars, stopVars, connections, active, kind, client,
                     server, adapter, relays, relay, owner, busy, left, once>>
  BY HeldFlow DEF Register, Creating
<1>2. PICK s \in Accepted : owner[f] = s
  BY <1>1, HeldFlow
<1>3. /\ pc' \in [Sessions -> Places]
      /\ pc'[f] = "registered"
      /\ \A x \in Sessions \ {f} : pc'[x] = pc[x]
  BY <1>1 DEF UInv, TypeInv, SessionType, Places
<1>4. /\ flows' \in [Accepted -> SUBSET Flows]
      /\ flows'[s] = flows[s] \cup {f}
      /\ \A x \in Accepted \ {s} : flows'[x] = flows[x]
  BY <1>1, <1>2 DEF UInv, TypeInv, FlowType
<1>5. SessionType' /\ FlowType'
  BY <1>1, <1>3, <1>4 DEF UInv, TypeInv, SessionType, FlowType
<1>6. TypeInv' /\ PoolInv' /\ RelayInv'
  BY <1>1, <1>3, <1>5, FlowMoveKeeps, Apart
<1>7. ServerInv' /\ ConnectionsInv' /\ AdapterInv'
  BY <1>1, <1>3 DEF UInv, SessionInv, ServerInv, ConnectionsInv, AdapterInv
<1>8. CountInv'
  BY <1>1, <1>3, CountStays DEF UInv, SessionInv
<1>9. FlowInv'
  <2>1. \A g \in Flows \ {f} : FlowIs(g)'
    BY <1>1, <1>3, OthersStay, Apart
  <2>2. s # f /\ s \in Sessions /\ s # Nobody
    BY <1>1, Apart
  <2>3. FlowIs(f)'
    BY <1>1, <1>2, <1>3, <2>2 DEF FlowIs, Creating
  <2> QED BY <2>1, <2>3 DEF FlowInv
<1>10. MemberInv'
  BY <1>1, <1>2, <1>3, <1>4, Apart DEF UInv, AssociationInv, MemberInv
<1>11. HeldInv'
  <2>1. \A x \in Accepted : pc'[x] = pc[x]
    BY <1>1, <1>3, Apart
  <2> QED BY <1>1, <1>2, <1>4, <2>1 DEF UInv, AssociationInv, HeldInv
<1> QED BY <1>6, <1>7, <1>8, <1>9, <1>10, <1>11
        DEF UInv, SessionInv, AssociationInv

\* Its receive loop starts, and the association serves again.
LEMMA ReceiveKeeps ==
    ASSUME UInv, NEW f \in Flows, Receive(f)
    PROVE  UInv'
<1>1. /\ f \in Sessions /\ f \notin Accepted /\ once[f] = "no"
      /\ pc[f] = "registered"
      /\ pc[owner[f]] = "creating" /\ busy[owner[f]] = f
      /\ pc' = [pc EXCEPT ![f] = "relay", ![owner[f]] = "serving"]
      /\ relays' = [relays EXCEPT ![f] = {"down"}]
      /\ busy' = [busy EXCEPT ![owner[f]] = Nobody]
      /\ UNCHANGED <<poolVars, stopVars, connections, active, kind, client,
                     server, adapter, relay, flows, owner, left, once>>
  BY HeldFlow DEF Receive, Creating
<1>2. PICK s \in Accepted : owner[f] = s
  BY <1>1, HeldFlow
<1>3. /\ s \in Sessions /\ s # f /\ s # Nobody
      /\ server[s] # "open" /\ adapter[s] = Nobody
  BY <1>1, <1>2, Held, Apart
<1>4. /\ pc' \in [Sessions -> Places]
      /\ pc'[f] = "relay" /\ pc'[s] = "serving"
      /\ \A x \in Sessions \ {s, f} : pc'[x] = pc[x]
  BY <1>1, <1>2, <1>3 DEF UInv, TypeInv, SessionType, Places
<1>5. /\ relays' \in [Sessions -> SUBSET {"up", "down"}]
      /\ busy' \in [Accepted -> Flows \cup {Nobody}]
      /\ \A x \in Accepted \ {s} : busy'[x] = busy[x]
  BY <1>1, <1>2 DEF UInv, TypeInv, SessionType, FlowType
<1>6. SessionType' /\ FlowType'
  BY <1>1, <1>4, <1>5 DEF UInv, TypeInv, SessionType, FlowType
<1>7. TypeInv' /\ PoolInv' /\ RelayInv'
  BY <1>1, <1>2, <1>4, <1>6, FlowMoveKeeps, Apart DEF ServingPlaces
<1>8. ServerInv' /\ ConnectionsInv' /\ AdapterInv'
  BY <1>1, <1>2, <1>3, <1>4 DEF UInv, TypeInv, SessionType, SessionInv,
     ServerInv, ConnectionsInv, AdapterInv
<1>9. CountInv'
  BY <1>1, <1>2, <1>4, CountStays DEF UInv, SessionInv
<1>10. FlowInv'
  <2>1. \A g \in Flows \ {f} : FlowIs(g)'
    BY <1>1, <1>2, <1>4, <1>5, OthersStay, Apart
  <2>2. FlowIs(f)'
    BY <1>1, <1>2, <1>3, <1>4 DEF FlowIs, Creating
  <2> QED BY <2>1, <2>2 DEF FlowInv
<1>11. MemberInv'
  BY <1>1, <1>2, <1>4, Apart DEF UInv, AssociationInv, MemberInv
<1>12. HeldInv'
  BY <1>1, <1>2, <1>4, <1>5, Apart DEF UInv, AssociationInv, HeldInv
<1> QED BY <1>7, <1>8, <1>9, <1>10, <1>11, <1>12
        DEF UInv, SessionInv, AssociationInv

-----------------------------------------------------------------------------

(* A flow is closed                                                        *)

\* The goroutine of the association waits for a close, or has done so.
LEMMA WaitKeeps ==
    ASSUME UInv, NEW s \in Accepted, NEW b \in Flows \cup {Nobody},
           NEW to \in ServingPlaces \cup {"sweep"},
           \/ pc[s] \in {"serving", "sending"} /\ to \in ServingPlaces
           \/ pc[s] = "sweep" /\ to = "sweep" /\ busy[s] \notin flows[s],
           pc' = [pc EXCEPT ![s] = to],
           busy' = [busy EXCEPT ![s] = b],
           UNCHANGED <<poolVars, stopVars, connections, active, kind, client,
                       server, adapter, relays, relay, flows, owner, left,
                       once>>
    PROVE  UInv'
<1>1. /\ s \in Sessions /\ s \notin Flows
      /\ server[s] # "open" /\ adapter[s] = Nobody
  BY Held, Apart DEF ServingPlaces
<1>2. /\ pc' \in [Sessions -> Places] /\ pc'[s] = to
      /\ \A x \in Sessions \ {s} : pc'[x] = pc[x]
  BY <1>1 DEF UInv, TypeInv, SessionType, Places, ServingPlaces
<1>3. /\ busy' \in [Accepted -> Flows \cup {Nobody}]
      /\ \A x \in Accepted \ {s} : busy'[x] = busy[x]
  BY DEF UInv, TypeInv, FlowType
<1>4. SessionType' /\ FlowType'
  BY <1>2, <1>3 DEF UInv, TypeInv, SessionType, FlowType
<1>5. TypeInv' /\ PoolInv' /\ RelayInv'
  BY <1>1, <1>2, <1>4, FlowMoveKeeps, Apart DEF ServingPlaces
<1>6. ServerInv' /\ ConnectionsInv' /\ AdapterInv'
  BY <1>1, <1>2 DEF UInv, SessionInv, ServerInv, ConnectionsInv, AdapterInv,
                    ServingPlaces
<1>7. CountInv'
  BY <1>1, <1>2, CountStays DEF UInv, SessionInv
<1>8. FlowInv'
  <2> SUFFICES ASSUME NEW g \in Flows PROVE FlowIs(g)'
    BY DEF FlowInv
  <2>1. pc[g] \in Creating =>
           /\ owner[g] \in Accepted \ {s}
           /\ pc[owner[g]] = "creating" /\ busy[owner[g]] = g
    BY HeldFlow DEF Creating
  <2>2. pc'[g] = pc[g] /\ FlowIs(g)
    BY <1>1, <1>2, Apart DEF UInv, AssociationInv, FlowInv
  <2>3. pc[g] \in Creating =>
           pc'[owner[g]] = "creating" /\ busy'[owner[g]] = g
    BY <1>2, <1>3, <2>1, Apart
  <2> QED BY <2>2, <2>3, FlowStays
<1>9. MemberInv'
  BY <1>1, <1>2, Apart DEF UInv, AssociationInv, MemberInv
<1>10. HeldInv'
  BY <1>1, <1>2, <1>3, Apart DEF UInv, AssociationInv, HeldInv, ServingPlaces
<1> QED BY <1>5, <1>6, <1>7, <1>8, <1>9, <1>10
        DEF UInv, SessionInv, AssociationInv

LEMMA SendFailsKeeps ==
    ASSUME UInv, NEW s \in Accepted, NEW f \in Flows, SendFails(s, f)
    PROVE  UInv'
  BY WaitKeeps DEF SendFails, ServingPlaces

LEMMA ClosedKeeps ==
    ASSUME UInv, NEW s \in Accepted, Closed(s)
    PROVE  UInv'
<1>1. CASE pc[s] = "sending"
  BY <1>1, WaitKeeps DEF Closed, ServingPlaces
<1>2. CASE pc[s] = "sweep"
  <2>1. pc' = [pc EXCEPT ![s] = "sweep"]
    BY <1>2, Apart DEF Closed, UInv, TypeInv, SessionType
  <2>2. busy[s] \notin flows[s]
    <3>1. once[busy[s]] = "done" /\ busy[s] \in Flows
      BY DEF Closed, UInv, TypeInv, FlowType
    <3>2. pc[busy[s]] = "done"
      BY <3>1 DEF UInv, AssociationInv, FlowInv, FlowIs
    <3> QED BY <3>1, <3>2 DEF UInv, AssociationInv, MemberInv
  <2> QED BY <1>2, <2>1, <2>2, WaitKeeps DEF Closed
<1> QED BY <1>1, <1>2 DEF Closed

\* The steps of flow.close.
LEMMA CloseConnectionKeeps ==
    ASSUME UInv, NEW f \in Flows, CloseConnection(f)
    PROVE  UInv'
<1>1. /\ f \in Sessions /\ pc[f] = "relay" /\ once[f] = "no"
      /\ server' = [server EXCEPT ![f] = "closed"]
      /\ once' = [once EXCEPT ![f] = "closed"]
      /\ UNCHANGED <<poolVars, stopVars, connections, active, pc, kind, client,
                     adapter, relays, relay, flows, owner, busy, left>>
  BY HeldFlow DEF CloseConnection
<1>2. /\ server' \in [Sessions -> Conn] /\ server'[f] = "closed"
      /\ \A x \in Sessions \ {f} : server'[x] = server[x]
  BY <1>1 DEF UInv, TypeInv, SessionType, Conn
<1>3. /\ once' \in [Flows -> OnceStates] /\ once'[f] = "closed"
      /\ \A g \in Flows \ {f} : once'[g] = once[g]
  BY <1>1 DEF UInv, TypeInv, FlowType, OnceStates
<1>4. SessionType' /\ FlowType'
  BY <1>1, <1>2, <1>3 DEF UInv, TypeInv, SessionType, FlowType
<1>5. TypeInv' /\ PoolInv' /\ RelayInv'
  BY <1>1, <1>4, FlowMoveKeeps
<1>6. ServerInv' /\ ConnectionsInv' /\ AdapterInv'
  BY <1>1, <1>2 DEF UInv, SessionInv, ServerInv, ConnectionsInv, AdapterInv
<1>7. CountInv'
  BY <1>1, CountStays DEF UInv, SessionInv
<1>8. FlowInv'
  <2>1. \A g \in Flows \ {f} : FlowIs(g)'
    BY <1>1, <1>2, <1>3, OthersStay, Apart
  <2>2. FlowIs(f)'
    BY <1>1, <1>2, <1>3 DEF UInv, AssociationInv, FlowInv, FlowIs, Creating
  <2> QED BY <2>1, <2>2 DEF FlowInv
<1>9. MemberInv'
  BY <1>1, <1>3 DEF UInv, AssociationInv, MemberInv
<1>10. HeldInv'
  BY <1>1 DEF UInv, AssociationInv, HeldInv
<1> QED BY <1>5, <1>6, <1>7, <1>8, <1>9, <1>10
        DEF UInv, SessionInv, AssociationInv

LEMMA RemoveFlowKeeps ==
    ASSUME UInv, NEW f \in Flows, RemoveFlow(f)
    PROVE  UInv'
<1>1. /\ f \in Sessions /\ pc[f] = "relay" /\ once[f] = "closed"
      /\ flows' = [flows EXCEPT ![owner[f]] = @ \ {f}]
      /\ once' = [once EXCEPT ![f] = "removed"]
      /\ UNCHANGED <<vars, relay, owner, busy, left>>
  BY HeldFlow DEF RemoveFlow, UInv, AssociationInv, FlowInv, FlowIs
<1>2. PICK s \in Accepted : owner[f] = s
  BY <1>1, HeldFlow
<1>3. /\ flows' \in [Accepted -> SUBSET Flows]
      /\ flows'[s] = flows[s] \ {f}
      /\ \A x \in Accepted \ {s} : flows'[x] = flows[x]
  BY <1>1, <1>2 DEF UInv, TypeInv, FlowType
<1>4. /\ once' \in [Flows -> OnceStates] /\ once'[f] = "removed"
      /\ \A g \in Flows \ {f} : once'[g] = once[g]
  BY <1>1 DEF UInv, TypeInv, FlowType, OnceStates
<1>5. SessionType' /\ FlowType'
  BY <1>1, <1>3, <1>4 DEF UInv, TypeInv, SessionType, FlowType
<1>6. TypeInv' /\ PoolInv' /\ RelayInv'
  BY <1>1, <1>5, FlowMoveKeeps
<1>7. ServerInv' /\ ConnectionsInv' /\ AdapterInv'
  BY <1>1 DEF UInv, SessionInv, ServerInv, ConnectionsInv, AdapterInv
<1>8. CountInv'
  BY <1>1, CountStays DEF UInv, SessionInv
<1>9. FlowInv'
  <2>1. \A g \in Flows \ {f} : FlowIs(g)'
    BY <1>1, <1>4, OthersStay
  <2>2. FlowIs(f)'
    BY <1>1, <1>4 DEF UInv, AssociationInv, FlowInv, FlowIs, Creating
  <2> QED BY <2>1, <2>2 DEF FlowInv
<1>10. MemberInv'
  BY <1>1, <1>2, <1>3, <1>4 DEF UInv, AssociationInv, MemberInv
<1>11. HeldInv'
  BY <1>1, <1>3 DEF UInv, AssociationInv, HeldInv
<1> QED BY <1>6, <1>7, <1>8, <1>9, <1>10, <1>11
        DEF UInv, SessionInv, AssociationInv

LEMMA FinishFlowKeeps ==
    ASSUME UInv, NEW f \in Flows, FinishFlow(f)
    PROVE  UInv'
<1>1. /\ f \in Sessions /\ f \notin Accepted
      /\ pc[f] = "relay" /\ once[f] = "removed" /\ server[f] = "closed"
      /\ connections' = connections \ {f}
      /\ Uncount(f)
      /\ pc' = [pc EXCEPT ![f] = "done"]
      /\ once' = [once EXCEPT ![f] = "done"]
      /\ UNCHANGED <<poolVars, stopVars, kind, client, server, adapter, relays,
                     relay, flows, owner, busy, left>>
  BY HeldFlow DEF FinishFlow, UInv, AssociationInv, FlowInv, FlowIs
<1>2. /\ pc' \in [Sessions -> Places] /\ pc'[f] = "done"
      /\ \A x \in Sessions \ {f} : pc'[x] = pc[x]
  BY <1>1 DEF UInv, TypeInv, SessionType, Places
<1>3. /\ once' \in [Flows -> OnceStates] /\ once'[f] = "done"
      /\ \A g \in Flows \ {f} : once'[g] = once[g]
  BY <1>1 DEF UInv, TypeInv, FlowType, OnceStates
<1>4. SessionType' /\ FlowType'
  BY <1>1, <1>2, <1>3 DEF UInv, TypeInv, SessionType, FlowType
<1>5. TypeInv' /\ PoolInv' /\ RelayInv'
  BY <1>1, <1>2, <1>4, FlowMoveKeeps, Apart
<1>6. ServerInv' /\ ConnectionsInv' /\ AdapterInv'
  BY <1>1, <1>2 DEF UInv, TypeInv, SessionType, SessionInv, ServerInv,
                    ConnectionsInv, AdapterInv
<1>7. CountInv'
  BY <1>1, <1>2, CountLess DEF UInv, TypeInv, SessionType, SessionInv
<1>8. FlowInv'
  <2>1. \A g \in Flows \ {f} : FlowIs(g)'
    BY <1>1, <1>2, <1>3, OthersStay, Apart
  <2>2. FlowIs(f)'
    BY <1>1, <1>2, <1>3 DEF UInv, AssociationInv, FlowInv, FlowIs, Creating
  <2> QED BY <2>1, <2>2 DEF FlowInv
<1>9. MemberInv'
  BY <1>1, <1>2, <1>3, Apart DEF UInv, AssociationInv, MemberInv
<1>10. HeldInv'
  BY <1>1, <1>2, Apart DEF UInv, AssociationInv, HeldInv
<1> QED BY <1>5, <1>6, <1>7, <1>8, <1>9, <1>10
        DEF UInv, SessionInv, AssociationInv

-----------------------------------------------------------------------------

(* The theorems                                                            *)

LEMMA UdpInvInit == UdpInit => UInv
<1> SUFFICES ASSUME UdpInit PROVE UInv
  OBVIOUS
<1> USE DEF UdpInit, PoolInit
<1>1. BoolType /\ StopType
  BY DEF BoolType, StopType, StopStates
<1>2. SessionType
  BY DEF SessionType, Places, Conn
<1>3. FlowType
  BY DEF FlowType, Conn, OnceStates
<1>4. StopInv /\ OkInv
  BY DEF StopInv, OkInv
<1>5. ClientInv
  BY Apart DEF ClientInv
<1>6. ServerInv /\ ConnectionsInv /\ AdapterInv /\ RelayInv
  BY DEF ServerInv, ConnectionsInv, AdapterInv, RelayInv
<1>7. CountInv
  <2>1. \A a \in Adapters : Attached(a) = {}
    BY DEF Attached
  <2>2. IsFiniteSet({}) /\ Cardinality({}) = 0
    BY FS_EmptySet
  <2> QED BY <2>1, <2>2 DEF CountInv
<1>8. FlowInv /\ MemberInv /\ HeldInv
  BY Apart DEF FlowInv, FlowIs, Creating, MemberInv, HeldInv
<1> QED BY <1>1, <1>2, <1>3, <1>4, <1>5, <1>6, <1>7, <1>8
        DEF UInv, TypeInv, PoolInv, SessionInv, AssociationInv

LEMMA UdpInvStep == UInv /\ [UdpNext]_allVars => UInv'
<1> SUFFICES ASSUME UInv, [UdpNext]_allVars PROVE UInv'
  OBVIOUS
<1>1. CASE UNCHANGED allVars
  <2>1. /\ todo' \in SUBSET Sessions /\ current' \in Sessions \cup {Nobody}
        /\ client' \in [Sessions -> Conn] /\ server' \in [Sessions -> Conn]
        /\ relay' \in [Accepted -> Conn]
        /\ relays' \in [Sessions -> SUBSET {"up", "down"}]
    BY <1>1 DEF allVars, UInv, TypeInv, StopType, SessionType, FlowType
  <2> QED BY <1>1, <2>1, ClosingKeeps DEF allVars
<1>2. CASE PoolNext /\ UNCHANGED udpVars
  <2>1. ASSUME NEW s \in Accepted,
               \/ AcceptReturns(s) \/ SessionStep(s)
               \/ ClientTalks(s) \/ ServerTalks(s)
        PROVE  UInv'
    <3>1. s \in Sessions
      BY Apart
    <3> QED BY <1>2, <2>1, <3>1, AcceptKeeps, AdmitKeeps, HandshakeKeeps,
               DialKeeps, AttachKeeps, ReplyKeeps, HangUpKeeps, TalkKeeps,
               FinishKeeps
            DEF SessionStep
  <2>2. CASE StopStep
    BY <1>2, <2>2, LoopKeeps, CloseClientKeeps, CloseUpstreamKeeps
    DEF StopStep
  <2> QED BY <1>2, <2>1, <2>2, LoopKeeps DEF PoolNext
<1>3. ASSUME NEW s \in Accepted,
             \/ AssociationStep(s) \/ ServeFails(s)
             \/ \E f \in Flows : Forward(s, f) \/ SendFails(s, f)
      PROVE  UInv'
  BY <1>3, AssociateKeeps, WatchKeeps, SweepKeeps, SweepEndsKeeps,
     SweepNextKeeps, ClosedKeeps, ForwardKeeps, SendFailsKeeps
  DEF AssociationStep
<1>4. ASSUME NEW f \in Flows,
             \/ FlowStep(f) \/ CloseRelay(f)
             \/ ServerTalks(f) /\ UNCHANGED udpVars
      PROVE  UInv'
  <2>1. f \in Sessions
    BY Apart
  <2> QED BY <1>4, <2>1, CreateFlowKeeps, BeginAddressKeeps, AttachFlowKeeps,
             RegisterKeeps, ReceiveKeeps, TalkKeeps, CloseConnectionKeeps,
             RemoveFlowKeeps, FinishFlowKeeps, CloseRelayKeeps
          DEF FlowStep
<1> QED BY <1>1, <1>2, <1>3, <1>4 DEF UdpNext

\* The places of the goroutines of the pool say what is held: connections,
\* entries of the registry, counts, relays and flows.
THEOREM UdpInvariance == UdpSpec => []UInv
  BY UdpInvInit, UdpInvStep, PTL DEF UdpSpec

\* Every variable of the pool and of its associations keeps its type.
THEOREM UdpTypeCorrect == UdpSpec => []UdpTypeOK
<1>1. UInv => UdpTypeOK
  BY Zenon DEF UInv, TypeInv, BoolType, StopType, SessionType, FlowType,
     StopStates, OnceStates, Places, SessionInv, CountInv, UdpTypeOK,
     PoolTypeOK
<1> QED BY <1>1, UdpInvariance, PTL

\* The active counter of an adapter is the number of sessions and flows that
\* are attached to it and not finished, so that it never wraps.
THEOREM ActiveCountsAlways == UdpSpec => []ActiveCounts
<1>1. UInv => ActiveCounts
  BY DEF UInv, SessionInv, CountInv, Attached, ActiveCounts
<1> QED BY <1>1, UdpInvariance, PTL

\* A session that has ended holds no connection, and neither do its flows.
THEOREM EndedHoldsNothingAlways == UdpSpec => []EndedHoldsNothing
<1>1. UInv => EndedHoldsNothing
  <2> SUFFICES ASSUME UInv, NEW s \in Accepted, pc[s] = "done"
               PROVE  /\ client[s] = "closed" /\ server[s] # "open"
                      /\ relay[s] # "open" /\ flows[s] = {}
                      /\ \A f \in Flows : owner[f] = s => server[f] = "closed"
    BY DEF EndedHoldsNothing
  <2>1. client[s] = "closed"
    BY DEF UInv, PoolInv, ClientInv
  <2>2. server[s] # "open" /\ relay[s] # "open" /\ flows[s] = {}
    BY Held DEF ServingPlaces
  <2>3. ASSUME NEW f \in Flows, owner[f] = s PROVE server[f] = "closed"
    <3>1. pc[f] \in {"relay", "done"}
      BY <2>3, HeldFlow, Apart
    <3>2. once[f] \in OnceStates /\ FlowIs(f)
      BY DEF UInv, TypeInv, FlowType, AssociationInv, FlowInv
    <3>3. pc[f] = "relay" => once[f] \notin {"no", "closed"}
      BY <2>2, <2>3 DEF UInv, AssociationInv, MemberInv
    <3> QED BY <3>1, <3>2, <3>3 DEF FlowIs, OnceStates
  <2> QED BY <2>1, <2>2, <2>3
<1> QED BY <1>1, UdpInvariance, PTL

\* A Stop that has waited for the pool and reports success leaves nothing behind:
\* no goroutine, connection, relay, flow, entry or count, now or later.  One that
\* is repeated after a timeout (StopAgain) reports success and promises nothing.
THEOREM StopLeavesNothingAlways == UdpSpec => []StopLeavesNothing
<1>1. UInv => StopLeavesNothing
  <2> SUFFICES ASSUME UInv, stop = "ok"
               PROVE  /\ Released
                      /\ Idle
                      /\ connections = {}
                      /\ \A s \in Sessions : client[s] # "open"
    BY DEF StopLeavesNothing
  <2>1. Idle
    BY DEF UInv, PoolInv, OkInv
  <2>2. /\ acceptor = "ended"
        /\ \A s \in Sessions : pc[s] \in {"none", "done"}
    BY <2>1 DEF Idle
  <2>3. connections = {}
    BY <2>2 DEF UInv, TypeInv, SessionType, SessionInv, ConnectionsInv
  <2>4. \A s \in Sessions : client[s] # "open" /\ server[s] # "open"
    <3>1. \A s \in Sessions : server[s] # "open"
      BY <2>2 DEF UInv, SessionInv, ServerInv
    <3>2. \A s \in Accepted : client[s] # "open"
      BY <2>2, Apart DEF UInv, PoolInv, ClientInv
    <3>3. \A f \in Flows : client[f] # "open"
      BY DEF UInv, PoolInv, ClientInv
    <3> QED BY <3>1, <3>2, <3>3, Apart
  <2>5. \A s \in Accepted : relay[s] # "open" /\ flows[s] = {}
    BY <2>2, Held DEF ServingPlaces
  <2>6. \A a \in Adapters : active[a] = 0
    <3>1. \A a \in Adapters : Attached(a) = {}
      BY <2>2 DEF UInv, SessionInv, AdapterInv, Attached
    <3>2. Cardinality({}) = 0
      BY FS_EmptySet
    <3> QED BY <3>1, <3>2 DEF UInv, SessionInv, CountInv
  <2> QED BY <2>1, <2>3, <2>4, <2>5, <2>6 DEF Released
<1> QED BY <1>1, UdpInvariance, PTL

=============================================================================
