----------------------------- MODULE CoreClient -----------------------------
(***************************************************************************)
(* The desktop's connection to the engine (desktop/internal/engineclient). *)
(*                                                                         *)
(* Several goroutines share one Client: each call of Ensure,               *)
(* EnsureElevated, Request or Shutdown is a member of Calls, and so is the *)
(* one request it makes (sequence.Add makes every id new).  A session has  *)
(* a goroutine that reads it and one that waits for its process.  A step   *)
(* is one critical section of c.mu, or one channel or pipe operation.      *)
(*                                                                         *)
(* A deadline may pass at any wait that selects on ctx.Done.  Requests too *)
(* long to send, the executable's path and what an answer contains are     *)
(* left out, except the version and privilege that engine.hello reports.   *)
(***************************************************************************)
EXTENDS Naturals, Sequences, FiniteSets

CONSTANTS Calls,        \* the calls made on the client
          Sessions,     \* the cores it may ever be connected to
          Nobody,       \* no call, no session: nil, or a free gate
          Methods,      \* the methods that are called
          Levels,       \* what the cores say of themselves in engine.hello
          EventCap      \* cap(c.events), 64 in newClient

ASSUME NobodyAssumption == Nobody \notin Calls \cup Sessions

ASSUME NamesAssumption == Calls \cap Sessions = {}

\* What a readLoop that holds no reply is doing is not the name of a call.
ASSUME ReaderAssumption == Calls \cap {"off", "reading"} = {}

\* Another protocol version, or this one without or with administrator rights.
ASSUME LevelsAssumption == Levels \subseteq {"foreign", "plain", "elevated"}

ASSUME MethodsAssumption ==
    Methods \subseteq {"ensure", "elevated", "request", "shutdown"}

ASSUME EventCapAssumption == EventCap \in Nat

VARIABLES
    session,    \* c.session
    hello,      \* c.hello: what was negotiated, "none" for Hello{}
    pending,    \* the keys of c.pending
    startGate,  \* who is inside c.startGate
    writeGate,  \* who is inside c.writeGate
    pc,         \* where each call stands
    kind,       \* which method each call runs
    mine,       \* the session an ensure has launched
    writer,     \* the session whose writer a request has captured
    write,      \* the write goroutine of each request
    wire,       \* requests that the core of c.session has and may answer
    reply,      \* the reply channel of each request
    hand,       \* the replies a killer or failSession has yet to fail
    victim,     \* the session a killer has yet to close and kill
    core,       \* the core of each session
    closed,     \* whether closeTransport has run
    reader,     \* the readLoop of each session
    failing,    \* sessions whose failSession is between unlock and return
    events      \* how many events c.events holds

callVars == <<pc, kind, mine, writer, write, victim>>

vars == <<session, hello, pending, startGate, writeGate, callVars, wire,
          reply, hand, core, closed, reader, failing, events>>

\* A call that has taken the session away and has not yet closed it.
Killing == {"switching", "aborting", "stuck", "shutting"}

CallStates == {"idle", "gate", "check", "switch", "launch", "install",
               "register", "wgate", "writing", "waiting", "negotiated",
               "abort", "shut", "done"} \cup Killing

ClientTypeOK ==
    /\ session \in Sessions \cup {Nobody}
    /\ hello \in {"none", "plain", "elevated"}
    /\ pending \in SUBSET Calls
    /\ startGate \in Calls \cup {Nobody}
    /\ writeGate \in Calls \cup {Nobody}
    /\ pc \in [Calls -> CallStates]
    /\ kind \in [Calls -> Methods \cup {"none"}]
    /\ mine \in [Calls -> Sessions \cup {Nobody}]
    /\ writer \in [Calls -> Sessions \cup {Nobody}]
    /\ write \in [Calls -> {"none", "busy", "ok", "err"}]
    /\ wire \in SUBSET Calls
    /\ reply \in [Calls -> Seq({"answer", "disconnected"})]
    /\ hand \in [Calls \cup Sessions -> SUBSET Calls]
    /\ victim \in [Calls -> Sessions \cup {Nobody}]
    /\ core \in [Sessions -> [up : BOOLEAN, level : Levels \cup {"none"}]]
    /\ closed \in [Sessions -> BOOLEAN]
    /\ reader \in [Sessions -> Calls \cup {"off", "reading"}]
    /\ failing \in SUBSET Sessions
    /\ events \in 0..EventCap

ClientInit ==
    /\ session = Nobody
    /\ hello = "none"
    /\ pending = {}
    /\ startGate = Nobody
    /\ writeGate = Nobody
    /\ pc = [c \in Calls |-> "idle"]
    /\ kind = [c \in Calls |-> "none"]
    /\ mine = [c \in Calls |-> Nobody]
    /\ writer = [c \in Calls |-> Nobody]
    /\ write = [c \in Calls |-> "none"]
    /\ wire = {}
    /\ reply = [c \in Calls |-> <<>>]
    /\ hand = [a \in Calls \cup Sessions |-> {}]
    /\ victim = [c \in Calls |-> Nobody]
    /\ core = [s \in Sessions |-> [up |-> FALSE, level |-> "none"]]
    /\ closed = [s \in Sessions |-> FALSE]
    /\ reader = [s \in Sessions |-> "off"]
    /\ failing = {}
    /\ events = 0

-----------------------------------------------------------------------------
(* What the steps are made of                                              *)

\* A fault: the replies stay in the map, and are also failed.
TakePendingKeepMap(a) ==
    /\ hand' = [hand EXCEPT ![a] = pending]
    /\ UNCHANGED pending

\* pending := c.pending; c.pending = map[string]chan response{}
TakePending(a) ==
    /\ hand' = [hand EXCEPT ![a] = pending]
    /\ pending' = {}

\* The critical section that killCurrent and failSession share: actor a takes
\* the replies of the session and the client forgets it.
Disconnect(a) ==
    /\ session' = Nobody
    /\ hello' = "none"
    /\ wire' = {}
    /\ TakePending(a)

\* A fault: the replies taken are forgotten.
FailRepliesNot(a) ==
    /\ hand' = [hand EXCEPT ![a] = {}]
    /\ UNCHANGED reply

\* failReplies: reply <- response for every reply taken.  A second value in a
\* channel of capacity one would block the sender.
FailReplies(a) ==
    /\ reply' = [c \in Calls |-> IF c \in hand[a]
                                   THEN Append(reply[c], "disconnected")
                                   ELSE reply[c]]
    /\ hand' = [hand EXCEPT ![a] = {}]

\* A call goes on; when it returns its locals are gone.
Goto(c, to) ==
    /\ pc' = [pc EXCEPT ![c] = to]
    /\ kind' = [kind EXCEPT ![c] = IF to = "done" THEN "none" ELSE @]
    /\ mine' = [mine EXCEPT ![c] = IF to = "done" THEN Nobody ELSE @]

Step(c, from, to) ==
    /\ pc[c] = from
    /\ Goto(c, to)

\* Where a call goes once its request has ended.
AfterRequest(c, ok) ==
    CASE kind[c] = "request" -> "done"
      [] kind[c] = "shutdown" -> "shut"
      [] OTHER -> IF ok THEN "negotiated" ELSE "abort"

-----------------------------------------------------------------------------
(* ensure                                                                  *)

\* A caller enters one of the client's methods.
Call(c, k) ==
    /\ pc[c] = "idle"
    /\ pc' = [pc EXCEPT ![c] = IF k \in {"ensure", "elevated"} THEN "gate"
                                                               ELSE "register"]
    /\ kind' = [kind EXCEPT ![c] = k]
    /\ UNCHANGED <<session, hello, pending, startGate, writeGate, mine, writer,
                   write, victim, wire, reply, hand, core, closed, reader,
                   failing, events>>

EnterStartGate(c) ==
    /\ startGate = Nobody
    /\ Step(c, "gate", "check")
    /\ startGate' = c
    /\ UNCHANGED <<session, hello, pending, writeGate, writer, write, victim,
                   wire, reply, hand, core, closed, reader, failing, events>>

StartGateTimeout(c) ==
    /\ Step(c, "gate", "done")
    /\ UNCHANGED <<session, hello, pending, startGate, writeGate, writer,
                   write, victim, wire, reply, hand, core, closed, reader,
                   failing, events>>

\* The session in place is good enough, has to be replaced, or there is none.
Check(c) ==
    /\ \/ /\ session # Nobody
          /\ \/ hello = "elevated"
             \/ hello = "plain" /\ kind[c] = "ensure"
          /\ Step(c, "check", "done")
          /\ startGate' = Nobody
       \/ /\ session # Nobody
          /\ \/ hello = "none"
             \/ hello = "plain" /\ kind[c] = "elevated"
          /\ Step(c, "check", "switch")
          /\ UNCHANGED startGate
       \/ /\ session = Nobody
          /\ Step(c, "check", "launch")
          /\ UNCHANGED startGate
    /\ UNCHANGED <<session, hello, pending, writeGate, writer, write, victim,
                   wire, reply, hand, core, closed, reader, failing, events>>

\* The first half of killCurrent, up to its unlock.
KillCurrent(c, from, to) ==
    /\ Step(c, from, to)
    /\ victim' = [victim EXCEPT ![c] = session]
    /\ Disconnect(c)
    /\ UNCHANGED <<startGate, writeGate, writer, write, reply, core, closed,
                   reader, failing, events>>

\* A fault: nothing is closed and nobody is killed.
CloseVictimNot(c) == UNCHANGED <<closed, core>>

\* session.closeTransport and session.process.Kill
CloseVictim(c) ==
    IF victim[c] = Nobody
      THEN UNCHANGED <<closed, core>>
      ELSE /\ closed' = [closed EXCEPT ![victim[c]] = TRUE]
           /\ core' = [core EXCEPT ![victim[c]].up = FALSE]

\* The rest of killCurrent, and what its caller does next.
FinishKill(c) ==
    /\ pc[c] \in Killing
    /\ CloseVictim(c)
    /\ FailReplies(c)
    /\ victim' = [victim EXCEPT ![c] = Nobody]
    /\ Goto(c, CASE pc[c] = "switching" -> "launch"
                  [] pc[c] = "stuck" -> AfterRequest(c, FALSE)
                  [] OTHER -> "done")
    /\ startGate' = IF pc[c] = "aborting" THEN Nobody ELSE startGate
    /\ writeGate' = IF pc[c] = "stuck" THEN Nobody ELSE writeGate
    /\ UNCHANGED <<session, hello, pending, writer, write, wire, reader,
                   failing, events>>

\* launcher.Launch returns an error, or a session to a core that is up.
LaunchFails(c) ==
    /\ Step(c, "launch", "done")
    /\ startGate' = Nobody
    /\ UNCHANGED <<session, hello, pending, writeGate, writer, write, victim,
                   wire, reply, hand, core, closed, reader, failing, events>>

Launch(c, s, level) ==
    /\ core[s].level = "none"
    /\ pc[c] = "launch"
    /\ pc' = [pc EXCEPT ![c] = "install"]
    /\ mine' = [mine EXCEPT ![c] = s]
    /\ core' = [core EXCEPT ![s] = [up |-> TRUE, level |-> level]]
    /\ UNCHANGED <<session, hello, pending, startGate, writeGate, kind, writer,
                   write, victim, wire, reply, hand, closed, reader, failing,
                   events>>

\* The new session becomes the client's.  Had another taken its place, it
\* would be closed and killed; none can, for the start gate is held since Check
\* (a call stuck here would be one that CallEnds does not let pass).
Install(c) ==
    /\ session = Nobody
    /\ Step(c, "install", "register")
    /\ session' = mine[c]
    /\ pending' = {}
    /\ hello' = "none"
    /\ reader' = [reader EXCEPT ![mine[c]] = "reading"]
    /\ UNCHANGED <<startGate, writeGate, writer, write, victim, wire, reply,
                   hand, core, closed, failing, events>>

StoreHello(c) == hello' = IF session = mine[c] THEN core[mine[c]].level
                                               ELSE hello

\* The core of this call has answered engine.hello.
Acceptable(c) == \/ core[mine[c]].level = "elevated"
                 \/ core[mine[c]].level = "plain" /\ kind[c] = "ensure"

Negotiated(c) ==
    /\ pc[c] = "negotiated"
    /\ \/ /\ Acceptable(c)
          /\ Step(c, "negotiated", "done")
          /\ StoreHello(c)
          /\ startGate' = Nobody
       \/ /\ ~Acceptable(c)
          /\ Step(c, "negotiated", "abort")
          /\ UNCHANGED <<hello, startGate>>
    /\ UNCHANGED <<session, pending, writeGate, writer, write, victim, wire,
                   reply, hand, core, closed, reader, failing, events>>

-----------------------------------------------------------------------------
(* Request                                                                 *)

\* A fault: a request is registered although there is no session.
RegisterAlways(c) ==
    /\ Step(c, "register", "wgate")
    /\ writer' = [writer EXCEPT ![c] = session]
    /\ pending' = pending \cup {c}
    /\ UNCHANGED <<session, hello, startGate, writeGate, write, victim, wire,
                   reply, hand, core, closed, reader, failing, events>>

Register(c) ==
    /\ session # Nobody
    /\ Step(c, "register", "wgate")
    /\ writer' = [writer EXCEPT ![c] = session]
    /\ pending' = pending \cup {c}
    /\ UNCHANGED <<session, hello, startGate, writeGate, write, victim, wire,
                   reply, hand, core, closed, reader, failing, events>>

NotConnected(c) ==
    /\ session = Nobody
    /\ Step(c, "register", AfterRequest(c, FALSE))
    /\ UNCHANGED <<session, hello, pending, startGate, writeGate, writer,
                   write, victim, wire, reply, hand, core, closed, reader,
                   failing, events>>

EnterWriteGate(c) ==
    /\ writeGate = Nobody
    /\ Step(c, "wgate", "writing")
    /\ writeGate' = c
    /\ write' = [write EXCEPT ![c] = "busy"]
    /\ UNCHANGED <<session, hello, pending, startGate, writer, victim, wire,
                   reply, hand, core, closed, reader, failing, events>>

\* The deadline passes before the gate opens, or before the reply comes.
GiveUp(c) ==
    /\ pc[c] \in {"wgate", "waiting"}
    /\ Goto(c, AfterRequest(c, FALSE))
    /\ pending' = pending \ {c}
    /\ UNCHANGED <<session, hello, startGate, writeGate, writer, write,
                   victim, wire, reply, hand, core, closed, reader, failing,
                   events>>

\* A result that nobody waits for stays in its channel.
Result(c, result) == IF pc[c] = "writing" THEN result ELSE "none"

\* The write goroutine: the pipe takes the line, or fails because an end of
\* it is closed.  It may go on long after its request has given up.
WriteReturns(c) ==
    /\ write[c] = "busy"
    /\ \/ /\ core[writer[c]].up /\ ~closed[writer[c]]
          /\ write' = [write EXCEPT ![c] = Result(c, "ok")]
          /\ wire' = IF writer[c] = session THEN wire \cup {c} ELSE wire
       \/ /\ ~core[writer[c]].up \/ closed[writer[c]]
          /\ write' = [write EXCEPT ![c] = Result(c, "err")]
          /\ UNCHANGED wire
    /\ UNCHANGED <<session, hello, pending, startGate, writeGate, pc, kind,
                   mine, writer, victim, reply, hand, core, closed, reader,
                   failing, events>>

Written(c) ==
    /\ \/ /\ write[c] = "ok"
          /\ Step(c, "writing", "waiting")
          /\ UNCHANGED pending
       \/ /\ write[c] = "err"
          /\ Step(c, "writing", AfterRequest(c, FALSE))
          /\ pending' = pending \ {c}
    /\ writeGate' = Nobody
    /\ write' = [write EXCEPT ![c] = "none"]
    /\ UNCHANGED <<session, hello, startGate, writer, victim, wire,
                   reply, hand, core, closed, reader, failing, events>>

\* A fault: the gate is released and the stuck session left as it is.
WriteTimeoutNoKill(c) ==
    /\ Step(c, "writing", AfterRequest(c, FALSE))
    /\ writeGate' = Nobody
    /\ UNCHANGED <<session, hello, pending, startGate, writer, write, victim,
                   wire, reply, hand, core, closed, reader, failing, events>>

\* A fault: a write has no deadline.
WriteTimeoutNever(c) == FALSE /\ UNCHANGED vars

\* The deadline passes during the write: the session of the moment is killed,
\* and only then is the gate released.
WriteTimeout(c) == KillCurrent(c, "writing", "stuck")

ReceiveReply(c) ==
    /\ reply[c] # <<>>
    /\ Step(c, "waiting", AfterRequest(c, Head(reply[c]) = "answer"))
    /\ reply' = [reply EXCEPT ![c] = Tail(@)]
    /\ UNCHANGED <<session, hello, pending, startGate, writeGate, writer,
                   write, victim, wire, hand, core, closed, reader, failing,
                   events>>

-----------------------------------------------------------------------------
(* The core, and the goroutines of a session                               *)

\* The core exits, or the service drops the connection.
CoreExits(s) ==
    /\ core[s].up
    /\ core' = [core EXCEPT ![s].up = FALSE]
    /\ UNCHANGED <<session, hello, pending, startGate, writeGate, callVars,
                   wire, reply, hand, closed, reader, failing, events>>

\* readLoop reads an event: it is queued, or dropped when the queue is full.
ReadEvent(s) ==
    /\ reader[s] = "reading"
    /\ core[s].up
    /\ events' = IF events < EventCap THEN events + 1 ELSE events
    /\ UNCHANGED <<session, hello, pending, startGate, writeGate, callVars,
                   wire, reply, hand, core, closed, reader, failing>>

TakeEvent ==
    /\ events > 0
    /\ events' = events - 1
    /\ UNCHANGED <<session, hello, pending, startGate, writeGate, callVars,
                   wire, reply, hand, core, closed, reader, failing>>

\* readLoop reads an answer, which the core may have sent just before it ended:
\* the reply channel is taken out of the map, unless its request has given up.
\* A loop whose session is no longer the client's returns instead, whatever it
\* reads, so that is not a step, and such requests are not kept in wire.
ReadAnswer(s, c) ==
    /\ reader[s] = "reading"
    /\ session = s
    /\ c \in wire /\ writer[c] = s
    /\ wire' = wire \ {c}
    /\ reader' = [reader EXCEPT ![s] = IF c \in pending THEN c ELSE @]
    /\ pending' = pending \ {c}
    /\ UNCHANGED <<session, hello, startGate, writeGate, callVars, reply, hand,
                   core, closed, failing, events>>

\* reply <- message
Deliver(s) ==
    /\ reader[s] \in Calls
    /\ reply' = [reply EXCEPT ![reader[s]] = Append(@, "answer")]
    /\ reader' = [reader EXCEPT ![s] = "reading"]
    /\ UNCHANGED <<session, hello, pending, startGate, writeGate, callVars,
                   wire, hand, core, closed, failing, events>>

\* failSession up to its unlock: the scanner stops at the end of the stream, at
\* a read error or at a line too long, or session.process.Wait returns.  One
\* that finds another session in place changes nothing and is not a step.
FailSession(s) ==
    /\ session = s
    /\ reader[s] = "reading" \/ ~core[s].up
    /\ Disconnect(s)
    /\ failing' = failing \cup {s}
    /\ UNCHANGED <<startGate, writeGate, callVars, reply, core, closed, reader,
                   events>>

\* The rest of failSession: closeTransport, failReplies.
FinishFail(s) ==
    /\ s \in failing
    /\ failing' = failing \ {s}
    /\ closed' = [closed EXCEPT ![s] = TRUE]
    /\ FailReplies(s)
    /\ UNCHANGED <<session, hello, pending, startGate, writeGate, callVars,
                   wire, core, reader, events>>

-----------------------------------------------------------------------------

\* What a call does by itself.
CallStep(c) ==
    \/ EnterStartGate(c)
    \/ Check(c)
    \/ KillCurrent(c, "switch", "switching")
    \/ KillCurrent(c, "abort", "aborting")
    \/ KillCurrent(c, "shut", "shutting")
    \/ FinishKill(c)
    \/ LaunchFails(c)
    \/ \E s \in Sessions, level \in Levels : Launch(c, s, level)
    \/ Install(c)
    \/ Negotiated(c)
    \/ Register(c)
    \/ NotConnected(c)
    \/ EnterWriteGate(c)
    \/ Written(c)
    \/ ReceiveReply(c)

\* What a deadline makes it do.
Deadline(c) == StartGateTimeout(c) \/ GiveUp(c) \/ WriteTimeout(c)

\* What the goroutines of a session do without anything from a core that is up.
SessionStep(s) ==
    \/ Deliver(s)
    \/ ~core[s].up /\ FailSession(s)
    \/ FinishFail(s)

ClientNext ==
    \/ \E c \in Calls : \/ \E k \in Methods : Call(c, k)
                        \/ CallStep(c)
                        \/ Deadline(c)
                        \/ WriteReturns(c)
    \/ \E s \in Sessions : \/ SessionStep(s)
                           \/ \E c \in Calls : ReadAnswer(s, c)
                           \/ FailSession(s)
                           \/ ReadEvent(s)
                           \/ CoreExits(s)
    \/ TakeEvent

ClientSpec == ClientInit /\ [][ClientNext]_vars

\* The goroutines go on, and so does the end of a stream; nothing is assumed
\* of the core, which need not answer, of the consumer of events or of the pipes.
Running ==
    /\ \A c \in Calls : WF_vars(CallStep(c))
    /\ \A s \in Sessions : WF_vars(SessionStep(s))

PatientSpec == ClientSpec /\ Running

\* Every caller in desktop/internal/services has a context with a timeout.
DeadlinesPass == \A c \in Calls : WF_vars(Deadline(c))

-----------------------------------------------------------------------------
(* Properties                                                              *)

\* A reply channel of capacity one never gets a second value, so neither the
\* readLoop nor a killer ever blocks on it: deleting a reply from c.pending
\* decides who sends (readLoop, killCurrent, failSession).
ReplyOnce == \A c \in Calls : Len(reply[c]) <= 1

\* What the client holds belongs to the session in place.  A reply waits only
\* for the session its request was written to, so a session that ends takes
\* exactly its own requests with it, and ensure's new map drops none; and what
\* Hello() and the next ensure believe is what the core of this session has
\* said: an elevated hello is never left over from another.
HeldIsCurrent ==
    /\ \A c \in pending : session # Nobody /\ writer[c] = session
    /\ hello # "none" => session # Nobody /\ hello = core[session].level

\* A core whose transport is open is the client's, or somebody is about to
\* close it: no path of ensure, of a timeout or of a failure forgets one.
NoOrphanCore ==
    \A s \in Sessions :
        core[s].up /\ ~closed[s] =>
            \/ session = s
            \/ s \in failing
            \/ \E c \in Calls : victim[c] = s
            \/ \E c \in Calls : pc[c] = "install" /\ mine[c] = s

\* Two lines are never written at once to the session in use, although a
\* request that gives up leaves its write goroutine behind.
OneWriter ==
    \A c, d \in Calls :
        /\ write[c] = "busy" /\ write[d] = "busy"
        /\ writer[c] = session /\ writer[d] = session
        => c = d

\* Every call returns if deadlines pass: a gate, a stuck write, a core that is
\* dead or never answers, or a consumer that takes no events holds no caller
\* beyond its deadline.
CallEnds ==
    DeadlinesPass => \A c \in Calls : (pc[c] # "idle" ~> pc[c] = "done")

\* A request whose session or core is over is told so, whatever its deadline: the
\* reply it waits for was failed, or is about to be.
OrphanTold ==
    \A c \in Calls :
        /\ pc[c] = "waiting"
        /\ session # writer[c] \/ ~core[writer[c]].up
        ~> pc[c] # "waiting"

=============================================================================
