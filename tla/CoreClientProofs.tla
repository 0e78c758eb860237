-------------------------- MODULE CoreClientProofs --------------------------
(***************************************************************************)
(* The safety properties of CoreClient, for any number of calls and cores. *)
(*                                                                         *)
(* Every property is about who owns something.  A reply is owned by the    *)
(* map, by one killer or failSession that has taken it, by one readLoop,   *)
(* or it is in its channel, and never by two of them.  A session is fresh, *)
(* launched by one ensure, the client's, or somebody's to close; once it   *)
(* has left c.session it never returns, so a write goroutine left behind   *)
(* by a timeout can never share the session in use.                        *)
(*                                                                         *)
(* The same owners make the client an implementation of ClientPromise: a   *)
(* call that waits is open while its reply is in the map, answered once    *)
(* readLoop has taken it, lost once a killer or failSession has.           *)
(***************************************************************************)
EXTENDS CoreClient, TLAPS

\* The call has not registered its request.
Early == {"idle", "gate", "check", "switch", "switching", "launch", "install",
          "register"}

\* Somebody other than c.pending owns the reply of the call.
Taken(c) == \/ \E a \in Calls \cup Sessions : c \in hand[a]
            \/ \E s \in Sessions : reader[s] = c

\* The owners of a reply.
ReplyInv ==
    /\ \A c \in Calls : pc[c] \in Early =>
          c \notin pending /\ ~Taken(c) /\ reply[c] = <<>>
    /\ \A c \in Calls : c \in pending => ~Taken(c)
    /\ \A c \in Calls : c \in pending \/ Taken(c) => reply[c] = <<>>
    /\ \A c \in Calls, a, b \in Calls \cup Sessions :
          c \in hand[a] /\ c \in hand[b] => a = b
    /\ \A s, t \in Sessions :
          reader[s] \in Calls /\ reader[s] = reader[t] => s = t
    /\ \A s \in Sessions, a \in Calls \cup Sessions : reader[s] \notin hand[a]
    /\ ReplyOnce

\* A session just launched is nobody else's, and one never launched nobody's.
FreshInv ==
    /\ \A s \in Sessions : core[s].level = "none" =>
          session # s /\ \A c \in Calls : writer[c] # s /\ mine[c] # s
    /\ \A c \in Calls : pc[c] = "install" =>
          session # mine[c] /\ \A d \in Calls : writer[d] # mine[c]
    /\ \A c, d \in Calls :
          pc[c] = "install" /\ pc[d] = "install" /\ mine[c] = mine[d] => c = d

\* The session an ensure has launched, once it has.
MineInv ==
    \A c \in Calls :
        /\ pc[c] \in {"install", "negotiated"} => mine[c] \in Sessions
        /\ pc[c] \in {"register", "wgate", "writing", "waiting", "stuck"} =>
              kind[c] \in {"request", "shutdown"} \/ mine[c] \in Sessions

\* Who is inside the write gate, and whose write goroutine is at work.
WriteInv ==
    \A c \in Calls :
        /\ pc[c] \in {"writing", "stuck"} => writeGate = c
        /\ pc[c] \in Early => write[c] = "none"
        /\ pc[c] \in {"wgate", "writing"} => writer[c] \in Sessions
        /\ write[c] = "busy" => /\ writer[c] \in Sessions
                                /\ writer[c] = session => pc[c] = "writing"

\* Only a killer has a session to close.
VictimInv == \A c \in Calls : pc[c] \notin Killing => victim[c] = Nobody

CInv ==
    /\ ClientTypeOK
    /\ ReplyInv
    /\ HeldIsCurrent
    /\ FreshInv
    /\ MineInv
    /\ WriteInv
    /\ VictimInv
    /\ NoOrphanCore

-----------------------------------------------------------------------------

USE NobodyAssumption, NamesAssumption, ReaderAssumption, LevelsAssumption,
    MethodsAssumption, EventCapAssumption

\* Where a call goes when its request has ended.
LEMMA AfterRequestCases ==
    ASSUME NEW c \in Calls, NEW ok \in BOOLEAN
    PROVE  \/ AfterRequest(c, ok) \in {"done", "shut"}
           \/ /\ AfterRequest(c, ok) \in {"negotiated", "abort"}
              /\ kind[c] \notin {"request", "shutdown"}
              /\ AfterRequest(c, ok) = "negotiated" => ok
  BY DEF AfterRequest

\* Where a call goes when it has killed a session.
LEMMA FinishKillCases ==
    ASSUME NEW c \in Calls, FinishKill(c)
    PROVE  \E to \in {"launch", "done", "shut", "abort"} :
               /\ Goto(c, to)
               /\ to = "launch" <=> pc[c] = "switching"
  BY AfterRequestCases DEF FinishKill, Killing

\* A call that goes on keeps the types of its locals.
LEMMA GotoType ==
    ASSUME ClientTypeOK, NEW c \in Calls, NEW to \in CallStates, Goto(c, to)
    PROVE  /\ pc' \in [Calls -> CallStates]
           /\ kind' \in [Calls -> Methods \cup {"none"}]
           /\ mine' \in [Calls -> Sessions \cup {Nobody}]
<1>1. pc' \in [Calls -> CallStates]
  BY DEF ClientTypeOK, Goto
<1>2. kind' \in [Calls -> Methods \cup {"none"}]
  BY DEF ClientTypeOK, Goto
<1>3. mine' \in [Calls -> Sessions \cup {Nobody}]
  BY DEF ClientTypeOK, Goto
<1> QED
  BY <1>1, <1>2, <1>3

\* A core that ends or is killed is down, and nothing else of a core changes.
LEMMA CoreDown ==
    ASSUME ClientTypeOK, NEW s \in Sessions,
           core' = [core EXCEPT ![s].up = FALSE]
    PROVE  /\ core' \in [Sessions ->
                             [up : BOOLEAN, level : Levels \cup {"none"}]]
           /\ ~core'[s].up
           /\ \A t \in Sessions : /\ core'[t].level = core[t].level
                                  /\ core'[t].up => core[t].up
<1> DEFINE Core == [up : BOOLEAN, level : Levels \cup {"none"}]
<1>1. core \in [Sessions -> Core]
  BY DEF ClientTypeOK
<1>2. core[s] \in Core
  BY <1>1
<1>3. [core[s] EXCEPT !.up = FALSE] \in Core
  BY <1>2
<1>4. core' = [core EXCEPT ![s] = [core[s] EXCEPT !.up = FALSE]]
  BY <1>1
<1>5. core' \in [Sessions -> Core]
  BY <1>1, <1>3, <1>4
<1>6. core'[s].up = FALSE /\ core'[s].level = core[s].level
  BY <1>1, <1>2, <1>4
<1>7. \A t \in Sessions : t # s => core'[t] = core[t]
  BY <1>1, <1>4
<1> QED
  BY <1>5, <1>6, <1>7

\* Every step keeps the types.
LEMMA ClientTypeStep ==
    ClientTypeOK /\ MineInv /\ [ClientNext]_vars => ClientTypeOK'
<1> SUFFICES ASSUME ClientTypeOK, MineInv, [ClientNext]_vars
             PROVE  ClientTypeOK'
  OBVIOUS
<1> USE DEF ClientTypeOK, CallStates, Killing
<1>1. ASSUME NEW c \in Calls, NEW k \in Methods, Call(c, k)
      PROVE  ClientTypeOK'
  BY <1>1 DEF Call
<1>2. ASSUME NEW c \in Calls, EnterStartGate(c) PROVE ClientTypeOK'
  BY <1>2 DEF EnterStartGate, Step, Goto
<1>3. ASSUME NEW c \in Calls, Check(c) PROVE ClientTypeOK'
  <2>1. Goto(c, "done") \/ Goto(c, "switch") \/ Goto(c, "launch")
    BY <1>3 DEF Check, Step
  <2> QED
    BY <1>3, <2>1, GotoType DEF Check
<1>4. ASSUME NEW c \in Calls, KillCurrent(c, "switch", "switching")
      PROVE  ClientTypeOK'
  BY <1>4 DEF KillCurrent, Disconnect, TakePending, Step, Goto
<1>5. ASSUME NEW c \in Calls, KillCurrent(c, "abort", "aborting")
      PROVE  ClientTypeOK'
  BY <1>5 DEF KillCurrent, Disconnect, TakePending, Step, Goto
<1>6. ASSUME NEW c \in Calls, KillCurrent(c, "shut", "shutting")
      PROVE  ClientTypeOK'
  BY <1>6 DEF KillCurrent, Disconnect, TakePending, Step, Goto
<1>7. ASSUME NEW c \in Calls, FinishKill(c) PROVE ClientTypeOK'
  <2>1. PICK to \in {"launch", "done", "shut", "abort"} : Goto(c, to)
    BY <1>7, FinishKillCases
  <2>2. /\ pc' \in [Calls -> CallStates]
        /\ kind' \in [Calls -> Methods \cup {"none"}]
        /\ mine' \in [Calls -> Sessions \cup {Nobody}]
    BY <2>1, GotoType
  <2>3. /\ core' \in [Sessions -> [up : BOOLEAN, level : Levels \cup {"none"}]]
        /\ closed' \in [Sessions -> BOOLEAN]
    <3>1. CASE victim[c] = Nobody
      BY <1>7, <3>1 DEF FinishKill, CloseVictim
    <3>2. CASE victim[c] # Nobody
      <4>1. /\ victim[c] \in Sessions
            /\ core' = [core EXCEPT ![victim[c]].up = FALSE]
            /\ closed' = [closed EXCEPT ![victim[c]] = TRUE]
        BY <1>7, <3>2 DEF FinishKill, CloseVictim
      <4> QED
        BY <4>1, CoreDown
    <3> QED
      BY <3>1, <3>2
  <2>4. /\ reply' \in [Calls -> Seq({"answer", "disconnected"})]
        /\ hand' \in [Calls \cup Sessions -> SUBSET Calls]
    BY <1>7 DEF FinishKill, FailReplies
  <2> QED
    BY <1>7, <2>2, <2>3, <2>4 DEF FinishKill
<1>8. ASSUME NEW c \in Calls, LaunchFails(c) PROVE ClientTypeOK'
  BY <1>8 DEF LaunchFails, Step, Goto
<1>9. ASSUME NEW c \in Calls, NEW s \in Sessions, NEW level \in Levels,
             Launch(c, s, level) PROVE ClientTypeOK'
  BY <1>9 DEF Launch
<1>10. ASSUME NEW c \in Calls, Install(c) PROVE ClientTypeOK'
  BY <1>10 DEF Install, Step, Goto
<1>11. ASSUME NEW c \in Calls, Negotiated(c) PROVE ClientTypeOK'
  <2>1. mine[c] \in Sessions
    BY <1>11 DEF Negotiated, MineInv
  <2>2. hello' \in {"none", "plain", "elevated"}
    BY <1>11, <2>1 DEF Negotiated, Acceptable, StoreHello
  <2>3. Goto(c, "done") \/ Goto(c, "abort")
    BY <1>11 DEF Negotiated, Step
  <2> QED
    BY <1>11, <2>2, <2>3, GotoType DEF Negotiated
<1>12. ASSUME NEW c \in Calls, Register(c) PROVE ClientTypeOK'
  BY <1>12 DEF Register, Step, Goto
<1>13. ASSUME NEW c \in Calls, NotConnected(c) PROVE ClientTypeOK'
  BY <1>13, AfterRequestCases DEF NotConnected, Step, Goto
<1>14. ASSUME NEW c \in Calls, EnterWriteGate(c) PROVE ClientTypeOK'
  BY <1>14 DEF EnterWriteGate, Step, Goto
<1>15. ASSUME NEW c \in Calls, Written(c) PROVE ClientTypeOK'
  <2>1. \E to \in CallStates : Goto(c, to)
    BY <1>15, AfterRequestCases DEF Written, Step
  <2> QED
    BY <1>15, <2>1, GotoType DEF Written
<1>16. ASSUME NEW c \in Calls, ReceiveReply(c) PROVE ClientTypeOK'
  <2>1. \E to \in CallStates : Goto(c, to)
    BY <1>16, AfterRequestCases DEF ReceiveReply, Step
  <2>2. reply' \in [Calls -> Seq({"answer", "disconnected"})]
    BY <1>16 DEF ReceiveReply
  <2> QED
    BY <1>16, <2>1, <2>2, GotoType DEF ReceiveReply
<1>17. ASSUME NEW c \in Calls, StartGateTimeout(c) PROVE ClientTypeOK'
  BY <1>17 DEF StartGateTimeout, Step, Goto
<1>18. ASSUME NEW c \in Calls, GiveUp(c) PROVE ClientTypeOK'
  BY <1>18, AfterRequestCases DEF GiveUp, Goto
<1>19. ASSUME NEW c \in Calls, WriteTimeout(c) PROVE ClientTypeOK'
  BY <1>19 DEF WriteTimeout, KillCurrent, Disconnect, TakePending, Step, Goto
<1>20. ASSUME NEW c \in Calls, WriteReturns(c) PROVE ClientTypeOK'
  <2>1. \E result \in {"none", "ok", "err"} :
            write' = [write EXCEPT ![c] = result]
    BY <1>20 DEF WriteReturns, Result
  <2>2. write' \in [Calls -> {"none", "busy", "ok", "err"}]
    BY <2>1
  <2>3. wire' \in SUBSET Calls
    BY <1>20 DEF WriteReturns
  <2> QED
    BY <1>20, <2>2, <2>3 DEF WriteReturns
<1>21. ASSUME NEW s \in Sessions, NEW c \in Calls, ReadAnswer(s, c)
      PROVE  ClientTypeOK'
  BY <1>21 DEF ReadAnswer, callVars
<1>22. ASSUME NEW s \in Sessions, Deliver(s) PROVE ClientTypeOK'
  BY <1>22 DEF Deliver, callVars
<1>23. ASSUME NEW s \in Sessions, FailSession(s) PROVE ClientTypeOK'
  BY <1>23 DEF FailSession, Disconnect, TakePending, callVars
<1>24. ASSUME NEW s \in Sessions, FinishFail(s) PROVE ClientTypeOK'
  BY <1>24 DEF FinishFail, FailReplies, callVars
<1>25. ASSUME NEW s \in Sessions, ReadEvent(s) PROVE ClientTypeOK'
  BY <1>25 DEF ReadEvent, callVars
<1>26. ASSUME NEW s \in Sessions, CoreExits(s) PROVE ClientTypeOK'
  BY <1>26, CoreDown DEF CoreExits, callVars
<1>27. ASSUME TakeEvent PROVE ClientTypeOK'
  BY <1>27 DEF TakeEvent, callVars
<1>28. ASSUME UNCHANGED vars PROVE ClientTypeOK'
  BY <1>28 DEF vars, callVars
<1> QED
  BY <1>1, <1>2, <1>3, <1>4, <1>5, <1>6, <1>7, <1>8, <1>9, <1>10,
     <1>11, <1>12, <1>13, <1>14, <1>15, <1>16, <1>17, <1>18, <1>19, <1>20,
     <1>21, <1>22, <1>23, <1>24, <1>25, <1>26, <1>27, <1>28
     DEF ClientNext, CallStep, Deadline, SessionStep

-----------------------------------------------------------------------------
(* The steps, grouped by what they have in common                          *)

\* ensure on its way to a session.
Gating(c) == \/ EnterStartGate(c) \/ Check(c) \/ LaunchFails(c)
             \/ StartGateTimeout(c)

\* killCurrent.
Kills(c) == \/ KillCurrent(c, "switch", "switching")
            \/ KillCurrent(c, "abort", "aborting")
            \/ KillCurrent(c, "shut", "shutting")
            \/ WriteTimeout(c)

\* A request that goes on or ends.
Ending(c) == NotConnected(c) \/ GiveUp(c) \/ Written(c) \/ ReceiveReply(c)

\* Everything but the calls.
Background ==
    \/ \E c \in Calls : WriteReturns(c)
    \/ \E s \in Sessions : \/ SessionStep(s) \/ FailSession(s) \/ ReadEvent(s)
                           \/ \E c \in Calls : ReadAnswer(s, c)
                           \/ CoreExits(s)
    \/ TakeEvent
    \/ UNCHANGED vars

\* A step of the client is one of these.
LEMMA StepCases ==
    ASSUME [ClientNext]_vars
    PROVE  \/ Background
           \/ \E c \in Calls :
                 \/ \E k \in Methods : Call(c, k)
                 \/ Gating(c) \/ Kills(c) \/ FinishKill(c)
                 \/ \E s \in Sessions, level \in Levels : Launch(c, s, level)
                 \/ Install(c) \/ Negotiated(c) \/ Register(c)
                 \/ EnterWriteGate(c) \/ Ending(c)
  BY DEF ClientNext, CallStep, Deadline, Gating, Kills, Ending, Background

\* What going on does to the locals of the calls.
LEMMA GotoEffect ==
    ASSUME ClientTypeOK, NEW c \in Calls, NEW to, Goto(c, to)
    PROVE  /\ pc'[c] = to
           /\ to # "done" => kind'[c] = kind[c] /\ mine'[c] = mine[c]
           /\ to = "done" => mine'[c] = Nobody
           /\ \A d \in Calls : d # c => /\ pc'[d] = pc[d]
                                        /\ kind'[d] = kind[d]
                                        /\ mine'[d] = mine[d]
<1>1. pc'[c] = to /\ \A d \in Calls : d # c => pc'[d] = pc[d]
  BY DEF ClientTypeOK, Goto
<1>2. /\ to # "done" => kind'[c] = kind[c]
      /\ \A d \in Calls : d # c => kind'[d] = kind[d]
  BY DEF ClientTypeOK, Goto
<1>3. /\ mine'[c] = IF to = "done" THEN Nobody ELSE mine[c]
      /\ \A d \in Calls : d # c => mine'[d] = mine[d]
  BY DEF ClientTypeOK, Goto
<1> QED
  BY <1>1, <1>2, <1>3

\* What the steps of ensure before a launch have in common.
LEMMA GatingCases ==
    ASSUME NEW c \in Calls, Gating(c)
    PROVE  /\ pc[c] \in {"gate", "check", "launch"}
           /\ \E to \in {"check", "switch", "launch", "done"} : Goto(c, to)
           /\ UNCHANGED <<session, hello, pending, writeGate, writer, write,
                          victim, wire, reply, hand, core, closed, reader,
                          failing, events>>
  BY DEF Gating, EnterStartGate, Check, LaunchFails, StartGateTimeout, Step

\* A killer goes where killCurrent was called from.
LEMMA KillsCases ==
    ASSUME NEW c \in Calls, Kills(c)
    PROVE  \E from \in {"switch", "abort", "shut", "writing"}, to \in Killing :
               /\ KillCurrent(c, from, to)
               /\ to = "switching" <=> from = "switch"
               /\ to = "stuck" <=> from = "writing"
  BY DEF Kills, WriteTimeout, Killing

\* What the ways for a request to go on or end have in common.
LEMMA EndingCases ==
    ASSUME NEW c \in Calls, Ending(c)
    PROVE  /\ pc[c] \in {"register", "wgate", "writing", "waiting"}
           /\ \E to \in {"waiting", "done", "shut", "negotiated", "abort"} :
                 /\ Goto(c, to)
                 /\ to = "waiting" => pc[c] = "writing"
                 /\ to \in {"negotiated", "abort"} =>
                       kind[c] \notin {"request", "shutdown"}
           /\ UNCHANGED <<session, hello, startGate, writer, victim, hand,
                          core, closed, reader, failing, events>>
<1>1. CASE NotConnected(c)
  BY <1>1, AfterRequestCases DEF NotConnected, Step
<1>2. CASE GiveUp(c)
  BY <1>2, AfterRequestCases DEF GiveUp, Step
<1>3. CASE Written(c)
  BY <1>3, AfterRequestCases DEF Written, Step
<1>4. CASE ReceiveReply(c)
  <2> DEFINE ok == Head(reply[c]) = "answer"
  <2>1. ok \in BOOLEAN
    OBVIOUS
  <2>2. Goto(c, AfterRequest(c, ok)) /\ pc[c] = "waiting"
    BY <1>4 DEF ReceiveReply, Step
  <2> HIDE DEF ok
  <2> QED
    BY <1>4, <2>1, <2>2, AfterRequestCases DEF ReceiveReply
<1> QED
  BY <1>1, <1>2, <1>3, <1>4 DEF Ending

\* No other goroutine touches the locals of a call or the gates.
LEMMA BackgroundFrame ==
    ASSUME Background
    PROVE  UNCHANGED <<startGate, writeGate, pc, kind, mine, writer, victim>>
  BY DEF Background, WriteReturns, SessionStep, ReadAnswer, Deliver,
     FailSession, FinishFail, ReadEvent, CoreExits, TakeEvent, vars, callVars

-----------------------------------------------------------------------------

\* An ensure knows its session from the launch on.
LEMMA MineStep ==
    ClientTypeOK /\ MineInv /\ [ClientNext]_vars => MineInv'
<1> SUFFICES ASSUME ClientTypeOK, MineInv, [ClientNext]_vars PROVE MineInv'
  OBVIOUS
<1> USE DEF MineInv
<1>1. CASE Background
  BY <1>1, BackgroundFrame
<1>2. ASSUME NEW c \in Calls, NEW k \in Methods, Call(c, k) PROVE MineInv'
  BY <1>2 DEF Call, ClientTypeOK
<1>3. ASSUME NEW c \in Calls, Gating(c) PROVE MineInv'
  BY <1>3, GatingCases, GotoEffect
<1>4. ASSUME NEW c \in Calls, Kills(c) PROVE MineInv'
  BY <1>4, KillsCases, GotoEffect DEF KillCurrent, Step, Killing
<1>5. ASSUME NEW c \in Calls, FinishKill(c) PROVE MineInv'
  BY <1>5, FinishKillCases, GotoEffect
<1>6. ASSUME NEW c \in Calls, NEW s \in Sessions, NEW level \in Levels,
             Launch(c, s, level)
      PROVE  MineInv'
  BY <1>6 DEF Launch, ClientTypeOK
<1>7. ASSUME NEW c \in Calls, Install(c) PROVE MineInv'
  BY <1>7, GotoEffect DEF Install, Step
<1>8. ASSUME NEW c \in Calls, Negotiated(c) PROVE MineInv'
  BY <1>8, GotoEffect DEF Negotiated, Step
<1>9. ASSUME NEW c \in Calls, Register(c) PROVE MineInv'
  BY <1>9, GotoEffect DEF Register, Step
<1>10. ASSUME NEW c \in Calls, EnterWriteGate(c) PROVE MineInv'
  BY <1>10, GotoEffect DEF EnterWriteGate, Step
<1>11. ASSUME NEW c \in Calls, Ending(c) PROVE MineInv'
  BY <1>11, EndingCases, GotoEffect
<1> QED
  BY StepCases, <1>1, <1>2, <1>3, <1>4, <1>5, <1>6, <1>7, <1>8, <1>9, <1>10,
     <1>11

\* A call has a session to close only between the halves of killCurrent.
LEMMA VictimStep ==
    ClientTypeOK /\ VictimInv /\ [ClientNext]_vars => VictimInv'
<1> SUFFICES ASSUME ClientTypeOK, VictimInv, [ClientNext]_vars PROVE VictimInv'
  OBVIOUS
<1> USE DEF VictimInv, Killing
<1>1. CASE Background
  BY <1>1, BackgroundFrame
<1>2. ASSUME NEW c \in Calls, NEW k \in Methods, Call(c, k) PROVE VictimInv'
  BY <1>2 DEF Call, ClientTypeOK
<1>3. ASSUME NEW c \in Calls, Gating(c) PROVE VictimInv'
  BY <1>3, GatingCases, GotoEffect
<1>4. ASSUME NEW c \in Calls, Kills(c) PROVE VictimInv'
  <2>1. PICK from \in {"switch", "abort", "shut", "writing"}, to \in Killing :
           KillCurrent(c, from, to)
    BY <1>4, KillsCases
  <2>2. /\ Goto(c, to)
        /\ \A d \in Calls : d # c => victim'[d] = victim[d]
    BY <2>1 DEF KillCurrent, Step, ClientTypeOK
  <2> QED
    BY <2>2, GotoEffect
<1>5. ASSUME NEW c \in Calls, FinishKill(c) PROVE VictimInv'
  <2>1. /\ victim'[c] = Nobody
        /\ \A d \in Calls : d # c => victim'[d] = victim[d]
    BY <1>5 DEF FinishKill, ClientTypeOK
  <2> QED
    BY <1>5, <2>1, FinishKillCases, GotoEffect
<1>6. ASSUME NEW c \in Calls, NEW s \in Sessions, NEW level \in Levels,
             Launch(c, s, level)
      PROVE  VictimInv'
  BY <1>6 DEF Launch, ClientTypeOK
<1>7. ASSUME NEW c \in Calls, Install(c) PROVE VictimInv'
  BY <1>7, GotoEffect DEF Install, Step
<1>8. ASSUME NEW c \in Calls, Negotiated(c) PROVE VictimInv'
  BY <1>8, GotoEffect DEF Negotiated, Step
<1>9. ASSUME NEW c \in Calls, Register(c) PROVE VictimInv'
  BY <1>9, GotoEffect DEF Register, Step
<1>10. ASSUME NEW c \in Calls, EnterWriteGate(c) PROVE VictimInv'
  BY <1>10, GotoEffect DEF EnterWriteGate, Step
<1>11. ASSUME NEW c \in Calls, Ending(c) PROVE VictimInv'
  BY <1>11, EndingCases, GotoEffect
<1> QED
  BY StepCases, <1>1, <1>2, <1>3, <1>4, <1>5, <1>6, <1>7, <1>8, <1>9, <1>10,
     <1>11

\* A session that is launched, or never was, is used by nobody.
LEMMA FreshStep ==
    ClientTypeOK /\ MineInv /\ FreshInv /\ [ClientNext]_vars => FreshInv'
<1> SUFFICES ASSUME ClientTypeOK, MineInv, FreshInv, [ClientNext]_vars
             PROVE  FreshInv'
  OBVIOUS
<1> USE DEF FreshInv
<1>1. CASE Background
  <2>1. session' \in {session, Nobody}
    BY <1>1 DEF Background, WriteReturns, SessionStep, ReadAnswer, Deliver,
       FailSession, FinishFail, ReadEvent, CoreExits, TakeEvent, Disconnect,
       vars, callVars
  <2>2. \A s \in Sessions : core'[s].level = core[s].level
    BY <1>1, CoreDown DEF Background, WriteReturns, SessionStep, ReadAnswer,
       Deliver, FailSession, FinishFail, ReadEvent, CoreExits, TakeEvent,
       vars, callVars
  <2> QED
    BY <1>1, <2>1, <2>2, BackgroundFrame DEF MineInv
<1>2. ASSUME NEW c \in Calls, NEW k \in Methods, Call(c, k) PROVE FreshInv'
  BY <1>2 DEF Call, ClientTypeOK
<1>3. ASSUME NEW c \in Calls, Gating(c) PROVE FreshInv'
  BY <1>3, GatingCases, GotoEffect
<1>4. ASSUME NEW c \in Calls, Kills(c) PROVE FreshInv'
  BY <1>4, KillsCases, GotoEffect DEF KillCurrent, Disconnect, Step, Killing,
     MineInv
<1>5. ASSUME NEW c \in Calls, FinishKill(c) PROVE FreshInv'
  <2>1. \A s \in Sessions : core'[s].level = core[s].level
    BY <1>5, CoreDown DEF FinishKill, CloseVictim, ClientTypeOK
  <2>2. UNCHANGED <<session, writer>>
    BY <1>5 DEF FinishKill
  <2> QED
    BY <1>5, <2>1, <2>2, FinishKillCases, GotoEffect
<1>6. ASSUME NEW c \in Calls, NEW s \in Sessions, NEW level \in Levels,
             Launch(c, s, level)
      PROVE  FreshInv'
  <2>1. /\ core'[s].level = level
        /\ \A t \in Sessions : t # s => core'[t] = core[t]
    BY <1>6 DEF Launch, ClientTypeOK
  <2>2. /\ pc'[c] = "install" /\ mine'[c] = s
        /\ \A d \in Calls : d # c => pc'[d] = pc[d] /\ mine'[d] = mine[d]
    BY <1>6 DEF Launch, ClientTypeOK
  <2>3. core[s].level = "none" /\ UNCHANGED <<session, writer>>
    BY <1>6 DEF Launch
  <2> QED
    BY <2>1, <2>2, <2>3
<1>7. ASSUME NEW c \in Calls, Install(c) PROVE FreshInv'
  <2>1. mine[c] \in Sessions /\ pc[c] = "install"
    BY <1>7 DEF Install, Step, MineInv
  <2>2. /\ session' = mine[c] /\ UNCHANGED <<core, writer>>
        /\ Goto(c, "register")
    BY <1>7 DEF Install, Step
  <2> QED
    BY <2>1, <2>2, GotoEffect DEF MineInv
<1>8. ASSUME NEW c \in Calls, Negotiated(c) PROVE FreshInv'
  BY <1>8, GotoEffect DEF Negotiated, Step
<1>9. ASSUME NEW c \in Calls, Register(c) PROVE FreshInv'
  <2>1. UNCHANGED <<session, core>> /\ Goto(c, "wgate") /\ pc[c] = "register"
    BY <1>9 DEF Register, Step
  <2>2. /\ session # Nobody /\ writer'[c] = session
        /\ \A d \in Calls : d # c => writer'[d] = writer[d]
    BY <1>9 DEF Register, ClientTypeOK
  <2> QED
    BY <2>1, <2>2, GotoEffect DEF MineInv
<1>10. ASSUME NEW c \in Calls, EnterWriteGate(c) PROVE FreshInv'
  BY <1>10, GotoEffect DEF EnterWriteGate, Step
<1>11. ASSUME NEW c \in Calls, Ending(c) PROVE FreshInv'
  BY <1>11, EndingCases, GotoEffect
<1> QED
  BY StepCases, <1>1, <1>2, <1>3, <1>4, <1>5, <1>6, <1>7, <1>8, <1>9, <1>10,
     <1>11

\* A write goroutine left behind never writes to the session in use.
LEMMA WriteStep ==
    ClientTypeOK /\ MineInv /\ FreshInv /\ WriteInv /\ [ClientNext]_vars
        => WriteInv'
<1> SUFFICES ASSUME ClientTypeOK, MineInv, FreshInv, WriteInv,
                    [ClientNext]_vars
             PROVE  WriteInv'
  OBVIOUS
<1> USE DEF WriteInv, Early
<1>1. CASE Background
  <2>1. session' \in {session, Nobody}
    BY <1>1 DEF Background, WriteReturns, SessionStep, ReadAnswer, Deliver,
       FailSession, FinishFail, ReadEvent, CoreExits, TakeEvent, Disconnect,
       vars, callVars
  <2>2. \A c \in Calls : \/ write'[c] = write[c]
                         \/ write[c] = "busy" /\ write'[c] # "busy"
    BY <1>1 DEF Background, WriteReturns, Result, SessionStep, ReadAnswer,
       Deliver, FailSession, FinishFail, ReadEvent, CoreExits, TakeEvent,
       vars, callVars, ClientTypeOK
  <2> QED
    BY <1>1, <2>1, <2>2, BackgroundFrame
<1>2. ASSUME NEW c \in Calls, NEW k \in Methods, Call(c, k) PROVE WriteInv'
  BY <1>2 DEF Call, ClientTypeOK
<1>3. ASSUME NEW c \in Calls, Gating(c) PROVE WriteInv'
  BY <1>3, GatingCases, GotoEffect
<1>4. ASSUME NEW c \in Calls, Kills(c) PROVE WriteInv'
  <2>1. PICK from \in {"switch", "abort", "shut", "writing"}, to \in Killing :
           /\ KillCurrent(c, from, to)
           /\ to = "switching" <=> from = "switch"
           /\ to = "stuck" <=> from = "writing"
    BY <1>4, KillsCases
  <2>2. /\ pc[c] = from /\ Goto(c, to) /\ session' = Nobody
        /\ UNCHANGED <<writeGate, writer, write>>
    BY <2>1 DEF KillCurrent, Step, Disconnect
  <2> QED
    BY <2>1, <2>2, GotoEffect DEF Killing
<1>5. ASSUME NEW c \in Calls, FinishKill(c) PROVE WriteInv'
  <2>1. /\ UNCHANGED <<session, writer, write>>
        /\ pc[c] \in Killing
        /\ writeGate' = IF pc[c] = "stuck" THEN Nobody ELSE writeGate
    BY <1>5 DEF FinishKill
  <2>2. PICK to \in {"launch", "done", "shut", "abort"} :
           /\ Goto(c, to)
           /\ to = "launch" <=> pc[c] = "switching"
    BY <1>5, FinishKillCases
  <2> QED
    BY <2>1, <2>2, GotoEffect DEF Killing
<1>6. ASSUME NEW c \in Calls, NEW s \in Sessions, NEW level \in Levels,
             Launch(c, s, level)
      PROVE  WriteInv'
  BY <1>6 DEF Launch, ClientTypeOK
<1>7. ASSUME NEW c \in Calls, Install(c) PROVE WriteInv'
  <2>1. /\ session' = mine[c] /\ UNCHANGED <<writer, write, writeGate>>
        /\ pc[c] = "install" /\ Goto(c, "register")
    BY <1>7 DEF Install, Step
  <2> QED
    BY <2>1, GotoEffect DEF FreshInv
<1>8. ASSUME NEW c \in Calls, Negotiated(c) PROVE WriteInv'
  BY <1>8, GotoEffect DEF Negotiated, Step
<1>9. ASSUME NEW c \in Calls, Register(c) PROVE WriteInv'
  <2>1. /\ UNCHANGED <<session, write, writeGate>>
        /\ Goto(c, "wgate") /\ pc[c] = "register"
    BY <1>9 DEF Register, Step
  <2>2. /\ session \in Sessions /\ writer'[c] = session
        /\ \A d \in Calls : d # c => writer'[d] = writer[d]
    BY <1>9 DEF Register, ClientTypeOK
  <2> QED
    BY <2>1, <2>2, GotoEffect
<1>10. ASSUME NEW c \in Calls, EnterWriteGate(c) PROVE WriteInv'
  <2>1. /\ UNCHANGED <<session, writer>>
        /\ Goto(c, "writing") /\ pc[c] = "wgate"
        /\ writeGate = Nobody /\ writeGate' = c
    BY <1>10 DEF EnterWriteGate, Step
  <2>2. /\ write'[c] = "busy"
        /\ \A d \in Calls : d # c => write'[d] = write[d]
    BY <1>10 DEF EnterWriteGate, ClientTypeOK
  <2> QED
    BY <2>1, <2>2, GotoEffect
<1>11. ASSUME NEW c \in Calls, Ending(c) PROVE WriteInv'
  <2>1. UNCHANGED <<session, writer>>
    BY <1>11, EndingCases
  <2>2. \/ UNCHANGED <<write, writeGate>> /\ pc[c] # "writing"
        \/ /\ pc[c] = "writing" /\ writeGate' = Nobody
           /\ write[c] # "busy" /\ write'[c] = "none"
           /\ \A d \in Calls : d # c => write'[d] = write[d]
    <3>1. CASE Written(c)
      BY <3>1 DEF Written, Step, ClientTypeOK
    <3>2. CASE NotConnected(c) \/ GiveUp(c) \/ ReceiveReply(c)
      BY <3>2 DEF NotConnected, GiveUp, ReceiveReply, Step
    <3> QED
      BY <1>11, <3>1, <3>2 DEF Ending
  <2> QED
    BY <1>11, <2>1, <2>2, EndingCases, GotoEffect
<1> QED
  BY StepCases, <1>1, <1>2, <1>3, <1>4, <1>5, <1>6, <1>7, <1>8, <1>9, <1>10,
     <1>11

\* Replies and hello go with their session.
LEMMA HeldStep ==
    ClientTypeOK /\ MineInv /\ FreshInv /\ HeldIsCurrent /\ [ClientNext]_vars
        => HeldIsCurrent'
<1> SUFFICES ASSUME ClientTypeOK, MineInv, FreshInv, HeldIsCurrent,
                    [ClientNext]_vars
             PROVE  HeldIsCurrent'
  OBVIOUS
<1>0. session \in Sessions \cup {Nobody} /\ pending \subseteq Calls
  BY DEF ClientTypeOK
<1> USE <1>0 DEF HeldIsCurrent
<1>1. CASE Background
  <2>1. \/ UNCHANGED <<session, hello>> /\ pending' \subseteq pending
        \/ session' = Nobody /\ hello' = "none" /\ pending' = {}
    BY <1>1 DEF Background, WriteReturns, SessionStep, ReadAnswer, Deliver,
       FailSession, FinishFail, ReadEvent, CoreExits, TakeEvent, Disconnect,
       TakePending, vars, callVars
  <2>2. \A s \in Sessions : core'[s].level = core[s].level
    BY <1>1, CoreDown DEF Background, WriteReturns, SessionStep, ReadAnswer,
       Deliver, FailSession, FinishFail, ReadEvent, CoreExits, TakeEvent,
       vars, callVars
  <2> QED
    BY <1>1, <2>1, <2>2, BackgroundFrame
<1>2. ASSUME NEW c \in Calls, NEW k \in Methods, Call(c, k)
      PROVE  HeldIsCurrent'
  BY <1>2 DEF Call
<1>3. ASSUME NEW c \in Calls, Gating(c) PROVE HeldIsCurrent'
  BY <1>3, GatingCases
<1>4. ASSUME NEW c \in Calls, Kills(c) PROVE HeldIsCurrent'
  BY <1>4, KillsCases DEF KillCurrent, Disconnect, TakePending
<1>5. ASSUME NEW c \in Calls, FinishKill(c) PROVE HeldIsCurrent'
  <2>1. \A s \in Sessions : core'[s].level = core[s].level
    BY <1>5, CoreDown DEF FinishKill, CloseVictim, ClientTypeOK
  <2>2. UNCHANGED <<session, hello, pending, writer>>
    BY <1>5 DEF FinishKill
  <2> QED
    BY <2>1, <2>2
<1>6. ASSUME NEW c \in Calls, NEW s \in Sessions, NEW level \in Levels,
             Launch(c, s, level)
      PROVE  HeldIsCurrent'
  <2>1. \A t \in Sessions : t # s => core'[t] = core[t]
    BY <1>6 DEF Launch, ClientTypeOK
  <2>2. core[s].level = "none" /\ UNCHANGED <<session, hello, pending, writer>>
    BY <1>6 DEF Launch
  <2> QED
    BY <2>1, <2>2 DEF FreshInv
<1>7. ASSUME NEW c \in Calls, Install(c) PROVE HeldIsCurrent'
  BY <1>7 DEF Install
<1>8. ASSUME NEW c \in Calls, Negotiated(c) PROVE HeldIsCurrent'
  <2>1. mine[c] \in Sessions
    BY <1>8 DEF Negotiated, MineInv
  <2>2. /\ UNCHANGED <<session, pending, writer, core>>
        /\ StoreHello(c) \/ UNCHANGED hello
    BY <1>8 DEF Negotiated
  <2> QED
    BY <2>1, <2>2 DEF StoreHello
<1>9. ASSUME NEW c \in Calls, Register(c) PROVE HeldIsCurrent'
  <2>1. /\ UNCHANGED <<session, hello, core>> /\ session # Nobody
        /\ pending' = pending \cup {c}
    BY <1>9 DEF Register
  <2>2. /\ writer'[c] = session
        /\ \A d \in Calls : d # c => writer'[d] = writer[d]
    BY <1>9 DEF Register, ClientTypeOK
  <2> QED
    BY <2>1, <2>2
<1>10. ASSUME NEW c \in Calls, EnterWriteGate(c) PROVE HeldIsCurrent'
  BY <1>10 DEF EnterWriteGate
<1>11. ASSUME NEW c \in Calls, Ending(c) PROVE HeldIsCurrent'
  <2>1. pending' \subseteq pending
    BY <1>11 DEF Ending, NotConnected, GiveUp, Written, ReceiveReply
  <2> QED
    BY <1>11, <2>1, EndingCases
<1> QED
  BY StepCases, <1>1, <1>2, <1>3, <1>4, <1>5, <1>6, <1>7, <1>8, <1>9, <1>10,
     <1>11

\* Somebody will close the session, or it is in use.
Owned(s) == \/ session = s
            \/ s \in failing
            \/ \E c \in Calls : victim[c] = s
            \/ \E c \in Calls : pc[c] = "install" /\ mine[c] = s

\* Whoever lets go of an open core passes it on.
LEMMA OwnedStep ==
    ClientTypeOK /\ MineInv /\ VictimInv /\ NoOrphanCore /\ [ClientNext]_vars
        => NoOrphanCore'
<1> SUFFICES ASSUME ClientTypeOK, MineInv, VictimInv, NoOrphanCore,
                    [ClientNext]_vars,
                    NEW o \in Sessions, core'[o].up, ~closed'[o]
             PROVE  Owned(o)'
  BY DEF NoOrphanCore, Owned
<1>0. ASSUME core[o].up, ~closed[o] PROVE Owned(o)
  BY <1>0 DEF NoOrphanCore, Owned
<1>1. CASE Background
  <2>1. core[o].up /\ ~closed[o]
    <3>1. CASE \E s \in Sessions : CoreExits(s)
      BY <3>1, CoreDown DEF CoreExits
    <3>2. CASE \E s \in Sessions : FinishFail(s)
      BY <3>2 DEF FinishFail, ClientTypeOK
    <3>3. CASE UNCHANGED <<core, closed>>
      BY <3>3
    <3> QED
      BY <1>1, <3>1, <3>2, <3>3 DEF Background, WriteReturns, SessionStep,
         ReadAnswer, Deliver, FailSession, ReadEvent, TakeEvent, vars
  <2>2. /\ session = o => session' = o \/ o \in failing'
        /\ o \in failing => o \in failing'
    BY <1>1 DEF Background, WriteReturns, SessionStep, ReadAnswer, Deliver,
       FailSession, FinishFail, ReadEvent, CoreExits, TakeEvent, Disconnect,
       vars, callVars, ClientTypeOK
  <2> QED
    BY <1>1, <1>0, <2>1, <2>2, BackgroundFrame DEF Owned
<1>2. ASSUME NEW c \in Calls, NEW k \in Methods, Call(c, k) PROVE Owned(o)'
  BY <1>2, <1>0 DEF Call, Owned, ClientTypeOK
<1>3. ASSUME NEW c \in Calls, Gating(c) PROVE Owned(o)'
  <2>1. /\ UNCHANGED <<session, victim, core, closed, failing>>
        /\ pc[c] # "install" /\ \E to \in CallStates : Goto(c, to)
    BY <1>3, GatingCases DEF CallStates
  <2> QED
    BY <1>0, <2>1, GotoEffect DEF Owned
<1>4. ASSUME NEW c \in Calls, Kills(c) PROVE Owned(o)'
  <2>1. PICK from \in {"switch", "abort", "shut", "writing"}, to \in Killing :
           KillCurrent(c, from, to)
    BY <1>4, KillsCases
  <2>2. /\ pc[c] = from /\ Goto(c, to)
        /\ UNCHANGED <<core, closed, failing>>
    BY <2>1 DEF KillCurrent, Step
  <2>3. /\ victim[c] = Nobody /\ victim'[c] = session
        /\ \A d \in Calls : d # c => victim'[d] = victim[d]
    <3>1. victim[c] = Nobody
      BY <2>2 DEF VictimInv, Killing
    <3>2. victim' = [victim EXCEPT ![c] = session]
      BY <2>1 DEF KillCurrent
    <3> QED
      BY <3>1, <3>2 DEF ClientTypeOK
  <2> QED
    BY <1>0, <2>2, <2>3, GotoEffect DEF Owned
<1>5. ASSUME NEW c \in Calls, FinishKill(c) PROVE Owned(o)'
  <2>1. /\ core[o].up /\ ~closed[o]
        /\ victim[c] # o
    <3>1. CASE victim[c] = Nobody
      BY <1>5, <3>1 DEF FinishKill, CloseVictim
    <3>2. CASE victim[c] # Nobody
      <4>1. /\ victim[c] \in Sessions
            /\ core' = [core EXCEPT ![victim[c]].up = FALSE]
            /\ closed' = [closed EXCEPT ![victim[c]] = TRUE]
        BY <1>5, <3>2 DEF FinishKill, CloseVictim, ClientTypeOK
      <4>2. victim[c] # o /\ ~closed[o]
        BY <4>1 DEF ClientTypeOK
      <4> QED
        BY <4>1, <4>2, CoreDown
    <3> QED
      BY <3>1, <3>2
  <2>2. /\ UNCHANGED <<session, failing>>
        /\ \A d \in Calls : d # c => victim'[d] = victim[d]
    BY <1>5 DEF FinishKill, ClientTypeOK
  <2>3. pc[c] # "install" /\ \E to : Goto(c, to)
    BY <1>5 DEF FinishKill, Killing
  <2> QED
    BY <1>0, <2>1, <2>2, <2>3, GotoEffect DEF Owned
<1>6. ASSUME NEW c \in Calls, NEW s \in Sessions, NEW level \in Levels,
             Launch(c, s, level)
      PROVE  Owned(o)'
  <2>1. /\ pc'[c] = "install" /\ mine'[c] = s /\ pc[c] # "install"
        /\ \A d \in Calls : d # c => pc'[d] = pc[d] /\ mine'[d] = mine[d]
        /\ UNCHANGED <<session, victim, closed, failing>>
        /\ o # s => core'[o] = core[o]
    BY <1>6 DEF Launch, ClientTypeOK
  <2> QED
    BY <1>0, <2>1 DEF Owned
<1>7. ASSUME NEW c \in Calls, Install(c) PROVE Owned(o)'
  <2>1. /\ session = Nobody /\ session' = mine[c] /\ Goto(c, "register")
        /\ UNCHANGED <<victim, core, closed, failing>>
    BY <1>7 DEF Install, Step
  <2> QED
    BY <1>0, <2>1, GotoEffect DEF Owned
<1>8. ASSUME NEW c \in Calls, Negotiated(c) PROVE Owned(o)'
  <2>1. /\ UNCHANGED <<session, victim, core, closed, failing>>
        /\ pc[c] # "install" /\ \E to : Goto(c, to)
    BY <1>8 DEF Negotiated, Step
  <2> QED
    BY <1>0, <2>1, GotoEffect DEF Owned
<1>9. ASSUME NEW c \in Calls, Register(c) PROVE Owned(o)'
  <2>1. /\ UNCHANGED <<session, victim, core, closed, failing>>
        /\ pc[c] # "install" /\ \E to : Goto(c, to)
    BY <1>9 DEF Register, Step
  <2> QED
    BY <1>0, <2>1, GotoEffect DEF Owned
<1>10. ASSUME NEW c \in Calls, EnterWriteGate(c) PROVE Owned(o)'
  <2>1. /\ UNCHANGED <<session, victim, core, closed, failing>>
        /\ pc[c] # "install" /\ \E to : Goto(c, to)
    BY <1>10 DEF EnterWriteGate, Step
  <2> QED
    BY <1>0, <2>1, GotoEffect DEF Owned
<1>11. ASSUME NEW c \in Calls, Ending(c) PROVE Owned(o)'
  <2>1. /\ UNCHANGED <<session, victim, core, closed, failing>>
        /\ pc[c] # "install" /\ \E to : Goto(c, to)
    BY <1>11, EndingCases
  <2> QED
    BY <1>0, <2>1, GotoEffect DEF Owned
<1> QED
  BY StepCases, <1>1, <1>2, <1>3, <1>4, <1>5, <1>6, <1>7, <1>8, <1>9, <1>10,
     <1>11

\* No call goes back to before its request.
NoReturn == \A c \in Calls : pc'[c] \in Early => pc[c] \in Early

\* Taking the map gives its replies one new owner.
LEMMA TakePendingReply ==
    ASSUME ClientTypeOK, ReplyInv, NEW a \in Calls \cup Sessions,
           TakePending(a), NoReturn, UNCHANGED <<reader, reply>>
    PROVE  ReplyInv'
<1>1. /\ pending' = {} /\ hand'[a] = pending
      /\ \A b \in Calls \cup Sessions : b # a => hand'[b] = hand[b]
  BY DEF TakePending, ClientTypeOK
<1>2. \A c \in Calls : Taken(c)' => Taken(c) \/ c \in pending
  BY <1>1 DEF Taken
<1>3. ReplyOnce'
  BY DEF ReplyInv, ReplyOnce
<1>4. \A s \in Sessions, b \in Calls \cup Sessions : reader'[s] \notin hand'[b]
  BY <1>1 DEF ReplyInv, Taken, ClientTypeOK
<1>5. \A c \in Calls, b, d \in Calls \cup Sessions :
          c \in hand'[b] /\ c \in hand'[d] => b = d
  BY <1>1 DEF ReplyInv, Taken
<1> QED
  BY <1>1, <1>2, <1>3, <1>4, <1>5 DEF ReplyInv, NoReturn

\* Failing the replies taken puts one value into each of their channels.
LEMMA FailRepliesReply ==
    ASSUME ClientTypeOK, ReplyInv, NEW a \in Calls \cup Sessions,
           FailReplies(a), NoReturn, UNCHANGED <<reader, pending>>
    PROVE  ReplyInv'
<1>1. /\ hand'[a] = {}
      /\ \A b \in Calls \cup Sessions : b # a => hand'[b] = hand[b]
  BY DEF FailReplies, ClientTypeOK
<1>2. \A c \in Calls : c \notin hand[a] => reply'[c] = reply[c]
  BY DEF FailReplies
<1>3. \A c \in Calls : c \in hand[a] =>
          /\ Len(reply'[c]) <= 1
          /\ c \notin pending
          /\ ~Taken(c)'
  <2> SUFFICES ASSUME NEW c \in Calls, c \in hand[a]
               PROVE  Len(reply'[c]) <= 1 /\ c \notin pending /\ ~Taken(c)'
    OBVIOUS
  <2>1. reply[c] = <<>> /\ c \notin pending
    BY DEF ReplyInv, Taken
  <2>2. reply'[c] = Append(reply[c], "disconnected")
    BY DEF FailReplies
  <2>3. ~Taken(c)'
    BY <1>1 DEF ReplyInv, Taken
  <2> QED
    BY <2>1, <2>2, <2>3
<1>4. \A c \in Calls : Taken(c)' => Taken(c)
  BY <1>1 DEF Taken
<1>5. ReplyOnce'
  <2> SUFFICES ASSUME NEW c \in Calls PROVE Len(reply'[c]) <= 1
    BY DEF ReplyOnce
  <2>1. CASE c \in hand[a]
    BY <1>3, <2>1
  <2>2. CASE c \notin hand[a]
    BY <1>2, <2>2 DEF ReplyInv, ReplyOnce
  <2> QED
    BY <2>1, <2>2
<1>6. /\ \A s \in Sessions, b \in Calls \cup Sessions :
            reader'[s] \notin hand'[b]
      /\ \A c \in Calls, b, d \in Calls \cup Sessions :
            c \in hand'[b] /\ c \in hand'[d] => b = d
  BY <1>1 DEF ReplyInv
<1>7. \A c \in Calls : pc'[c] \in Early =>
          c \notin pending' /\ ~Taken(c)' /\ reply'[c] = <<>>
  BY <1>2, <1>4 DEF ReplyInv, NoReturn, Taken
<1>8. \A c \in Calls : c \in pending' \/ Taken(c)' => reply'[c] = <<>>
  BY <1>2, <1>3, <1>4 DEF ReplyInv
<1> QED
  BY <1>4, <1>5, <1>6, <1>7, <1>8 DEF ReplyInv

\* A reply that is not touched stays where it is.
LEMMA SameReplies ==
    ASSUME ReplyInv, NoReturn, pending' \subseteq pending,
           UNCHANGED <<hand, reader, reply>>
    PROVE  ReplyInv'
  BY DEF ReplyInv, NoReturn, Taken, ReplyOnce

\* A reply changes owner, and never has two.
LEMMA ReplyStep == ClientTypeOK /\ ReplyInv /\ [ClientNext]_vars => ReplyInv'
<1> SUFFICES ASSUME ClientTypeOK, ReplyInv, [ClientNext]_vars PROVE ReplyInv'
  OBVIOUS
<1>1. CASE Background
  <2>0. NoReturn
    BY <1>1, BackgroundFrame DEF NoReturn
  <2>1. ASSUME NEW s \in Sessions, NEW c \in Calls, ReadAnswer(s, c)
        PROVE  ReplyInv'
    <3>1. CASE c \notin pending
      BY <2>0, <2>1, <3>1, SameReplies DEF ReadAnswer, ClientTypeOK
    <3>2. CASE c \in pending
      <4>1. /\ reader[s] = "reading" /\ reader'[s] = c
            /\ \A t \in Sessions : t # s => reader'[t] = reader[t]
            /\ pending' = pending \ {c}
            /\ UNCHANGED <<hand, reply>>
        BY <2>1, <3>2 DEF ReadAnswer, ClientTypeOK
      <4>2. \A d \in Calls : Taken(d)' => Taken(d) \/ d = c
        BY <4>1 DEF Taken
      <4>3. ~Taken(c) /\ reply[c] = <<>> /\ pc[c] \notin Early
        BY <3>2 DEF ReplyInv
      <4>4. \A t \in Sessions, a \in Calls \cup Sessions :
                reader'[t] \notin hand'[a]
        BY <4>1, <4>3 DEF ReplyInv, Taken
      <4>5. \A t, u \in Sessions :
                reader'[t] \in Calls /\ reader'[t] = reader'[u] => t = u
        BY <4>1, <4>3 DEF ReplyInv, Taken
      <4> QED
        BY <2>0, <4>1, <4>2, <4>3, <4>4, <4>5 DEF ReplyInv, ReplyOnce, NoReturn
    <3> QED
      BY <3>1, <3>2
  <2>2. ASSUME NEW s \in Sessions, Deliver(s) PROVE ReplyInv'
    <3>1. PICK c \in Calls : reader[s] = c
      BY <2>2 DEF Deliver
    <3>2. /\ reader'[s] = "reading"
          /\ \A t \in Sessions : t # s => reader'[t] = reader[t]
          /\ reply'[c] = Append(reply[c], "answer")
          /\ \A d \in Calls : d # c => reply'[d] = reply[d]
          /\ UNCHANGED <<hand, pending>>
      BY <2>2, <3>1 DEF Deliver, ClientTypeOK
    <3>3. /\ Taken(c) /\ reply[c] = <<>> /\ c \notin pending
          /\ pc[c] \notin Early
      BY <3>1 DEF ReplyInv, Taken
    <3>4. ~Taken(c)' /\ Len(reply'[c]) <= 1
      BY <3>1, <3>2, <3>3 DEF ReplyInv, Taken
    <3>5. \A d \in Calls : Taken(d)' => Taken(d)
      BY <3>2 DEF Taken
    <3>6. \A t \in Sessions, a \in Calls \cup Sessions :
              reader'[t] \notin hand'[a]
      BY <3>2 DEF ReplyInv, ClientTypeOK
    <3>7. ReplyOnce'
      <4> SUFFICES ASSUME NEW d \in Calls PROVE Len(reply'[d]) <= 1
        BY DEF ReplyOnce
      <4>1. CASE d = c
        BY <3>4, <4>1
      <4>2. CASE d # c
        BY <3>2, <4>2 DEF ReplyInv, ReplyOnce
      <4> QED
        BY <4>1, <4>2
    <3>8. \A d \in Calls : pc'[d] \in Early => d # c /\ pc[d] \in Early
      BY <2>0, <2>2, <3>3, BackgroundFrame, <1>1 DEF NoReturn
    <3>9. \A t, u \in Sessions :
              reader'[t] \in Calls /\ reader'[t] = reader'[u] => t = u
      BY <3>2 DEF ReplyInv
    <3> QED
      BY <3>2, <3>3, <3>4, <3>5, <3>6, <3>7, <3>8, <3>9 DEF ReplyInv
  <2>3. ASSUME NEW s \in Sessions, FailSession(s) PROVE ReplyInv'
    BY <2>0, <2>3, TakePendingReply DEF FailSession, Disconnect
  <2>4. ASSUME NEW s \in Sessions, FinishFail(s) PROVE ReplyInv'
    BY <2>0, <2>4, FailRepliesReply DEF FinishFail
  <2>5. CASE UNCHANGED <<pending, hand, reader, reply>>
    BY <2>0, <2>5, SameReplies
  <2> QED
    BY <1>1, <2>1, <2>2, <2>3, <2>4, <2>5 DEF Background, SessionStep,
       WriteReturns, ReadEvent, CoreExits, TakeEvent, vars
<1>2. ASSUME NEW c \in Calls, NEW k \in Methods, Call(c, k) PROVE ReplyInv'
  <2>1. NoReturn
    BY <1>2 DEF Call, NoReturn, Early, ClientTypeOK
  <2> QED
    BY <1>2, <2>1, SameReplies DEF Call
<1>3. ASSUME NEW c \in Calls, Gating(c) PROVE ReplyInv'
  <2>1. NoReturn
    BY <1>3, GatingCases, GotoEffect DEF NoReturn, Early
  <2> QED
    BY <1>3, <2>1, GatingCases, SameReplies
<1>4. ASSUME NEW c \in Calls, Kills(c) PROVE ReplyInv'
  <2>1. PICK from \in {"switch", "abort", "shut", "writing"}, to \in Killing :
           /\ KillCurrent(c, from, to)
           /\ to = "switching" <=> from = "switch"
    BY <1>4, KillsCases
  <2>2. NoReturn
    BY <2>1, GotoEffect DEF KillCurrent, Step, NoReturn, Early, Killing
  <2> QED
    BY <2>1, <2>2, TakePendingReply DEF KillCurrent, Disconnect
<1>5. ASSUME NEW c \in Calls, FinishKill(c) PROVE ReplyInv'
  <2>1. NoReturn
    BY <1>5, FinishKillCases, GotoEffect DEF NoReturn, Early
  <2> QED
    BY <1>5, <2>1, FailRepliesReply DEF FinishKill
<1>6. ASSUME NEW c \in Calls, NEW s \in Sessions, NEW level \in Levels,
             Launch(c, s, level)
      PROVE  ReplyInv'
  <2>1. NoReturn
    BY <1>6 DEF Launch, NoReturn, Early, ClientTypeOK
  <2> QED
    BY <1>6, <2>1, SameReplies DEF Launch
<1>7. ASSUME NEW c \in Calls, Install(c) PROVE ReplyInv'
  <2>1. NoReturn
    BY <1>7, GotoEffect DEF Install, Step, NoReturn, Early
  <2>2. pending' = {} /\ UNCHANGED <<hand, reply>>
    BY <1>7 DEF Install
  <2>3. \A s \in Sessions : reader'[s] \in Calls => reader'[s] = reader[s]
    BY <1>7 DEF Install, ClientTypeOK
  <2>4. \A d \in Calls : Taken(d)' => Taken(d)
    BY <2>2, <2>3 DEF Taken
  <2>5. \A s \in Sessions, a \in Calls \cup Sessions :
            reader'[s] \notin hand'[a]
    BY <2>2, <2>3 DEF ReplyInv, ClientTypeOK
  <2> QED
    BY <2>1, <2>2, <2>3, <2>4, <2>5 DEF ReplyInv, ReplyOnce, NoReturn
<1>8. ASSUME NEW c \in Calls, Negotiated(c) PROVE ReplyInv'
  <2>1. NoReturn
    BY <1>8, GotoEffect DEF Negotiated, Step, NoReturn, Early
  <2> QED
    BY <1>8, <2>1, SameReplies DEF Negotiated
<1>9. ASSUME NEW c \in Calls, Register(c) PROVE ReplyInv'
  <2>1. pc[c] \in Early /\ pc'[c] \notin Early /\ NoReturn
    BY <1>9, GotoEffect DEF Register, Step, NoReturn, Early
  <2>2. pending' = pending \cup {c} /\ UNCHANGED <<hand, reader, reply>>
    BY <1>9 DEF Register
  <2>3. \A d \in Calls : Taken(d)' <=> Taken(d)
    BY <2>2 DEF Taken
  <2> QED
    BY <2>1, <2>2, <2>3 DEF ReplyInv, ReplyOnce, NoReturn
<1>10. ASSUME NEW c \in Calls, EnterWriteGate(c) PROVE ReplyInv'
  <2>1. NoReturn
    BY <1>10, GotoEffect DEF EnterWriteGate, Step, NoReturn, Early
  <2> QED
    BY <1>10, <2>1, SameReplies DEF EnterWriteGate
<1>11. ASSUME NEW c \in Calls, Ending(c) PROVE ReplyInv'
  <2>1. NoReturn
    BY <1>11, EndingCases, GotoEffect DEF NoReturn, Early
  <2>2. CASE ReceiveReply(c)
    <3>1. /\ UNCHANGED <<pending, hand, reader>>
          /\ reply[c] # <<>> /\ reply'[c] = Tail(reply[c])
          /\ reply[c] \in Seq({"answer", "disconnected"})
          /\ \A d \in Calls : d # c => reply'[d] = reply[d]
      BY <2>2 DEF ReceiveReply, ClientTypeOK
    <3>2. Len(reply'[c]) <= 1
      BY <3>1 DEF ReplyInv, ReplyOnce
    <3>3. \A d \in Calls : Taken(d)' <=> Taken(d)
      BY <3>1 DEF Taken
    <3> QED
      BY <2>1, <3>1, <3>2, <3>3 DEF ReplyInv, ReplyOnce, NoReturn
  <2>3. CASE ~ReceiveReply(c)
    <3>1. pending' \subseteq pending /\ UNCHANGED <<hand, reader, reply>>
      BY <1>11, <2>3 DEF Ending, NotConnected, GiveUp, Written
    <3> QED
      BY <2>1, <3>1, SameReplies
  <2> QED
    BY <2>2, <2>3
<1> QED
  BY StepCases, <1>1, <1>2, <1>3, <1>4, <1>5, <1>6, <1>7, <1>8, <1>9, <1>10,
     <1>11

-----------------------------------------------------------------------------

\* The client always satisfies its invariant.
THEOREM ClientInvariance == ClientSpec => []CInv
<1>1. ClientInit => CInv
  <2> SUFFICES ASSUME ClientInit PROVE CInv
    OBVIOUS
  <2>1. ClientTypeOK
    BY DEF ClientInit, ClientTypeOK, CallStates
  <2>2. ReplyInv
    BY DEF ClientInit, ReplyInv, Taken, ReplyOnce
  <2>3. HeldIsCurrent /\ FreshInv /\ MineInv
    BY DEF ClientInit, HeldIsCurrent, FreshInv, MineInv
  <2>4. WriteInv /\ VictimInv
    BY DEF ClientInit, WriteInv, VictimInv
  <2>5. NoOrphanCore
    BY DEF ClientInit, NoOrphanCore
  <2> QED
    BY <2>1, <2>2, <2>3, <2>4, <2>5 DEF CInv
<1>2. CInv /\ [ClientNext]_vars => CInv'
  BY ClientTypeStep, ReplyStep, HeldStep, FreshStep, MineStep, WriteStep,
     VictimStep, OwnedStep DEF CInv
<1> QED
  BY <1>1, <1>2, PTL DEF ClientSpec

\* Type correctness of the client.
THEOREM ClientTypeCorrect == ClientSpec => []ClientTypeOK
<1>1. CInv => ClientTypeOK
  BY DEF CInv
<1> QED
  BY <1>1, ClientInvariance, PTL

\* No reply channel ever gets a second value: readLoop, killCurrent and
\* failSession never block on one another's reply.
THEOREM ReplyOnceAlways == ClientSpec => []ReplyOnce
<1>1. CInv => ReplyOnce
  BY DEF CInv, ReplyInv
<1> QED
  BY <1>1, ClientInvariance, PTL

\* What the client holds, replies and hello alike, belongs to its session.
THEOREM HeldIsCurrentAlways == ClientSpec => []HeldIsCurrent
<1>1. CInv => HeldIsCurrent
  BY DEF CInv
<1> QED
  BY <1>1, ClientInvariance, PTL

\* No core with an open transport is ever forgotten.
THEOREM NoOrphanCoreAlways == ClientSpec => []NoOrphanCore
<1>1. CInv => NoOrphanCore
  BY DEF CInv
<1> QED
  BY <1>1, ClientInvariance, PTL

\* Two write goroutines never write to the session in use at once.
THEOREM OneWriterAlways == ClientSpec => []OneWriter
<1>1. CInv => OneWriter
  BY DEF CInv, WriteInv, OneWriter
<1> QED
  BY <1>1, ClientInvariance, PTL

-----------------------------------------------------------------------------
(* The client keeps its promise                                            *)

\* The call waits for its reply.
Asking == {"wgate", "writing", "waiting"}

\* The answer is in the channel, or readLoop is about to put it there.
Answered(c) == reply[c] = <<"answer">> \/ \E s \in Sessions : reader[s] = c

\* So is the word that the session is over.
Lost(c) == \/ reply[c] = <<"disconnected">>
           \/ \E a \in Calls \cup Sessions : c \in hand[a]

\* How far a call has come, for its caller.
Status(c) ==
    IF pc[c] \in Early THEN "new"
    ELSE IF pc[c] \notin Asking THEN "ended"
    ELSE IF c \in pending THEN "open"
    ELSE IF Answered(c) THEN "answered"
    ELSE IF Lost(c) THEN "lost"
    ELSE "forgotten"

States == [c \in Calls |-> Status(c)]

\* The sessions that are read no more for the client.
Over == {s \in Sessions : reader[s] # "off"} \ {session}

Promise == INSTANCE ClientPromise WITH
    conn <- session, over <- Over, state <- States

\* The reply that a call waits for is somewhere: nobody has dropped it.
OwedInv == \A c \in Calls : Status(c) # "forgotten"

\* Only a killer, or a failSession under way, has replies to fail: taking
\* c.pending never overwrites some that have not been failed.
HandInv ==
    /\ \A c \in Calls : pc[c] \notin Killing => hand[c] = {}
    /\ \A s \in Sessions : s \notin failing => hand[s] = {}

\* A session is read from the moment it is the client's, which happens once.
ReaderInv ==
    /\ \A s \in Sessions : core[s].level = "none" => reader[s] = "off"
    /\ \A c \in Calls : pc[c] = "install" => reader[mine[c]] = "off"
    /\ session # Nobody => reader[session] # "off"
    /\ \A s \in failing : reader[s] # "off" /\ session # s

\* A session that has left c.session is not installed again.
LEMMA ReaderStep ==
    ClientTypeOK /\ MineInv /\ FreshInv /\ ReaderInv /\ [ClientNext]_vars
        => ReaderInv'
<1> SUFFICES ASSUME ClientTypeOK, MineInv, FreshInv, ReaderInv,
                    [ClientNext]_vars
             PROVE  ReaderInv'
  OBVIOUS
<1> USE DEF ReaderInv
<1>1. CASE Background
  <2>1. \A s \in Sessions : core'[s].level = core[s].level
    BY <1>1, CoreDown DEF Background, WriteReturns, SessionStep, ReadAnswer,
       Deliver, FailSession, FinishFail, ReadEvent, CoreExits, TakeEvent,
       vars, callVars
  <2>2. \A s \in Sessions : reader'[s] = "off" <=> reader[s] = "off"
    BY <1>1 DEF Background, WriteReturns, SessionStep, ReadAnswer,
       Deliver, FailSession, FinishFail, ReadEvent, CoreExits, TakeEvent,
       vars, callVars, ClientTypeOK
  <2>3. UNCHANGED <<pc, mine>>
    BY <1>1, BackgroundFrame
  <2>4. \/ session' = session /\ failing' \subseteq failing
        \/ session' = Nobody /\ failing' \subseteq failing \cup {session}
    BY <1>1 DEF Background, WriteReturns, SessionStep, ReadAnswer,
       Deliver, FailSession, FinishFail, ReadEvent, CoreExits, TakeEvent,
       Disconnect, vars, callVars
  <2>5. session' \in Sessions \cup {Nobody} /\ failing \subseteq Sessions
    BY <2>4 DEF ClientTypeOK
  <2>6. failing' \subseteq Sessions
    BY <1>1 DEF Background, WriteReturns, SessionStep, ReadAnswer,
       Deliver, FailSession, FinishFail, ReadEvent, CoreExits, TakeEvent,
       vars, callVars, ClientTypeOK
  <2> QED
    BY <2>1, <2>2, <2>3, <2>4, <2>5, <2>6 DEF MineInv
<1>2. ASSUME NEW c \in Calls, NEW k \in Methods, Call(c, k) PROVE ReaderInv'
  BY <1>2 DEF Call, ClientTypeOK
<1>3. ASSUME NEW c \in Calls, Gating(c) PROVE ReaderInv'
  BY <1>3, GatingCases, GotoEffect
<1>4. ASSUME NEW c \in Calls, Kills(c) PROVE ReaderInv'
  <2>1. PICK from \in {"switch", "abort", "shut", "writing"}, to \in Killing :
           KillCurrent(c, from, to)
    BY <1>4, KillsCases
  <2>2. session' = Nobody /\ UNCHANGED <<core, reader, failing>> /\ Goto(c, to)
    BY <2>1 DEF KillCurrent, Disconnect, Step
  <2>3. \A d \in Calls : pc'[d] = "install" =>
            pc[d] = "install" /\ mine'[d] = mine[d]
    BY <2>2, GotoEffect DEF Killing
  <2>4. failing \subseteq Sessions
    BY DEF ClientTypeOK
  <2> QED
    BY <2>2, <2>3, <2>4
<1>5. ASSUME NEW c \in Calls, FinishKill(c) PROVE ReaderInv'
  <2>1. \A s \in Sessions : core'[s].level = core[s].level
    BY <1>5, CoreDown DEF FinishKill, CloseVictim, ClientTypeOK
  <2>2. UNCHANGED <<session, reader, failing>>
    BY <1>5 DEF FinishKill
  <2> QED
    BY <1>5, <2>1, <2>2, FinishKillCases, GotoEffect
<1>6. ASSUME NEW c \in Calls, NEW s \in Sessions, NEW level \in Levels,
             Launch(c, s, level)
      PROVE  ReaderInv'
  <2>1. /\ core'[s].level = level /\ core[s].level = "none"
        /\ \A t \in Sessions : t # s => core'[t] = core[t]
    BY <1>6 DEF Launch, ClientTypeOK
  <2>2. /\ pc'[c] = "install" /\ mine'[c] = s
        /\ \A d \in Calls : d # c => pc'[d] = pc[d] /\ mine'[d] = mine[d]
    BY <1>6 DEF Launch, ClientTypeOK
  <2>3. UNCHANGED <<session, reader, failing>>
    BY <1>6 DEF Launch
  <2> QED
    BY <2>1, <2>2, <2>3
<1>7. ASSUME NEW c \in Calls, Install(c) PROVE ReaderInv'
  <2>1. mine[c] \in Sessions /\ pc[c] = "install" /\ session = Nobody
    BY <1>7 DEF Install, Step, MineInv
  <2>2. /\ session' = mine[c] /\ UNCHANGED <<core, failing>>
        /\ reader'[mine[c]] = "reading"
        /\ \A t \in Sessions : t # mine[c] => reader'[t] = reader[t]
        /\ Goto(c, "register")
    BY <1>7, <2>1 DEF Install, Step, ClientTypeOK
  <2>3. core[mine[c]].level # "none" /\ mine[c] \notin failing
    BY <2>1 DEF FreshInv
  <2>4. failing \subseteq Sessions
    BY DEF ClientTypeOK
  <2>5. \A d \in Calls : pc'[d] = "install" =>
            /\ d # c /\ pc[d] = "install"
            /\ mine'[d] = mine[d] /\ mine[d] \in Sessions /\ mine[d] # mine[c]
    BY <2>1, <2>2, GotoEffect DEF FreshInv, MineInv
  <2> QED
    BY <2>1, <2>2, <2>3, <2>4, <2>5
<1>8. ASSUME NEW c \in Calls, Negotiated(c) PROVE ReaderInv'
  BY <1>8, GotoEffect DEF Negotiated, Step
<1>9. ASSUME NEW c \in Calls, Register(c) PROVE ReaderInv'
  BY <1>9, GotoEffect DEF Register, Step
<1>10. ASSUME NEW c \in Calls, EnterWriteGate(c) PROVE ReaderInv'
  BY <1>10, GotoEffect DEF EnterWriteGate, Step
<1>11. ASSUME NEW c \in Calls, Ending(c) PROVE ReaderInv'
  BY <1>11, EndingCases, GotoEffect
<1> QED
  BY StepCases, <1>1, <1>2, <1>3, <1>4, <1>5, <1>6, <1>7, <1>8, <1>9, <1>10,
     <1>11
\* The replies taken are failed before the killer goes on.
LEMMA HandStep ==
    ClientTypeOK /\ ReaderInv /\ HandInv /\ [ClientNext]_vars => HandInv'
<1> SUFFICES ASSUME ClientTypeOK, ReaderInv, HandInv, [ClientNext]_vars
             PROVE  HandInv'
  OBVIOUS
<1> USE DEF HandInv
<1>1. CASE Background
  <2>1. UNCHANGED pc
    BY <1>1, BackgroundFrame
  <2>2. ASSUME NEW s \in Sessions, FailSession(s) PROVE HandInv'
    <3>1. \A a \in Calls \cup Sessions : a # s => hand'[a] = hand[a]
      BY <2>2 DEF FailSession, Disconnect, TakePending, ClientTypeOK
    <3>2. failing' = failing \cup {s} /\ s \notin Calls
      BY <2>2 DEF FailSession
    <3> QED
      BY <2>1, <3>1, <3>2
  <2>3. ASSUME NEW s \in Sessions, FinishFail(s) PROVE HandInv'
    <3>1. hand'[s] = {} /\ \A a \in Calls \cup Sessions : a # s => hand'[a] = hand[a]
      BY <2>3 DEF FinishFail, FailReplies, ClientTypeOK
    <3>2. failing' = failing \ {s} /\ s \notin Calls
      BY <2>3 DEF FinishFail
    <3> QED
      BY <2>1, <3>1, <3>2
  <2>4. CASE UNCHANGED <<hand, failing>>
    BY <2>1, <2>4
  <2> QED
    BY <1>1, <2>2, <2>3, <2>4 DEF Background, SessionStep, WriteReturns,
       ReadEvent, CoreExits, TakeEvent, ReadAnswer, Deliver, vars
<1>2. ASSUME NEW c \in Calls, NEW k \in Methods, Call(c, k) PROVE HandInv'
  BY <1>2 DEF Call, ClientTypeOK, Killing
<1>3. ASSUME NEW c \in Calls, Gating(c) PROVE HandInv'
  BY <1>3, GatingCases, GotoEffect DEF Killing
<1>4. ASSUME NEW c \in Calls, Kills(c) PROVE HandInv'
  <2>1. PICK from \in {"switch", "abort", "shut", "writing"}, to \in Killing :
           KillCurrent(c, from, to)
    BY <1>4, KillsCases
  <2>2. UNCHANGED failing /\ Goto(c, to)
    BY <2>1 DEF KillCurrent, Step
  <2>3. \A a \in Calls \cup Sessions : a # c => hand'[a] = hand[a]
    BY <2>1 DEF KillCurrent, Disconnect, TakePending, ClientTypeOK
  <2>4. pc'[c] \in Killing /\ \A d \in Calls : d # c => pc'[d] = pc[d]
    BY <2>2, GotoEffect
  <2> QED
    BY <2>2, <2>3, <2>4
<1>5. ASSUME NEW c \in Calls, FinishKill(c) PROVE HandInv'
  <2>1. hand'[c] = {} /\ \A a \in Calls \cup Sessions : a # c => hand'[a] = hand[a]
    BY <1>5 DEF FinishKill, FailReplies, ClientTypeOK
  <2>2. UNCHANGED failing
    BY <1>5 DEF FinishKill
  <2>3. \A d \in Calls : d # c => pc'[d] = pc[d]
    BY <1>5, FinishKillCases, GotoEffect
  <2> QED
    BY <2>1, <2>2, <2>3
<1>6. ASSUME NEW c \in Calls, NEW s \in Sessions, NEW level \in Levels,
             Launch(c, s, level)
      PROVE  HandInv'
  BY <1>6 DEF Launch, ClientTypeOK, Killing
<1>7. ASSUME NEW c \in Calls, Install(c) PROVE HandInv'
  BY <1>7, GotoEffect DEF Install, Step, Killing
<1>8. ASSUME NEW c \in Calls, Negotiated(c) PROVE HandInv'
  BY <1>8, GotoEffect DEF Negotiated, Step, Killing
<1>9. ASSUME NEW c \in Calls, Register(c) PROVE HandInv'
  BY <1>9, GotoEffect DEF Register, Step, Killing
<1>10. ASSUME NEW c \in Calls, EnterWriteGate(c) PROVE HandInv'
  BY <1>10, GotoEffect DEF EnterWriteGate, Step, Killing
<1>11. ASSUME NEW c \in Calls, Ending(c) PROVE HandInv'
  BY <1>11, EndingCases, GotoEffect DEF Killing
<1> QED
  BY StepCases, <1>1, <1>2, <1>3, <1>4, <1>5, <1>6, <1>7, <1>8, <1>9, <1>10,
     <1>11

\* A call whose reply and place are not touched is as far as it was.
LEMMA SameStatus ==
    ASSUME NEW c \in Calls,
           pc'[c] = pc[c] \/ \/ {pc[c], pc'[c]} \subseteq Early
                             \/ {pc[c], pc'[c]} \subseteq Asking
                             \/ {pc[c], pc'[c]} \cap (Early \cup Asking) = {},
           pc[c] \in Asking => /\ c \in pending' <=> c \in pending
                               /\ Answered(c)' <=> Answered(c)
                               /\ Lost(c)' <=> Lost(c)
    PROVE  Status(c)' = Status(c)
<1>1. /\ pc'[c] \in Early <=> pc[c] \in Early
      /\ pc'[c] \in Asking <=> pc[c] \in Asking
  BY DEF Early, Asking
<1> QED
  BY <1>1 DEF Status

\* What is untouched is where it was.
LEMMA SameOwners ==
    ASSUME NEW c \in Calls, reply'[c] = reply[c], UNCHANGED <<hand, reader>>
    PROVE  (Answered(c)' <=> Answered(c)) /\ (Lost(c)' <=> Lost(c))
  BY DEF Answered, Lost

\* No session begins to be read.
LEMMA SameOver ==
    ASSUME \A s \in Sessions : reader'[s] = "off" <=> reader[s] = "off",
           UNCHANGED session
    PROVE  UNCHANGED Over
  BY DEF Over

\* Only call c has come further.
LEMMA OneMoves ==
    ASSUME NEW c \in Calls, \A d \in Calls : d # c => Status(d)' = Status(d)
    PROVE  States' = [States EXCEPT ![c] = Status(c)'] /\ States[c] = Status(c)
  BY DEF States

\* A call that has not ended is not forgotten.
LEMMA StatusCases ==
    ASSUME OwedInv, NEW c \in Calls
    PROVE  /\ pc[c] \in Early => Status(c) = "new"
           /\ pc[c] \in Asking => Status(c) \in {"open", "answered", "lost"}
           /\ pc[c] \notin Early \cup Asking => Status(c) = "ended"
<1>1. Early \cap Asking = {}
  BY DEF Early, Asking
<1> QED
  BY <1>1 DEF Status, OwedInv
\* What the steps of the client are to the caller.
Kept == [Promise!PromiseNext]_(Promise!promise)

\* Nothing that a caller could see.
LEMMA Unseen ==
    ASSUME \A c \in Calls : Status(c)' = Status(c), UNCHANGED session,
           \A s \in Sessions : reader'[s] = "off" <=> reader[s] = "off"
    PROVE  Kept
<1>1. UNCHANGED States
  BY DEF States
<1> QED
  BY <1>1, SameOver DEF Kept, Promise!promise

\* One call returns.
LEMMA Returns ==
    ASSUME OwedInv, NEW c \in Calls,
           pc[c] \in Early \cup Asking, pc'[c] \notin Early \cup Asking,
           \A d \in Calls : d # c => Status(d)' = Status(d),
           UNCHANGED <<session, reader>>
    PROVE  Promise!Return(c)
<1>1. Status(c) \in {"new", "open", "answered", "lost"}
  BY StatusCases
<1>2. Status(c)' = "ended"
  BY DEF Status
<1>3. States' = [States EXCEPT ![c] = "ended"] /\ States[c] = Status(c)
  BY <1>2, OneMoves
<1>4. UNCHANGED Over
  BY SameOver
<1> QED
  BY <1>1, <1>3, <1>4 DEF Promise!Return, Promise!Moves, Promise!Asked

\* Failing the replies taken is not seen: they were lost when they were taken.
LEMMA FailedUnseen ==
    ASSUME ClientTypeOK, ReplyInv, NEW a \in Calls \cup Sessions,
           FailReplies(a), UNCHANGED reader, NEW c \in Calls
    PROVE  (Answered(c)' <=> Answered(c)) /\ (Lost(c)' <=> Lost(c))
<1>1. /\ hand'[a] = {}
      /\ \A b \in Calls \cup Sessions : b # a => hand'[b] = hand[b]
  BY DEF FailReplies, ClientTypeOK
<1>2. CASE c \in hand[a]
  <2>1. reply[c] = <<>> /\ reply'[c] = <<"disconnected">>
    <3>1. reply[c] = <<>>
      BY <1>2 DEF ReplyInv, Taken
    <3>2. reply'[c] = Append(reply[c], "disconnected")
      BY <1>2 DEF FailReplies
    <3> QED
      BY <3>1, <3>2
  <2>2. Lost(c) /\ Lost(c)'
    BY <1>2, <2>1 DEF Lost
  <2>3. reply[c] # <<"answer">> /\ reply'[c] # <<"answer">>
    BY <2>1
  <2> QED
    BY <2>2, <2>3 DEF Answered
<1>3. CASE c \notin hand[a]
  <2>1. reply'[c] = reply[c]
    BY <1>3 DEF FailReplies
  <2> QED
    BY <1>1, <1>3, <2>1 DEF Answered, Lost
<1> QED
  BY <1>2, <1>3

\* Taking c.pending loses all that is open, and nothing else.
LEMMA TakenIsLost ==
    ASSUME ClientTypeOK, ReplyInv, NEW a \in Calls \cup Sessions,
           hand[a] = {}, TakePending(a), UNCHANGED <<reader, reply>>,
           NEW c \in Calls, pc'[c] = pc[c]
    PROVE  Status(c)' = IF Status(c) = "open" THEN "lost" ELSE Status(c)
<1>1. /\ pending' = {} /\ hand'[a] = pending
      /\ \A b \in Calls \cup Sessions : b # a => hand'[b] = hand[b]
  BY DEF TakePending, ClientTypeOK
<1>2. Answered(c)' <=> Answered(c)
  BY DEF Answered
<1>3. CASE c \in pending
  <2>1. ~Answered(c)
    BY <1>3 DEF ReplyInv, Taken, Answered
  <2>2. Lost(c)'
    BY <1>1, <1>3 DEF Lost
  <2> QED
    BY <1>1, <1>2, <1>3, <2>1, <2>2 DEF Status
<1>4. CASE c \notin pending
  <2>1. Lost(c)' <=> Lost(c)
    BY <1>1, <1>4 DEF Lost
  <2> QED
    BY <1>1, <1>2, <1>4, <2>1 DEF Status
<1> QED
  BY <1>3, <1>4

\* The end of the session in place, for the calls that have not quit it.
LEMMA Disconnects ==
    ASSUME ReaderInv, session \in Sessions, session' = Nobody,
           UNCHANGED reader, NEW quitting \in SUBSET Calls,
           \A c \in Calls : Status(c)' =
               IF c \in quitting THEN "ended"
               ELSE IF Status(c) = "open" THEN "lost" ELSE Status(c)
    PROVE  Promise!Disconnect(quitting)
<1>1. Over' = Over \cup {session}
  BY DEF Over, ReaderInv
<1>2. States' = [c \in Calls |-> IF c \in quitting THEN "ended"
                                 ELSE IF States[c] = "open" THEN "lost"
                                 ELSE States[c]]
  BY DEF States
<1> QED
  BY <1>1, <1>2 DEF Promise!Disconnect
\* Every step of the client is one its promise allows, or is not seen.
LEMMA PromiseStep ==
    ASSUME CInv, ReaderInv, HandInv, OwedInv, [ClientNext]_vars
    PROVE  Kept
<1> USE DEF CInv
<1>1. CASE Background
  <2>0. UNCHANGED pc
    BY <1>1, BackgroundFrame
  <2>1. ASSUME NEW s \in Sessions, NEW c \in Calls, ReadAnswer(s, c)
        PROVE  Kept
    <3>1. /\ reader[s] = "reading" /\ session # Nobody
          /\ reader'[s] = IF c \in pending THEN c ELSE reader[s]
          /\ \A t \in Sessions : t # s => reader'[t] = reader[t]
          /\ pending' = pending \ {c}
          /\ UNCHANGED <<session, hand, reply>>
      BY <2>1 DEF ReadAnswer, ClientTypeOK
    <3>2. \A t \in Sessions : reader'[t] = "off" <=> reader[t] = "off"
      BY <3>1
    <3>3. \A d \in Calls : d # c => Status(d)' = Status(d)
      <4> SUFFICES ASSUME NEW d \in Calls, d # c PROVE Status(d)' = Status(d)
        OBVIOUS
      <4>1. (Answered(d)' <=> Answered(d)) /\ (Lost(d)' <=> Lost(d))
        BY <3>1 DEF Answered, Lost
      <4> QED
        BY <2>0, <3>1, <4>1, SameStatus
    <3>4. CASE c \notin pending \/ pc[c] \notin Asking
      <4>1. Status(c)' = Status(c)
        <5>1. CASE pc[c] \notin Asking
          BY <2>0, <5>1, SameStatus
        <5>2. CASE c \notin pending
          BY <2>0, <3>1, <5>2, SameStatus DEF Answered, Lost
        <5> QED
          BY <3>4, <5>1, <5>2
      <4> QED
        BY <3>1, <3>2, <3>3, <4>1, Unseen
    <3>5. CASE c \in pending /\ pc[c] \in Asking
      <4>1. pc[c] \notin Early
        BY <3>5 DEF Early, Asking
      <4>2. Status(c) = "open" /\ Status(c)' = "answered"
        BY <2>0, <3>1, <3>5, <4>1 DEF Status, Answered
      <4>3. States' = [States EXCEPT ![c] = "answered"] /\ States[c] = "open"
        BY <3>3, <4>2, OneMoves
      <4>4. Promise!Answer(c)
        BY <3>1, <3>2, <4>3, SameOver DEF Promise!Answer, Promise!Moves
      <4> QED
        BY <4>4 DEF Kept, Promise!PromiseNext
    <3> QED
      BY <3>4, <3>5
  <2>2. ASSUME NEW s \in Sessions, Deliver(s) PROVE Kept
    <3>1. PICK c \in Calls : reader[s] = c
      BY <2>2 DEF Deliver
    <3>2. /\ reader'[s] = "reading"
          /\ \A t \in Sessions : t # s => reader'[t] = reader[t]
          /\ reply'[c] = Append(reply[c], "answer")
          /\ \A d \in Calls : d # c => reply'[d] = reply[d]
          /\ UNCHANGED <<session, hand, pending>>
      BY <2>2, <3>1 DEF Deliver, ClientTypeOK
    <3>3. reply[c] = <<>>
      BY <3>1 DEF ReplyInv, Taken
    <3>4. reply'[c] = <<"answer">>
      BY <3>2, <3>3
    <3>5. Answered(c) /\ Answered(c)' /\ (Lost(c)' <=> Lost(c))
      BY <3>1, <3>2, <3>3, <3>4 DEF Answered, Lost
    <3>6. \A d \in Calls : d # c =>
              (Answered(d)' <=> Answered(d)) /\ (Lost(d)' <=> Lost(d))
      BY <3>1, <3>2 DEF Answered, Lost
    <3>7. \A d \in Calls : Status(d)' = Status(d)
      BY <2>0, <3>2, <3>5, <3>6, SameStatus
    <3> QED
      BY <3>1, <3>2, <3>7, Unseen
  <2>3. ASSUME NEW s \in Sessions, FailSession(s) PROVE Kept
    <3>1. /\ session = s /\ session' = Nobody /\ TakePending(s)
          /\ UNCHANGED <<reader, reply>>
      BY <2>3 DEF FailSession, Disconnect
    <3>2. hand[s] = {}
      BY <3>1 DEF ReaderInv, HandInv
    <3>3. \A c \in Calls : Status(c)' =
              IF Status(c) = "open" THEN "lost" ELSE Status(c)
      BY <2>0, <3>1, <3>2, TakenIsLost
    <3>4. Promise!Disconnect({})
      BY <3>1, <3>3, Disconnects
    <3> QED
      BY <3>4 DEF Kept, Promise!PromiseNext
  <2>4. ASSUME NEW s \in Sessions, FinishFail(s) PROVE Kept
    <3>1. FailReplies(s) /\ UNCHANGED <<session, reader, pending>>
      BY <2>4 DEF FinishFail
    <3>2. \A c \in Calls : Status(c)' = Status(c)
      BY <2>0, <3>1, FailedUnseen, SameStatus
    <3> QED
      BY <3>1, <3>2, Unseen
  <2>5. CASE UNCHANGED <<session, pending, hand, reader, reply>>
    <3>1. \A c \in Calls : Status(c)' = Status(c)
      BY <2>0, <2>5, SameOwners, SameStatus
    <3> QED
      BY <2>5, <3>1, Unseen
  <2> QED
    BY <1>1, <2>1, <2>2, <2>3, <2>4, <2>5 DEF Background, SessionStep,
       WriteReturns, ReadEvent, CoreExits, TakeEvent, vars
<1>2. ASSUME NEW c \in Calls, NEW k \in Methods, Call(c, k) PROVE Kept
  <2>1. /\ {pc[c], pc'[c]} \subseteq Early
        /\ \A d \in Calls : d # c => pc'[d] = pc[d]
    BY <1>2 DEF Call, Early, ClientTypeOK
  <2>2. UNCHANGED <<session, pending, hand, reader, reply>>
    BY <1>2 DEF Call
  <2>3. \A d \in Calls : Status(d)' = Status(d)
    BY <2>1, <2>2, SameOwners, SameStatus
  <2> QED
    BY <2>2, <2>3, Unseen
<1>3. ASSUME NEW c \in Calls, Gating(c) PROVE Kept
  <2>1. PICK to \in {"check", "switch", "launch", "done"} : Goto(c, to)
    BY <1>3, GatingCases
  <2>2. /\ pc[c] \in Early
        /\ UNCHANGED <<session, pending, hand, reader, reply>>
    BY <1>3, GatingCases DEF Early
  <2>3. pc'[c] = to /\ \A d \in Calls : d # c => pc'[d] = pc[d]
    BY <2>1, GotoEffect
  <2>4. \A d \in Calls : d # c => Status(d)' = Status(d)
    BY <2>2, <2>3, SameOwners, SameStatus
  <2>5. CASE to = "done"
    <3>1. Promise!Return(c)
      BY <2>2, <2>3, <2>4, <2>5, Returns DEF Early, Asking
    <3> QED
      BY <3>1 DEF Kept, Promise!PromiseNext
  <2>6. CASE to # "done"
    <3>1. {pc[c], pc'[c]} \subseteq Early /\ pc[c] \notin Asking
      BY <2>2, <2>3, <2>6 DEF Early, Asking
    <3>2. Status(c)' = Status(c)
      BY <3>1, SameStatus
    <3> QED
      BY <2>2, <2>4, <3>2, Unseen
  <2> QED
    BY <2>5, <2>6
<1>4. ASSUME NEW c \in Calls, Kills(c) PROVE Kept
  <2>1. PICK from \in {"switch", "abort", "shut", "writing"}, to \in Killing :
           /\ KillCurrent(c, from, to)
           /\ to = "switching" <=> from = "switch"
           /\ to = "stuck" <=> from = "writing"
    BY <1>4, KillsCases
  <2>2. /\ session' = Nobody /\ TakePending(c) /\ UNCHANGED <<reader, reply>>
        /\ pc[c] = from /\ Goto(c, to)
    BY <2>1 DEF KillCurrent, Disconnect, Step
  <2>3. pc'[c] = to /\ \A d \in Calls : d # c => pc'[d] = pc[d]
    BY <2>2, GotoEffect
  <2>4. hand[c] = {}
    BY <2>2 DEF HandInv, Killing
  <2>5. \A d \in Calls : d # c =>
            Status(d)' = IF Status(d) = "open" THEN "lost" ELSE Status(d)
    BY <2>2, <2>3, <2>4, TakenIsLost
  <2>6. session \in Sessions \cup {Nobody}
    BY DEF ClientTypeOK
  <2>7. session = Nobody => \A d \in Calls : Status(d) # "open"
    BY DEF HeldIsCurrent, Status
  <2>8. CASE from = "writing"
    <3>1. pc[c] \in Asking /\ pc'[c] \notin Early \cup Asking
      BY <2>1, <2>2, <2>3, <2>8 DEF Early, Asking
    <3>2. Status(c) \in {"open", "answered", "lost"}
      BY <3>1, StatusCases
    <3>3. Status(c)' = "ended"
      BY <3>1 DEF Status
    <3>4. CASE session = Nobody
      <4>1. \A d \in Calls : d # c => Status(d)' = Status(d)
        BY <2>5, <2>7, <3>4
      <4>2. Promise!Return(c)
        BY <2>2, <3>1, <3>4, <4>1, Returns
      <4> QED
        BY <4>2 DEF Kept, Promise!PromiseNext
    <3>5. CASE session \in Sessions
      <4>1. \A d \in Calls : Status(d)' =
                IF d \in {c} THEN "ended"
                ELSE IF Status(d) = "open" THEN "lost" ELSE Status(d)
        BY <2>5, <3>3
      <4>2. Promise!Disconnect({c})
        BY <2>2, <3>5, <4>1, Disconnects
      <4>3. States[c] \in Promise!Asked
        BY <3>2 DEF States, Promise!Asked
      <4> QED
        BY <4>2, <4>3 DEF Kept, Promise!PromiseNext
    <3> QED
      BY <2>6, <3>4, <3>5
  <2>9. CASE from # "writing"
    <3>1. \/ {pc[c], pc'[c]} \subseteq Early
          \/ {pc[c], pc'[c]} \cap (Early \cup Asking) = {}
      BY <2>1, <2>2, <2>3, <2>9 DEF Early, Asking, Killing
    <3>2. pc[c] \notin Asking
      BY <3>1 DEF Early, Asking
    <3>3. Status(c)' = Status(c) /\ Status(c) # "open"
      BY <3>1, <3>2, SameStatus DEF Status
    <3>4. CASE session = Nobody
      <4>1. \A d \in Calls : Status(d)' = Status(d)
        BY <2>5, <2>7, <3>3, <3>4
      <4> QED
        BY <2>2, <3>4, <4>1, Unseen
    <3>5. CASE session \in Sessions
      <4>1. Promise!Disconnect({})
        BY <2>2, <2>5, <3>3, <3>5, Disconnects
      <4> QED
        BY <4>1 DEF Kept, Promise!PromiseNext
    <3> QED
      BY <2>6, <3>4, <3>5
  <2> QED
    BY <2>8, <2>9
<1>5. ASSUME NEW c \in Calls, FinishKill(c) PROVE Kept
  <2>1. FailReplies(c) /\ UNCHANGED <<session, reader, pending>>
    BY <1>5 DEF FinishKill
  <2>2. PICK to \in {"launch", "done", "shut", "abort"} :
           Goto(c, to) /\ (to = "launch" <=> pc[c] = "switching")
    BY <1>5, FinishKillCases
  <2>3. pc'[c] = to /\ \A d \in Calls : d # c => pc'[d] = pc[d]
    BY <2>2, GotoEffect
  <2>4. pc[c] \in Killing
    BY <1>5 DEF FinishKill
  <2>5. \/ {pc[c], pc'[c]} \subseteq Early
        \/ {pc[c], pc'[c]} \cap (Early \cup Asking) = {}
    BY <2>2, <2>3, <2>4 DEF Early, Asking, Killing
  <2>6. \A d \in Calls : (Answered(d)' <=> Answered(d)) /\ (Lost(d)' <=> Lost(d))
    BY <2>1, FailedUnseen
  <2>7. \A d \in Calls : Status(d)' = Status(d)
    BY <2>1, <2>3, <2>5, <2>6, SameStatus
  <2> QED
    BY <2>1, <2>7, Unseen
<1>6. ASSUME NEW c \in Calls, NEW s \in Sessions, NEW level \in Levels,
             Launch(c, s, level)
      PROVE  Kept
  <2>1. /\ {pc[c], pc'[c]} \subseteq Early
        /\ \A d \in Calls : d # c => pc'[d] = pc[d]
    BY <1>6 DEF Launch, Early, ClientTypeOK
  <2>2. UNCHANGED <<session, pending, hand, reader, reply>>
    BY <1>6 DEF Launch
  <2>3. \A d \in Calls : Status(d)' = Status(d)
    BY <2>1, <2>2, SameOwners, SameStatus
  <2> QED
    BY <2>2, <2>3, Unseen
<1>7. ASSUME NEW c \in Calls, Install(c) PROVE Kept
  <2>1. mine[c] \in Sessions /\ pc[c] = "install" /\ session = Nobody
    BY <1>7 DEF Install, Step, MineInv
  <2>2. /\ session' = mine[c] /\ pending' = {} /\ UNCHANGED <<hand, reply>>
        /\ reader'[mine[c]] = "reading"
        /\ \A t \in Sessions : t # mine[c] => reader'[t] = reader[t]
        /\ Goto(c, "register")
    BY <1>7, <2>1 DEF Install, Step, ClientTypeOK
  <2>3. pending = {}
    BY <2>1 DEF HeldIsCurrent
  <2>4. reader[mine[c]] = "off"
    BY <2>1 DEF ReaderInv
  <2>5. \A d \in Calls : (Answered(d)' <=> Answered(d)) /\ (Lost(d)' <=> Lost(d))
    BY <2>1, <2>2, <2>4 DEF Answered, Lost
  <2>6. /\ {pc[c], pc'[c]} \subseteq Early
        /\ \A d \in Calls : d # c => pc'[d] = pc[d]
    BY <2>1, <2>2, GotoEffect DEF Early
  <2>7. \A d \in Calls : Status(d)' = Status(d)
    BY <2>2, <2>3, <2>5, <2>6, SameStatus
  <2>8. UNCHANGED States
    BY <2>7 DEF States
  <2>9. UNCHANGED Over /\ mine[c] \notin Over
    BY <2>1, <2>2, <2>4 DEF Over
  <2>10. Promise!Connect(mine[c])
    BY <2>1, <2>2, <2>8, <2>9 DEF Promise!Connect
  <2> QED
    BY <2>1, <2>10 DEF Kept, Promise!PromiseNext
<1>8. ASSUME NEW c \in Calls, Negotiated(c) PROVE Kept
  <2>1. UNCHANGED <<session, pending, hand, reader, reply>>
    BY <1>8 DEF Negotiated
  <2>2. /\ {pc[c], pc'[c]} \cap (Early \cup Asking) = {}
        /\ \A d \in Calls : d # c => pc'[d] = pc[d]
    BY <1>8, GotoEffect DEF Negotiated, Step, Early, Asking
  <2>3. \A d \in Calls : Status(d)' = Status(d)
    BY <2>1, <2>2, SameOwners, SameStatus
  <2> QED
    BY <2>1, <2>3, Unseen
<1>9. ASSUME NEW c \in Calls, Register(c) PROVE Kept
  <2>1. /\ session # Nobody /\ pending' = pending \cup {c}
        /\ UNCHANGED <<session, hand, reader, reply>>
        /\ pc[c] = "register" /\ Goto(c, "wgate")
    BY <1>9 DEF Register, Step
  <2>2. pc'[c] = "wgate" /\ \A d \in Calls : d # c => pc'[d] = pc[d]
    BY <2>1, GotoEffect
  <2>3. Status(c) = "new" /\ Status(c)' = "open"
    BY <2>1, <2>2 DEF Status, Early, Asking
  <2>4. \A d \in Calls : d # c => Status(d)' = Status(d)
    BY <2>1, <2>2, SameOwners, SameStatus
  <2>5. States' = [States EXCEPT ![c] = "open"] /\ States[c] = "new"
    BY <2>3, <2>4, OneMoves
  <2>6. UNCHANGED Over
    BY <2>1, SameOver
  <2>7. Promise!Ask(c)
    BY <2>1, <2>5, <2>6 DEF Promise!Ask, Promise!Moves
  <2> QED
    BY <2>7 DEF Kept, Promise!PromiseNext
<1>10. ASSUME NEW c \in Calls, EnterWriteGate(c) PROVE Kept
  <2>1. UNCHANGED <<session, pending, hand, reader, reply>>
    BY <1>10 DEF EnterWriteGate
  <2>2. /\ {pc[c], pc'[c]} \subseteq Asking
        /\ \A d \in Calls : d # c => pc'[d] = pc[d]
    BY <1>10, GotoEffect DEF EnterWriteGate, Step, Asking
  <2>3. \A d \in Calls : Status(d)' = Status(d)
    BY <2>1, <2>2, SameOwners, SameStatus
  <2> QED
    BY <2>1, <2>3, Unseen
<1>11. ASSUME NEW c \in Calls, Ending(c) PROVE Kept
  <2>1. PICK to \in {"waiting", "done", "shut", "negotiated", "abort"} :
           Goto(c, to) /\ (to = "waiting" => pc[c] = "writing")
    BY <1>11, EndingCases
  <2>2. /\ pc[c] \in Early \cup Asking
        /\ UNCHANGED <<session, hand, reader>>
    BY <1>11, EndingCases DEF Early, Asking
  <2>3. pc'[c] = to /\ \A d \in Calls : d # c => pc'[d] = pc[d]
    BY <2>1, GotoEffect
  <2>4. \A d \in Calls : d # c => /\ reply'[d] = reply[d]
                                  /\ d \in pending' <=> d \in pending
    BY <1>11 DEF Ending, NotConnected, GiveUp, Written, ReceiveReply,
       ClientTypeOK
  <2>5. \A d \in Calls : d # c => Status(d)' = Status(d)
    BY <2>2, <2>3, <2>4, SameOwners, SameStatus
  <2>6. CASE to # "waiting"
    <3>1. pc'[c] \notin Early \cup Asking
      BY <2>3, <2>6 DEF Early, Asking
    <3>2. Promise!Return(c)
      BY <2>2, <2>5, <3>1, Returns
    <3> QED
      BY <3>2 DEF Kept, Promise!PromiseNext
  <2>7. CASE to = "waiting"
    <3>1. pc[c] = "writing" /\ pc'[c] = "waiting"
      BY <2>1, <2>3, <2>7
    <3>2. Written(c)
      BY <1>11, <3>1 DEF Ending, NotConnected, GiveUp, ReceiveReply, Step
    <3>3. UNCHANGED <<pending, reply>>
      <4>1. CASE write[c] = "err"
        <5>1. pc'[c] = AfterRequest(c, FALSE)
          BY <3>2, <4>1, GotoEffect DEF Written, Step
        <5> QED
          BY <3>1, <5>1, AfterRequestCases
      <4>2. CASE write[c] # "err"
        BY <3>2, <4>2 DEF Written
      <4> QED
        BY <4>1, <4>2
    <3>4. {pc[c], pc'[c]} \subseteq Asking
      BY <3>1 DEF Asking
    <3>5. Status(c)' = Status(c)
      BY <2>2, <3>3, <3>4, SameOwners, SameStatus
    <3> QED
      BY <2>2, <2>5, <3>5, Unseen
  <2> QED
    BY <2>6, <2>7
<1> QED
  BY StepCases, <1>1, <1>2, <1>3, <1>4, <1>5, <1>6, <1>7, <1>8, <1>9, <1>10,
     <1>11

\* What the promise allows forgets no reply.
LEMMA OwedStep == ASSUME OwedInv, Kept PROVE OwedInv'
<1> SUFFICES ASSUME NEW c \in Calls PROVE Status(c)' # "forgotten"
  BY DEF OwedInv
<1>1. States[c] = Status(c) /\ States'[c] = Status(c)'
  BY DEF States
<1>2. Status(c) # "forgotten"
  BY DEF OwedInv
<1>3. CASE UNCHANGED States
  BY <1>1, <1>2, <1>3
<1>4. ASSUME NEW d \in Calls, NEW to \in {"open", "answered", "ended"},
             States' = [States EXCEPT ![d] = to]
      PROVE  Status(c)' # "forgotten"
  BY <1>1, <1>2, <1>4 DEF States
<1>5. ASSUME NEW quitting \in SUBSET Calls, Promise!Disconnect(quitting)
      PROVE  Status(c)' # "forgotten"
  BY <1>1, <1>2, <1>5 DEF Promise!Disconnect
<1> QED
  BY <1>3, <1>4, <1>5 DEF Kept, Promise!promise, Promise!PromiseNext,
     Promise!Connect, Promise!Ask, Promise!Answer, Promise!Return,
     Promise!Moves

\* What the promise needs of the client beyond CInv.
PromiseInv == ReaderInv /\ HandInv /\ OwedInv

\* Sessions are read once, replies taken are failed, and none is forgotten.
THEOREM PromiseInvariance == ClientSpec => []PromiseInv
<1>1. ClientInit => PromiseInv
  <2> SUFFICES ASSUME ClientInit PROVE PromiseInv
    OBVIOUS
  <2>1. ReaderInv /\ HandInv
    BY DEF ClientInit, ReaderInv, HandInv
  <2>2. OwedInv
    BY DEF ClientInit, OwedInv, Status, Early
  <2> QED
    BY <2>1, <2>2 DEF PromiseInv
<1>2. CInv /\ PromiseInv /\ [ClientNext]_vars => PromiseInv'
  BY ReaderStep, HandStep, PromiseStep, OwedStep DEF CInv, PromiseInv
<1> QED
  BY <1>1, <1>2, ClientInvariance, PTL DEF ClientSpec

\* A request that waits has its reply in c.pending, in the hands of one that
\* will answer or fail it, or in its channel: no path of Request, readLoop,
\* killCurrent or failSession drops the reply of a caller that still waits.
THEOREM WaitingIsOwed == ClientSpec => []OwedInv
<1>1. PromiseInv => OwedInv
  BY DEF PromiseInv
<1> QED
  BY <1>1, PromiseInvariance, PTL

\* The client implements ClientPromise: a request is answered by the session
\* it was made on or lost with it, and a session that is over stays over.
THEOREM ClientKeepsPromise == ClientSpec => Promise!PromiseSpec
<1>1. ClientInit => Promise!PromiseInit
  <2> SUFFICES ASSUME ClientInit PROVE Promise!PromiseInit
    OBVIOUS
  <2>1. States = [c \in Calls |-> "new"]
    BY DEF ClientInit, States, Status, Early
  <2>2. Over = {}
    BY DEF ClientInit, Over
  <2> QED
    BY <2>1, <2>2 DEF ClientInit, Promise!PromiseInit
<1>2. CInv /\ PromiseInv /\ [ClientNext]_vars
        => [Promise!PromiseNext]_(Promise!promise)
  BY PromiseStep DEF PromiseInv, Kept
<1> QED
  BY <1>1, <1>2, ClientInvariance, PromiseInvariance, PTL
     DEF ClientSpec, Promise!PromiseSpec

=============================================================================
