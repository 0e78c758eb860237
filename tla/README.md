# HypoMux: a TLA+ model of the engine and its desktop host

HypoMux bonds several network adapters.  A Go engine (`src/engine`) owns a
source-bound proxy pool, a DNS engine and a supervised sing-box sidecar; a
desktop host (`src/desktop`) drives it over newline-delimited JSON.  This
directory models the parts whose correctness depends on the order in which
goroutines, processes, requests and failures meet.

## 1. Inventory

| component | source | state it keeps | operations | what makes it correct |
|---|---|---|---|---|
| engine lifecycle | `engine/internal/runtime` | one state and a sequence number | `Transition` | only legal transitions; never wedged |
| TUN supervisor | `engine/internal/tun` | `status`, `run`, per-run flags and channels | `Activate`, `Stop`, `waitProcess`, `terminateRun`, `cleanupRun` | no sidecar is lost; done means cleaned; calls return |
| protocol host | `engine/internal/server` | `proxy`, `mode`, `dnsExemption`, the runtime, `eventSeq` | `engine.*`, `tun.*`, `host.shutdown`, exit callback | a sidecar has a pool, a stopped engine has neither, every change is announced |
| proxy pool | `engine/internal/proxy/{server,registry,http,socks}.go` | listeners, `running`, wait group, sessions | `Start`, `Stop`, `acceptLoop`, `handleClient`, `Attach`, `Finish`, `CloseAll` | stop releases every session; counters balance |
| adapter health and scheduling | `engine/internal/proxy/{health,scheduler,dial}.go` | failures, cool-downs, domain evidence, weights | `candidates`, `record*`, `next`, `dialUpstream` | never out of candidates; evidence only by comparison; fair shares |
| UDP associations | `engine/internal/proxy/udp.go` | flows, client port | `serve`, `forward`, `createFlow`, `receiveLoop`, `close` | at most 256 flows; a flow is closed and counted once |
| DNS engine | `engine/internal/dns` | cache, lookups in flight, per-adapter strict-failure counts | `Resolve`, `runLookup`, `recordStrictFailure` | one lookup per question; cache bound; one fallback event |
| WFP exemption, platform, diagnostics, wire DTOs | `engine/internal/{wfp,platform,diagnostic,protocol}`, `engine/api/v1` | handles | open, close, probes | operating-system calls |
| service entry points | `engine/cmd/hypomux-engine` | one client session at a time | accept, serve | sessions do not overlap |
| core client | `desktop/internal/engineclient` | session, pending replies, write gate | `ensure`, `Request`, `readLoop`, `killCurrent` | every request ends; replies reach their request |
| engine service | `desktop/internal/services/engine.go` | the lifecycle gate, phase, compatibility flags, watchdog | `Start`, `Stop`, `RepairWFP`, `Shutdown`, compatibility restarts, the watchdog | a failed start is rolled back; a stop is complete; restarts do not repeat |
| system proxy | `desktop/internal/services/system_proxy_*.go` | restore marker, OS settings | enable, restore, recover | the user's settings come back after any crash |
| settings document | `desktop/internal/services/settings.go` | document, legacy backup | `Update`, autostart, WFP trial, `MigrateLegacy`, `RollbackLegacy` | what was saved comes back; a stale page erases nothing it does not own |
| routing rules | `desktop/internal/services/routing.go` | rules of the page and of the document | normalise, sort, import, save | the first match is the most specific |
| appearance document | `desktop/internal/services/appearance.go` | document, one picture per type | `Save` | the picture named exists |
| quarantined domains | `desktop/internal/services/blocked_domains.go` | entries and their expiry | list, remove, clear, `ReplaceRuntime` | what is removed stays away |
| support log, updater, adapters, preflight | `desktop/internal/services` | a bounded log, a download | read, probe, download | presentation and I/O |
| frontend | `desktop/frontend/src` | view state | polling, rendering | presentation |

How they interact.  The client sends one line at a time; `Server.Run` handles
requests one by one under `lifecycleMu`.  A request may call the supervisor,
whose `Activate` and `Stop` hold `stopMu` and wait for channels that the
goroutine of a sidecar run closes.  That goroutine also calls back into the
server, which needs `lifecycleMu`.  The pool runs a goroutine per listener,
session and UDP flow; the DNS engine runs a goroutine per lookup and reports a
fallback through the host's event stream.  The desktop client multiplexes
callers over one session and kills the session when a write is stuck.  Above it,
the engine service lets one caller at a time past its gate: the user, the loop
that handles the core's events, and the watchdog.  It owns the system proxy and
reads the documents.

What is hard: callbacks that come after the session they belong to; deadlines
that give up on something still going on; cleanup by name; flags read outside
their lock; error results that are dropped; processes that die at any point.
`PROJECT.json` lists each hazard at its line.

## 2. Plan

Built:

1. `TunSupervisor`, `EngineRuntime`, `EngineHost` and the proofs about them: the
   core, where a wrong order leaves a machine without a network.
2. `CoreClient`: sessions, pending replies, the gates and the write that hangs;
   and `ClientPromise`, what its callers may rely on.
3. `DnsResolver`: single flight, cache bound, fallback latch.
4. `ProxyPool`: accept, attach, close-all, stop.
5. `EngineSession`: what a client may rely on of the host, implemented by
   `EngineHost` and used by `EngineService`.
6. `UdpAssociation`, composed with `ProxyPool`: flows, their limit, their close.
7. `AdapterHealth`: candidates, cool-downs, evidence, the two schedulers.
8. `EngineService`: the gate, start with its rollback, stop, the restarts, the
   watchdog, over the promises of `EngineSession`.
9. `DesktopFiles`, composed of `SystemProxy`, `SettingsStore`,
   `AppearanceStore`, `BlockedStore` and `RoutingRules`: what the desktop keeps
   on disk, under failed writes, crashes and restarts.

10. The proofs: every safety invariant and every action property of the passing
    runs, and the refinements of `EngineSession` and `ClientPromise`
    (section 5).

To come: an abstract specification of the pool (accepts, drains, is gone) with
the proof that `UdpAssociation` implements it, from `UInv`.

## 3. Modules

### TunSupervisor

A *run* is a `sidecarRun`.  `status`, `run` are `s.status`, `s.run`; `proc` is
what the operating system knows of a process ("killed" is signalled but not yet
reaped); `intentional`, `unexpected`, `snapshot` and `waiter` are the fields and
locals of each `waitProcess`; `net` is the set of runs whose device or routes
are installed; `pc`, `target`, `ret` are the one call that holds `stopMu`.  A
step is one critical section of `s.mu` or one blocking operation: the steps of
`Activate` are `ActivateBegin`, `ValidateConfig`, `CleanStale`, `StartProcess`,
`Contain`, then the `select` of its startup loop (`AwaitReady`, `AwaitDone`,
`AwaitCancel`/`CancelDone`); those of `Stop` are `StopBegin` and then
`StopDone` or `StopTimeout`; those of `waitProcess` are `WaitReturns`,
`RecordExit`, `CleanupRun`, `CloseDone`, `CallHandler`, `HandlerReturns`.
The network cleanup works by name, so it empties `net`, whosever the routes
are; one that fails leaves any part of it.

### EngineRuntime, EngineHost

`EngineRuntime` is `canTransition` and `Transition`.  `EngineHost` extends it
and `TunSupervisor` with the state of `Server` and of the loop `Run`.  `host`
says which handler holds `lifecycleMu`; what a holder does between two calls
into the supervisor is one step.  The pool is its `running` flag: `proxy.Stop`
closes the listeners even if it then reports an error.  `dirty` and
`announced` are the comparisons of `Sequence` that `Run` and a client make;
`emitting` and `holding` are the callbacks between their unlock and their
`emitEvent`.

### CoreClient, ClientPromise

`session`, `hello`, `pending`, `startGate`, `writeGate`, `events` are the fields
of `Client`.  Each member of `Calls` is one call of `Ensure`, `EnsureElevated`,
`Request` or `Shutdown` (`kind`), which stands at `pc` and makes at most one
request, so a call also names its request.  `writer` is the session captured
with the writer, `write` the goroutine that writes the line, `reply` the
channel of capacity one, `hand` the replies that a killer has taken out of
`pending` and not failed yet, `victim` the session it has not closed yet.  Each
session has its `core` (the process and what it says of itself), `closed`,
`reader` and `failing` (`failSession` between its unlock and its end).  `ensure`
is `EnterStartGate`, `Check`, `Launch`, `Install`, then a request for
`engine.hello`, then `Negotiated`; `Request` is `Register`, `EnterWriteGate`,
`Written` and `ReceiveReply`; the deadlines are `StartGateTimeout`, `GiveUp` and
`WriteTimeout`.

`ClientPromise` is the client as its callers see it: the session in place, the
sessions that are over, and for each call whether it is new, open, answered,
lost or ended.  A call asks only while there is a session; the end of the
session loses all that is open, at once, and nothing that was answered.  A call
is open while its reply is in `c.pending`, answered from the moment `readLoop`
takes it out, lost from the moment a killer or `failSession` does; that the
reply is put into its channel later is not seen.

### DnsResolver

`cache`, `inflight`, `strictFailures`, `fallbackEmitted` are the maps of
`Resolver`; a question is an adapter and a domain.  `Resolve` is `Ask` (the
clock is read before the lock is taken, as in the code), then `Hit`, `Join` or
`Miss`, then the `select` of `Told`, `GiveUp` and `RootGone`.  `runLookup` is a
DoH race with its outcomes, `RecordDoHSuccess` or `RecordStrictFailure`, the
traditional servers under the policy that allows them, and `Finish`, which
stores, removes the lookup and closes its channel in one critical section.  Of
an answer only its expiry is kept.  `calls` is a history variable: nothing reads
it but `OneFallback`.

### ProxyPool

`running`, `cancelled`, `listening` and `acceptor` are the server and its accept
loop; `connections` and `active` the registry; `pc`, `client`, `server`,
`adapter` and `relays` each session.  `Stop` is `StopBegin`, `CloseListeners`,
then `CloseAll` as a copy of the registry (`Snapshot`) whose members are closed
one by one, client first (`CloseClient`, `CloseUpstream`), then the wait; the
stop that the host repeats after one that timed out is `StopAgain`, which
returns at once.
`Attach` and `Finish` are one step each: the counter moves with the session's
adapter, because only the session's own goroutine does both.  One accept loop
stands for all, and the direct channel is one of the adapters.  `Requests` says
what clients may ask for; `Flows` are the sessions that an association opens.

### UdpAssociation

Extends `ProxyPool` with the fields of `udpAssociation` and `udpFlow`: `relay`,
`flows`, `owner`, `once` (how far the `closeOnce` of a flow has come), and what
the serving goroutine is at (`busy`, `left`).  `forward` is `Forward` or
`SendFails`, `createFlow` is `CreateFlow`, `BeginAddress`, `Attach` of the pool,
`Register` and `Receive`; `close` of a flow is `CloseConnection`, `RemoveFlow`,
`FinishFlow`; `close` of the association is `Sweep` to `SweepEnds`.  A flow is a
session of the registry whose client is the relay, so `CloseAll` closes the
relay when it closes a flow (`CloseRelay`).

### AdapterHealth

The health table (`fails`, `cooldown`, `evidence`, `expires`), the schedulers
(`next`, `currentWeight`) and the dials that share them.  Times are the ticks
left, so that the clock needs no bound; there is one domain, and a dial is for
its name or for a literal address.  `dialUpstream` is `DialBegin`, `Select` and
then an outcome (`RemoteFailure`, `NoSourceAddress`, `LocalFailure`,
`DialSucceeds`); a success after failures goes on to `Blame` the adapters that
failed, which is when evidence is recorded.  `reached` is a history variable.
Every list of candidates is a part of the configured one in the same order, so a
list is a set, and `Before` the order of the configuration: "the first with the
earliest cool-down", "the candidate at the cursor" (`AtCursor`) and "the first of
the highest weight" (`Highest`) are said of the set.  The loop of
`selectWeighted` that adds up weights is a function of the place it has reached
(`Loop`), and `AddUp` is where it ends.

### EngineSession, EngineService

`EngineSession` has two variables: the state of the engine, and whether a
sidecar is alive that nobody has killed.  `EngineHost` implements it with
`tun <- \E r \in Runs : proc[r] = "alive"` (`ImplementsSession`).
`EngineService` extends it: its steps of the core are those of the abstract
host, so what the service shows holds for any host that keeps the promise.
Three callers meet at the gate: the user (`Start`, `Stop`, `RepairWFP`,
`Shutdown`), the loop of events (the compatibility restarts) and the watchdog.
Each stands at `pc` in one operation `op`; a call may be `late` (its context has
ended) or have `failed`.  A request to the core may be lost, fail, or succeed
after its caller has given up; the core and the program may crash at any step.
What a preflight, a probe or the list of adapters finds is a free choice.
`began` and `restarts` are history variables.

### SystemProxy, SettingsStore, AppearanceStore, BlockedStore, RoutingRules

Each write of a file or of a setting is a step that succeeds or fails, and the
program may die between any two.  `SystemProxy` has both platforms: `os` is a
switch and an address, `marker` the restore file with its states, `wish` what
the user must get back (a set with one member, or none where the code cannot
know it any more).  `SettingsStore` keeps `mem`, `file` and `backup`; of the
document it has what operations relate to one another: the WFP verdict, which
may be one that the program does not know, the two autostart switches, and
whether some other field is missing or out of range (`raw`).  The last is what
`validateSettings` refuses and `reload` repairs (`Accepted`); a rollback takes
its backup as it is.  `AppearanceStore` has one picture file per type and a
document that holds a digest.  `BlockedStore` has the memory and the file, each
with the ticks left of each entry.  `RoutingRules` has rules on names (numbers)
and on addresses of a few bits, and translates normalisation, identity, order,
validation, import and save; a save that fails leaves the rules in memory and
the file (`disk`) as it was.  No two rules that are left compare as equal, so
`SortRules` is the one sequence of them that is in order.

`DesktopFiles` composes the five.  They share no variable, so `MCSpec` lets one
store at a time leave its resting state: an invariant of one store has the same
value, and an action property the same steps, as in `FilesSpec`, where all move
freely.

### Faults

Definitions introduced by "A fault" are plausible bugs of the code next to them:
a dropped guard, a missing reset, a swapped order.  Each property of a passing
run is shown to fail when the code is replaced by one of them.

## 4. Runs

| run | what it shows |
|---|---|
| `host_safety` | Any sequence of requests, any failure, any deadline, any delay of the exit callback. `NoOrphan`, `DoneMeansClean`, `RunningIsWatched`, `StopOkMeansGone` of the supervisor; `NeverWedged`, `StoppedHasNoSidecar`, `ChangesAnnounced` of the host; and the host implements `EngineSession` (`ImplementsSession`). (4.0 M states) |
| `host_settled` | With a client that starts and activates only once its last session is over: a live sidecar has its pool, and the routes of a dead one outlive the pool only where its cleanup failed, it never became a run, or a `Stop` gave up on it (`SidecarHasPool`); no pool is left running behind a sidecar (`NoPoolLeftBehind`). (125 k states) |
| `host_live` | `RequestAnswered`, `ExitStopsEngine`: `lifecycleMu`, `stopMu` and `run.done` do not wait for one another for ever. |
| `host_route` | Violated: with any client, a late exit callback takes the pool from the next session's sidecar. |
| `client_safety` | Three calls and two cores: one reply per request (`ReplyOnce`), pending replies and the hello are the present session's (`HeldIsCurrent`), one writer (`OneWriter`), no forgotten core (`NoOrphanCore`). (1.9 M states) |
| `client_live` | Every call returns if deadlines pass, whether or not the core answers (`CallEnds`); a request whose session is over is told without one (`OrphanTold`). (136 k states) |
| `dns` | One goroutine per question, a bounded cache, one event per outage, every caller returns. (209 k states) |
| `pool` | TCP sessions and a UDP association: a stop that has waited and succeeded leaves nothing (`StopLeavesNothing`); counts balance (`ActiveCounts`); what has ended holds nothing (`EndedHoldsNothing`); `CloseAll` cuts every relay it finds (`RelaysCut`); the stop returns (`StopReturns`). (168 k states) |
| `health` | A dial takes no worse adapter than it might (`PicksBest`) and always finds one (deadlock is checked); no blame without a comparison (`NoBlameInOutage`); weights add up to nothing and stay within a turn of the heaviest for each of the others, while the list changes (`WeightsBalanced`). (682 k states) |
| `service` | A `Stop` that reports success has stopped the engine, the sidecar and the proxy (`StopIsComplete`); a failed `Start` is undone (`FailedStartIsUndone`); restarts do not repeat (`RestartOnce`); nothing starts after `Shutdown` (`ShutdownIsFinal`). (1.9 M states) |
| `files` | The user's proxy comes back exactly (`RestoreIsExact`), settings survive a restart, but for what `reload` repairs (`RestartKeeps`), and a stale page (`VerdictKept`), the picture named exists (`BackgroundExists`), removed domains stay away (`RemovedStaysAway`), imports keep their meaning (`ImportKeepsMeaning`). (230 k states) |
| `proxy_linux` | Violated: under Linux a second enable takes the program's own proxy for the user's. |

The violated runs state what a document or comment of the repository says;
`PROJECT.json` quotes the line under `findings`.

Deadlock is checked in `health` and `files`, whose systems never stop.
Elsewhere an instance has finitely many runs, calls, lookups or sessions, or the
host or the program may exit, so a behaviour may end.

The type invariants describe the state of each module; they are theorems.
`RoutingRules` has none: what its proof needs of the rules is in `RulesInv`.

**Bounds.**  `Runs`: two, because every hazard of the supervisor is between a
run and the one that replaces it; each run keeps its own waiter, so a third adds
another late callback and no new pair.  One in `host_live`, where a second would
only repeat the cycle of waits.  `Calls`: three (one that launches, one that is
stuck, one whose reply is at stake), `Sessions`: two (a killed one and its
replacement), `EventCap` 0 or 1 for 64, so that the queue is full at once.
DNS: two callers and two lookups share or compete for one adapter, a cache of
one entry forces eviction, a clock of 0..2 with TTLs of 0..2 covers expiry
before, at and after a question.  Pool: two TCP sessions of either
kind, or one association with two flows of which one fits at a time, and two
counters, so that a count can go to the wrong one.  Health: two adapters, the
second without IPv6, weights of 1 and 2, two dials that overlap, a back-off of
two steps, evidence that lasts a tick.  Service: all three callers, a
`WatchdogLimit` of 2 for the three failed probes, an event queue of one.
Files: both platforms, two picture types with two contents, two domains,
addresses of two bits and up to three rules chosen so that rules nest, repeat
and disagree.  The launch at login is switched only where there is no older
configuration to migrate (`LaunchOrMigrate`); rules are imported over at most one
that is saved, and after a save of them that failed the page is not edited before
the next one.  No property relates what these bounds keep apart.

**Fairness.**  Goroutines that can take a step do, and a killed process ends.
No request, client, server or healthy process is assumed to do anything; in
particular a core need not answer (`ReadAnswer` has no fairness).  The
callback gets `lifecycleMu` by strong fairness: `sync.Mutex` hands the lock over
after a millisecond of waiting.  Deadlines are not assumed to pass in
`host_live`, `OrphanTold`, `RelaysCut` and `StopReturns`; `CallEnds` assumes
them, since every caller in `desktop/internal/services` has a timeout;
`QueryTimeout` and `ConnectTimeout` are why a lookup and a dial end.
`StopReturns` assumes that servers do not stay silent for ever (`ServersTalk`):
a session attached after `CloseAll` has looked at the registry outlives the stop
while its server is silent (section 6).

## 5. Proofs

TLC checks small instances; the theorems hold for every value of the constants.
Each proof has the same shape: an inductive invariant, which TLC has checked on
the instance of the run, one lemma or step per action, and the properties as
consequences.  The assumptions are named where the constants are declared.
Most only keep model values apart (`NoRun` is not a run, `Nobody` not a call, a
session not called "off"); the others say what the code's configuration
guarantees: capacities, limits and times are natural numbers, positive where
the code replaces what is not or has a positive constant.

| module | inductive invariant | what follows |
|---|---|---|
| `EngineHostProofs`, of `TunSupervisor` | `IInv` | `TypeCorrect`, `NoOrphanAlways`, `DoneMeansCleanAlways`, `RunningIsWatchedAlways`, `StopOkMeansGoneAlways` |
| the same, of `EngineHost` | `HInv`, with `IInv` | `HostImplementsSupervisor`, `HostTypeCorrect`, `NeverWedgedAlways`, `StoppedHasNoSidecarAlways`, `RunningHasPoolAlways`, `ChangesAnnouncedAlways`, `HostImplementsSession` |
| the same, of `SettledSpec` | `SettledInv` and `RouteInv`, with both | `SidecarHasPoolSettled`, `NoPoolLeftBehindSettled` |
| `CoreClientProofs` | `CInv` | `ClientTypeCorrect`, `ReplyOnceAlways`, `HeldIsCurrentAlways`, `NoOrphanCoreAlways`, `OneWriterAlways` |
| the same | `PromiseInv`, with `CInv` | `WaitingIsOwed`, `ClientKeepsPromise` |
| `DnsResolverProofs` | `DInv` | `DnsTypeCorrect`, `CacheBoundedAlways`, `OneLookupAlways`, `OneFallbackAlways` |
| `UdpAssociationProofs` | `UInv` | `UdpTypeCorrect`, `ActiveCountsAlways`, `EndedHoldsNothingAlways`, `StopLeavesNothingAlways` |
| `AdapterHealthProofs` | `AInv` | `NoBlameInOutageAlways`, `PicksBestAlways` |
| the same | `BalanceInv` | `WeightsBalancedAlways`, and with `AInv` `HealthTypeCorrect` |
| the same | `RoomInv`, with both | `FindsOneAlways` |
| `EngineServiceProofs` | `SInv` | `ServiceTypeCorrect`, `RestartOnceAlways`, `StopIsCompleteAlways`, `FailedStartIsUndoneAlways`, `ShutdownIsFinalAlways` |
| `DesktopFilesProofs` | `FInv` | `FilesTypeCorrect`, `VerdictKeptAlways`, `RestartKeepsAlways`, `BackgroundExistsAlways`, `RemovedStaysAwayAlways`, `RestoreIsExactAlways`, `ImportKeepsMeaningAlways` |
| `Induction` | | lemmas on counting, finite sets, loops and orders |

*Supervisor.*  `IInv` strengthens the invariants with what links the parts:
`CallInv` (what the call that holds `stopMu` knows of its `target` at each
`pc`), `WaiterInv` (a waiter goes on from its wait only when its process is
dead), `RunInv` (when the status is stopped or failed, or `Activate` is
preparing a new process, the exit of the run in `s.run` has been recorded) and
`CleanInv` (what a cleaned run has left).  None of the properties is inductive
alone: `NoOrphan` needs `RunInv`, so that `Activate` only ever drops a dead run,
and `RunningIsWatched` needs `CallInv`, so that `markRunning` finds "starting"
only if the exit of its own run has not been recorded.

*Host.*  `HostImplementsSupervisor` shows that the composition takes only steps
of the supervisor or leaves it alone, so the host inherits `IInv`.  `HInv` adds
`LockInv` (which call of the supervisor belongs to which handler), `EngineInv`
(the engine's state at each point of a handler), `SidecarInv`, `PoolInv` and
`AnnounceInv`.

*The host implements `EngineSession`* (`HostImplementsSession`).  The mapping
takes the sidecar for alive when any process of the supervisor is.  Most steps
of the host are stutters; each of the others is shown to be one step of the
abstract session.  What they need is a part of `HInv` or `IInv`: that a process
comes alive only while the engine runs, that the sidecar is down when a stop
ends or a failed engine is cleared, which state the engine is in at each point of
a handler.  `EngineService` extends
`EngineSession`, so the theorems about the service rest on this one.

*A client that waits.*  `host_route` shows `SidecarHasPool` violated with any
client.  `SettledSpec` has the client start and activate only when no earlier
run still moves, and then `SidecarHasPool` and `NoPoolLeftBehind` are theorems.
`OneSidecarInv` says that at most one run moves, and none while a request that
may make one is on its way; `SettledPoolInv` ties the pool to it.  `RouteInv` is
about routes: those there are without a pool are `RoutesExcused`, which needs
`LostInv`, that a run which `s.run` no longer holds before its end was told to
stop.

*Client.*  `CInv` is about ownership.  `ReplyInv`: a reply belongs to
`c.pending`, or to one killer or `failSession` that took it, or to one
`readLoop`, or is in its channel, never to two of them; `ReplyOnce` is not
inductive without the owners.  `FreshInv`, `MineInv`: a session just launched is
known to its launcher only, and one that has left `c.session` never comes back.
`WriteInv` then gives `OneWriter`: a write goroutine left behind by a timeout
writes to a session that is no longer in use.  `VictimInv` is what
`NoOrphanCore` needs of those that are to close a session.

*The client keeps its promise* (`ClientKeepsPromise`).  The mapping reads the
state of a call off its place and the owner of its reply, and has a sixth value,
"forgotten", for a call that waits and whose reply nobody owns; the abstract
specification has no such value, so that it never occurs (`WaitingIsOwed`) is a
part of the refinement.  Beyond `CInv` it needs `HandInv` (taking `c.pending`
never overwrites replies that are still to be failed) and `ReaderInv` (a session
becomes the client's once, so what is over stays over).  `HeldIsCurrent` is why
the new map of `ensure` drops nothing.

*DNS.*  `InflightInv`: a lookup at work is the one in flight for its question,
until the critical section that stores, removes and closes.  `EmittedInv` ties
the event to its flag.  `CacheInv` has the cache as a finite set, so that the
bound holds although the set of domains may be infinite.

*Pool and associations.*  `UInv` says which place of a goroutine may hold what:
`ServerInv`, `ConnectionsInv`, `AdapterInv`, `RelayInv` for a session, `FlowInv`,
`MemberInv`, `HeldInv` for a flow on its way into and out of the map of its
association.  `CountInv` equates each counter with the cardinality of the
attached sessions, which has to be known finite for one more to count as one.
`StopLeavesNothing` follows from `OkInv`, that the wait group stays empty once a
stop has seen it so, and the places.  Of the repeated stop (`StopAgain`) nothing
of the kind holds.

*Induction.*  The induction rules of the library take a predicate as a parameter,
which the provers cannot instantiate.  `Induction` states what is needed with
sets instead of predicates: a set of numbers that has 0 and with each number the
next has them all (`CountingUp`); a set of finite sets that has the empty one and
is closed under adding a member has every finite set (`AddingMembers`).  From
these follow that a loop over 1..n exists and obeys its equation (`LoopExists`),
that a finite set of numbers has a largest and a least, and that the ranks in a
strict total order on a finite set rise with it and reach every place
(`RanksRise`, `RanksOnto`).

*Health.*  `BlameInv` gives `NoBlameInOutage`: who is about to be blamed is
blamed by a dial that has reached the domain.  `CursorInv` says that the cursor
stays within the channel although it is taken modulo the length of one list and
used with another.  `PicksBest` is proved from the definition of `Candidates`,
one case per list that is empty.

`WeightsBalanced` is not inductive: that each weight is bounded says nothing of
the sum that a choice subtracts.  `BalanceInv` bounds the sum over every set `S`
of adapters by the heaviest weight times `|S|` times the number of those outside
`S`.  A choice raises `S` by the weights of its candidates and, if it falls
outside `S`, the chosen one had at least the average of those candidates; the
bounds for `S` with the chosen one and for `S` without its candidates then carry
the step.  For one adapter, and
for all but one, this is the bound of the property.  `FindsOne` needs `RoomInv`,
that the adapters a dial has excluded and its attempts left are no more than
there are: a list of candidates is then never empty, the earliest of a list
exists, one candidate has the rank of the cursor, and one is the first of the
highest.

*Service.*  `GateInv` and `FlagInv` say who is at work; `CallInv` says of the
holder of the gate what its place implies (`PlaceOf`), what a `Stop` has reached
(`StopOf`) and what a failed `Start` has undone (`UndoOf`).  These hold across
the steps of the others, because only the holder starts, stops or activates;
crashes of the core only take things away.  `RestartInv` counts restarts against
the fallbacks applied, one ahead while a restart is on its way.

*Files.*  `FInv` is the conjunction of an invariant per store; the proof is of
`FilesSpec`, where all of them move at once, while the run checks `MCSpec`.
Each says what is still to be done while a call is under way: `WritingInv` which
keys of the proxy are in place, `MarkerInv` where the user's settings are to be
found at every other time, `SettingsInv` that what was reported is in the file
(the two are equal once `reload` has repaired them, and repairing twice is
repairing once),
`PictureInv` which file the document that is to be written will name.

*Routing rules.* `RulesInv` says that, until the page is edited or opened again,
the rules it shows after an import are those of the file, `Arranged`:
normalised, the first of each identity, in the order of `sortRules`.  A save
keeps that, because normalising what is arranged gives the same sequence (the
order is strict on rules of different identity, so there is one way to sort).
`ImportKeepsMeaning` then needs that masking an address keeps what its prefix
covers, that two rules of one length that cover an address are the same, and
that a longer prefix comes first.

Only model-checked: `RequestAnswered`, `ExitStopsEngine`, `CallEnds`,
`OrphanTold`, `ResolveReturns`, `StopReturns`, `RelaysCut`.  Liveness needs rules
for fairness and `ENABLED`, which the prover has not.  `WaitingIsOwed` is the
safe half of `OrphanTold`: the reply is on its way.

The two violated runs state what does not hold.

## 6. What the code does otherwise than it says

Shown by a violated run, with the line quoted under `findings`:

- `host_route`: `handleTunUnexpectedExit` does not know which run has ended, so
  a callback that gets the lock late stops the pool of the next session.
- `proxy_linux`: `enableSystemProxy` takes its snapshot without a look at an
  earlier marker (`system_proxy_linux.go:40`); started again without a stop,
  the program takes its own proxy for the user's and brings it back.

Met while modelling, and why some properties are stated as they are:

- Host.  `engine.stop` goes on to stop the pool when `tun.Stop` has given up
  waiting (`supervisor.go:372`, `server/server.go:393-401`): the routes of the
  killed sidecar are then without a pool, the first of the dangerous states that
  the order of a stop is said to prevent
  (`docs/architecture/managed-tun-lifecycle-migration.md:80-89`).  It is the
  third exception of `SidecarHasPool`; without it the run finds the state with
  one sidecar.  The supervisor has forgotten the run, so the next `engine.stop`
  finds nothing to clean and reports `stopped` with routes left.
- Pool.  `connect` attaches a server without a look at the stop
  (`proxy/server.go:410`), so `StopReturns` needs `ServersTalk`.  A `Stop` of a
  pool that no longer runs returns nil at once (`proxy/server.go:178`), and the
  host calls it again after one that timed out: `engine.stop` then succeeds with
  sockets and counts left, although the notes say that it releases them and may
  be repeated (`docs/architecture/tun-udp-migration.md:79`, `:125-126`).
  `StopLeavesNothing` is therefore about the stop that has waited: with
  `stop = "again"` among its cases TLC finds it violated.
- Client.  A stuck write kills the session in place when its deadline passes,
  not the one it captured (`client.go:242`).
- DNS.  A lookup that ends by its timeout is no strict failure
  (`resolver.go:258`): a provider that drops packets never causes the fallback.
- Health.  The sum of the weights is no bound for one of them: when the list
  changes, weights of 1, 1, 9 and 9 reach 21.  A success of a dial that began
  earlier clears a fresh cool-down; two dials at once may each blame the other's
  adapter; evidence may quarantine an adapter that has served since; with three
  adapters the round-robin cursor can pass over one after a failover.
- Service.  A restart is a `Stop` and a `Start` with the gate free in between,
  and a stale event is handled like a fresh one: either may start the engine
  after the user's `Stop`.  An `engine.start` that succeeds after its caller
  gave up is not rolled back, and the rollback runs under the expired context.
  The watchdog's `Stop` may meet a newer session.  `RepairWFP` kills a running
  core whose status is not answered.  `proxyRecoveryError` is cleared only by a
  new launch.
- System proxy.  Under Windows a restore that fails between two values is taken
  for a user's edit by the next; a corrupt marker is set aside before the proxy
  is switched off.  Under Linux a corrupt marker forbids every start, and a
  restore overwrites what the user has changed.
- Settings.  An `Update` of a stale page overwrites what other calls saved
  since, except the verdict (`settings.go:188-190`); a second `MigrateLegacy`
  overwrites the backup; a rollback stores its backup without validation
  (`settings.go:172-182`), and the next start repairs it; a migrated trial
  result is not checked until then either; a file that cannot be read becomes the defaults, which
  the next save writes.
- Appearance.  A picture is overwritten in place before its document
  (`appearance.go:78-95`): a crash between them leaves a digest of another
  content.
- Quarantined domains.  `ReplaceRuntime` skips the save when the memory is
  equal, even if the last save failed; a removal is undone by the next poll that
  still names the domain.
- Routing.  An IPv4-mapped IPv6 literal without a prefix becomes `::/32`
  (`routing.go:413-424`); addresses here are of one family.

## 7. Not modelled

- Service entry points: the accept loops of sockets and pipes and their access
  checks are operating-system calls; what they do to the host, the cancellation
  of a session, is an action of `EngineHost`.
- Sidecar configuration, wire protocol and DTOs: pure translations of data,
  with no state.
- Updater, support log, diagnostics, connections, adapters, preflight: network
  calls, probes and read-only views.  What a preflight or a probe finds is a
  free choice of `EngineService`.
- WFP exemption, routes, elevation, autostart: calls that succeed or fail, as
  steps of `EngineHost`, `TunSupervisor`, `CoreClient` and `SettingsStore`.
- Desktop entry point and frontend: windows, tray, rendering and polling.

Within the modelled parts: wire formats, JSON, error texts, logging and byte
counters are data no property here tells apart; the race of DoH endpoints is one
step with its outcomes.
