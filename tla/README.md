# Formal verification of vohive

vohive runs a pool of cellular modems: it drives them over AT, QMI or MBIM,
manages the profiles of their eSIMs, brings up VoWiFi tunnels that authenticate
with the SIM, relays SMS and calls, and offers the modems as network proxies.
This directory holds TLA+ models of its concurrent core, the TLC configurations
that check them on small instances, and TLAPS proofs for every instance.

Run from this directory: `tlc -config <cfg> <module>` for a check,
`tlapm <module>Proofs.tla` for the proofs. `PROJECT.json` is the index: runs,
mutants (a plausible bug for every property, which the run must catch), the map
from definitions to source lines, hazards and theorems.

## 1. Inventory of the system

Paths are below `src/`. "Hard" names the behaviours that tests hardly reach.

| Component | State | Operations | Hard | What makes it correct |
|---|---|---|---|---|
| **APDU arbiter** `internal/apduarbiter/arbiter.go` | one ticket queue, active sessions / one-shot / transports / barriers, notification channel, watchdog timer per lease | AcquireSession, AcquireOneShot, AcquireTransport, BeginBarrier, Touch, Release, WaitIdle, watchdog callback | every caller is a goroutine that sleeps between two looks at the state; priorities and aging; timers that fire late | leases share the card as their types promise; no lost wake-up; barriers exclude and are not overtaken; a touched lease is not taken back |
| **SIM authentication gate** `apduarbiter/simauth_ready.go` | generation, ready, probing, channel | InvalidateSIMAuthReady, WaitSIMAuthReady | an invalidation during a probe; sleepers on the channel of a prober that fails | the gate opens only on a probe of the present card; every sleeper is woken |
| **VoWiFi runtime host** `internal/vowifihost`, `internal/device/vowifi_*.go` | slot per device (instance, starting, epoch, startup state), `runMu`, generation, cancel function of the active run, SMS mode of the worker | Enable, Disable, Restart, Recover, SwitchBegin, SwitchEnd, teardown on reconnect and removal | commands that skip the queue; starts that last minutes and are overtaken; stops outside the lock | no tunnel leaks; an overtaken start is dropped; no runtime during a card switch; the SMS path follows the runtime |
| **VoWiFi desired state** `vowifihost/recover_state.go`, `state_pubsub.go`, `device/pool_vowifi_reconcile.go` | backoff and in-flight flag per device, timers of card events, stored policy, subscribers | look for devices, begin a recovery, file its result, confirm a removal, enable and disable, publish | Clear while a recovery runs; a removal or a disable while a start is under way; slow subscribers | one recovery at a time; VoWiFi runs where it is wanted, and only there; the last state is delivered |
| **eSIM switch orchestration** `device/pool_esim_switch.go`, `post_switch_convergence.go`, `switch_reinit.go` | switching mark, context, token and phase per device; identity generation and target of the worker; event source | before / phase / failed / after hooks, delayed identity refreshes, two-minute guard | a second switch before the first is finalised; a finalisation that outlives its guard | what an overtaken switch does is discarded; the published identity is the card's |
| **eSIM manager** `internal/esim/manager.go` | operation lock and completion channel, overview cache with generation, suppression window | switch, disable, enable, delete, download, overview, reload | readers wait on a channel that is replaced; loads that began before a switch | one writer; no reader sleeps beside a free lock; the cache is never older than the last write |
| **Device pool: workers and recovery** `device/pool.go`, `pool_bootstrap.go`, `pool_reboot_recovery.go`, `transport_recovery_controller.go`, `lifecycle.go`, `health_watchdog.go` | workers with generations, rebuild tokens, single-flight recoveries, rebuild window, lifecycle phase, health | add, remove, rescan, rebuild, recover, evict | a rebuild that hangs and is superseded; events of a dead worker; two recovery paths | one worker per device; events of an old worker do nothing; rebuilds are capped |
| **MBIM transport** `pkg/mbim/device.go`, `fragment.go` | transaction table, fragment collectors, closed flag | Open, Command, Close, read loop | answers after the deadline, a read loop that ends | an answer reaches the command that asked; the read loop never blocks |
| **MBIM manager** `internal/mbim` | device, desired connection, believed session, recovery gate, probe counters | open, connect, disconnect, rotate, close, probe, reopen | a reopen races probes and callers; the network drops the session meanwhile | a believed session has an endpoint; a silent endpoint is reopened; a loss is reported; the session comes back |
| **QMI manager** `internal/qmi/manager.go` | service clients, logical channels, APDU leases, health | open / close channel, transmit, reset | channel table against card resets | channel and lease tables agree |
| **Modem AT manager** `internal/modem/manager.go` | two command queues, the command at hand, timeout counter, storage of the modem | execute, read loop, URC dispatch, read and delete a message, watchdog, stop | an answer after the timeout of its command; a port that fails while a command is at hand | every call returns; a loss is noticed and reported once; a message leaves the modem only when it was handed on |
| **Backends** `internal/backend` | USSD session | one interface over AT, QMI, MBIM | | |
| **SMS** `device/pool_sms*.go`, `pkg/smscodec`, `db/sms_delivery.go` | inbox of the modem, fragment cache, delivery parts and states | handle an indication, poll, reassemble, report, recompute | handler and poll empty one modem; deletion by index; reports out of order | no message lost or handed on twice but where the code gives it up; a delivery's state is that of its parts |
| **Calls and SIP gateway** `internal/cscall`, `internal/sipgw` | call table, audio pumps, registrations, dialogs | dial, answer, hang up, register | hang-up from both ends at once | one call per modem; both legs end together |
| **Proxy and traffic** `internal/proxy`, `db/traffic*.go` | instances, counters, minute rows, rollups | start, stop, sample, roll up | failed writes, late samples | traffic is counted once |
| **Notifications, bots, web API, configuration, database, E911, websheet, updater, logger, task pool, UI** | mostly none of their own | requests | | |

How they interact. The web API and the bots call the pool. The pool owns a
worker per device, with a backend (AT, QMI or MBIM), an eSIM manager and, for
VoWiFi, a slot in the runtime host. Whatever talks to the card through APDUs
takes a lease of the device's arbiter: the eSIM manager for profile operations,
the runtime for AKA, the SMSC reader. A profile switch is where all of them
meet: the eSIM manager takes its operation lock, tells the pool (which marks the
device, stops VoWiFi with `SwitchBegin` and closes the authentication gate),
raises a barrier in the arbiter, sends the APDU, lowers the barrier, and starts
a finalisation that waits for the modem, refreshes the identity, waits at the
gate and restores radio, data and VoWiFi (`SwitchEnd`).

## 2. Plan

Modules in the order of their importance to that story.

| Module | Models | State |
|---|---|---|
| `ApduArbiter` | who may use the card | checked and proved |
| `SIMAuthGate` | when a new card may be used | checked and proved |
| `VowifiLifecycle` | the tunnel against commands and switches | checked and proved |
| `DesiredVowifi` | VoWiFi kept as the policy wants it, over `VowifiLifecycle` | checked and proved |
| `EsimSwitch` | marks, tokens and guard of a switch in the pool, identity of the worker | checked and proved |
| `EsimOperations` | operation lock, overview cache, notifications of the eSIM manager | checked and proved |
| `WorkerPool` | start, removal, rebuild and recovery of a worker | checked and proved |
| `MbimDevice`, `MbimRpc` | transactions over an MBIM endpoint, and what they promise | checked and proved, the refinement too |
| `SmsInbox` | a message from the modem to the database | checked and proved |
| `MbimManager` | endpoint, probes, recoveries and data session of an MBIM modem | checked and proved |
| `AtManager` | the AT channel, and reading a message out of the modem | checked and proved |
| `TrafficLedger` | samples, rows and rollups of the traffic accounting | checked and proved |

How they compose. `DesiredVowifi` extends `VowifiLifecycle`: its recoveries,
retries and requests are calls of that module and take its steps.
`MbimDevice` implements `MbimRpc`, and `MbimManager` uses a
modem of which it knows only what `MbimRpc` says: a command is answered, fails
or times out. `EsimSwitch` and `EsimOperations` are two sides of one write: what
the pool does with it, and what the manager, its readers and the operator see.
`WorkerPool` is told by `AtManager` (a lost port), `MbimManager` (an exhausted
recovery) and the QMI manager that a modem is gone; each is a kind of goroutine
in `Kinds`. `SmsInbox` empties a QMI or MBIM modem, of which it knows what it asks
of it, as `AtManager` does for an AT modem. A product of two of these modules has no states in which they
constrain each other beyond that interface, and does not fit a run.

To come, in this order:

1. delivery reports of SMS (`db/sms_delivery.go`), whose recomputation against
   late and repeated reports is a hazard no property covers yet;
2. calls over the modem and the SIP gateway, and the channel and lease tables
   of the QMI manager.

Runs: one per module and question, with everything that shares an instance;
instances of two or three actors, since the hazards of section 1 are races of
two, or of two and a third that waits.

## 3. What is modelled

### ApduArbiter (`internal/apduarbiter/arbiter.go`)

An element of `Requests` is one acquire call together with the lease or barrier
it returns. `args` are its arguments, one of the records `Calls`; the operators
that follow are the normalisations of the code (`NormalizeClass`,
`NormalizeTransportScope`, the defaults of `BeginBarrier`), then the predicates
of the locked state under the names they have in the code (`CanAcquireLease`,
`SelectedTransport`, `PendingBarrierAhead`...). Each critical section under
`a.mu` is one action: `Enqueue` (append, signal, first evaluation), `Recheck`,
`Cancel` (the context ends), `Release`, `ReleaseBarrier`, `Touch`,
`ReleaseExpired` (the watchdog callback), `CheckIdle` and `IdleTimeout` of
`WaitIdle`. `notifyC` is represented by who sleeps on it: closing it turns every
`parked` into `woken`. Wall-clock time enters in two ways only: `Age` (a queued
ticket passes the aging threshold) and `TimerElapses` (a lease reaches its
deadline and the runtime starts the callback, which still has to get the mutex).

The nested leases of a barrier's owner are ordinary calls here, as they are for
the arbiter. `Stats`, `Snapshot` and logging only read and are left out.

### SIMAuthGate (`internal/apduarbiter/simauth_ready.go`)

The gate's record, the goroutines at it and the channel each sleeps on. A probe
is two actions, `BeginProbe` and `EndProbe`, because it runs without the mutex;
`Invalidate` may come at any moment up to `MaxGeneration` times (it is called at
the beginning of a switch, `device/pool_esim_switch.go:335`, and when the QMI
leases are dropped, `qmi/manager.go:1379`). `verified` is a history variable:
the generations in which a successful probe began.

### VowifiLifecycle (`internal/vowifihost`, `internal/device/vowifi_*.go`)

A call is a process: it is issued, goes through `LifecycleController.Submit`
(queue on `runMu`, or preempt), runs its command and returns. Its program
counter names the step that comes next, and every critical section of the
store (`BeginStart`, `ClaimStarted`, `DeleteInstance`...) and of the controller
(`Admit`, `Number`, `CancelActiveRun`, `BindRunContext`, `Finish`) is a step.
The kinds of call are the commands of the controller (`enable`, `disable`,
`restart`, `recover`, the scheduled `retry` after a busy card, `switchBegin`,
`switchEnd`) and the two teardowns that bypass it (`reconnect`, `remove`).
`live` is the set of tunnels that are up, whatever the slot says. `overtaken`
is a history variable: the calls whose start an invalidation has overtaken.

Abstractions. The runtime is an external library seen through its options:
it consults `ShouldRun` before it connects, calls `BeforeStart`, reports states
to an observer (`Observe`, check and record in one step), and comes up or fails;
a cancellation may come too late to stop it. One device is modelled, since
slots and controllers of two devices share nothing. Left out: what a tunnel
does while it is up, the broadcasts, the restoration of radio and country
settings on teardown, and an instance whose `Stop` returns an error: the code logs or
ignores it and deletes the instance all the same (`teardown.go:44`,
`runtime_start.go:144`), and `StopInstance` and `StopStale` take the tunnel for down. The two-minute guard of the switch mark is in
`EsimSwitch`.

### DesiredVowifi (`vowifihost/recover_state.go`, `reconcile.go`, `device/pool_vowifi_reconcile.go`)

What makes the calls of `VowifiLifecycle`, composed with it. `Reconcile` is a look
for a device to recover (the ticker of the loop, the start of the pool, the
wake-up after an event of the modem), `ResolveAndApplyPolicy` the shorter way to
the same choice; `ScheduleDesiredRecover` looks once more, consults the record
(`desired`) and starts the goroutine of a recovery; `OnResult` files its result.
`RetryBusyCard` is a timer that a start on a busy card has left behind.
`UserEnable` and `UserDisable` store the policy and call the pool. A card that is
pulled sets a timer, `ConfirmRemoval` asks the modem, `StopAfterRemoval` acts on
the answer. Between any two of these the steps of the calls go on: `HostStep` is
a step of `VowifiLifecycle` together with the error its call will return. The
elements of `Recoveries` are used again and again, so a behaviour never runs out
of recoveries.

`inHand` are the recoveries whose result is not filed. `cleared`, `slipped` and
`unheard` are history, and name the exceptions of the properties. Abstractions:
one device, so the choice is one bit (`chosen`); the attempts only lengthen the
backoff, so the record keeps whether it is over; the three timers of a retry are
one; the identity that a look asks for is cached and outlives the card, so a
recovery is begun without one and fails. Left out: the country, the rebuilding of
the worker, a policy that cannot be resolved, and what a policy says of network
and radio.

### EsimSwitch (`internal/device/pool_esim_switch.go`, `internal/esim/manager.go`)

A member of `Switches` is one call of `SwitchProfile`, or of `DisableProfile`
(its target is `NoProfile`), with the recovery it starts; `stage` says where it
is. Up to the APDU it holds `opMu`; `Accept` hands over to the recovery
goroutine (`handleESIMSwitchAfter`), `Refuse` to the failure hook. The mark, the
context and the token of the pool are written and deleted together under
`switchMu`, so one variable, `current`, stands for them. `GoIfCurrent` is
`switchTokenStillCurrent`, and it stands where the code has it and nowhere else:
what the recovery does between two of them it does even if it is overtaken.

`identity` is `worker.state.Identity` with its phase and target. It has four
writers, each a goroutine that reads the card and writes later: the poll of a
recovery, the delayed retry, and the live refresh (read and write are separate
actions), and the transitions of the hooks. Its generation is only ever compared
for equality, so `fresh`, the calls whose generation is the present one, stands
for it. `flight` is the snapshot's `FlightModeBefore` and `radio` the operating
mode. `card` and `enabled` are the eUICC: it takes its time to answer with the
profile it was told to enable.

Abstractions: the retries at 1, 3 and 6 seconds are one; a poll is its last
reading; convergence either saw the target or gave up, reloads and the event
source included; the SIM authentication gate lets the recovery on or not
(`SIMAuthGate` is its detail), and `SwitchBegin` and `SwitchEnd` are those of
`VowifiLifecycle`. Left out: a worker removed during a switch, phases (reported,
never read), the data connection, a `SetOperatingMode` that fails, the IMSI, and
the card policy that is applied after convergence.

### EsimOperations (`internal/esim/manager.go`)

A call is a goroutine of one of ten kinds (switch, disable, rename, delete,
download, list, resend; read, refresh, profiles), the reloader is the goroutine
of `triggerOverviewReload`. `EsimSwitch` follows a write into the pool; this
module follows it inside the manager, where readers wait for it.

The lock is `opMu` with `TryLock` of `acquireOperationLock`, and the completion
channel is a counter: a reader that has found the lock taken loads the channel
in a step of its own, so a write that ends in between is missed. The cache is a
snapshot of `card` with its generation; `Scan` reads the card and `Store` compares
the generation, as two steps. Readers of one generation share a flight
(`singleflight`). The card keeps notifications with sequence numbers until they
are retrieved, handed to the operator and removed, three steps that fail one by
one. A delete and a download list what is pending before they write, and that list may
fail, which does not stop them: they then compare with 0 (`baseline`). A download takes the
number its installation returned, if there is one, and else what was listed. `own` (the
notification a write really left) and `blind` (the calls that compare with nothing) are
history. The card begins with a `Leftover`, a profile that was deleted and installed again
and never reported, so a write of any kind finds an older notification like its own.
Abstractions: APDUs and the SGP.22 sessions are the card's answer; several
eUICCs are one; names and sizes are the set `renamed`; progress is left out.

### WorkerPool (`internal/device`)

`program` says what a goroutine is: an `AddWorkerFromConfig` by the API or the
health check, a `RemoveWorker` (by the API's delete), a `RebuildWorker`, and the
four ways into `runModemRebootRecovery` (health check, exhausted transport,
manual, lost AT port), each with its own beginning. `Call` and `cont` are calls
and returns, so that a recovery that removes and starts the worker runs the very
actions a removal and a start run. A worker is named by the attempt that made
it. The probes of the modem are the steps `Boot` and `Rescan`: they may hang for
ever, and are not fair. Abstractions: one device; the health streak is a choice;
discovery returns the device, returns another path, or does not; what a started
worker does is the other modules' matter. `running` is the set of workers that
hold the modem open, whatever the maps say.

### MbimRpc and MbimDevice (`pkg/mbim`)

`MbimRpc` is the abstract specification: a transaction is issued once, the modem
carries it out or not, and it returns once with its own answer, an error or a
timeout. `MbimDevice` is the endpoint: `allocTx` and `registerPending`, fragments
written under `writeMu`, the read loop with its collectors, `failPending` when it
ends, the channel of capacity one of a pending command, deadlines, `Close`, and
the monitor of the indications. A fragment is known by the message it belongs to
and its number; a fault makes a message unreadable, malformed or repeated, so a
collector that mixes two messages shows. `ImplementsRpc` is `Rpc!Spec` with the
outcomes of the callers and the commands the modem carried out. Transaction
identifiers do not wrap in the model (they are 32 bits wide).

### MbimManager (`internal/mbim`)

Callers connect, disconnect, rotate the address and close, under `dataMu`; each
endpoint has a probe loop; two recoveries, since the gate does not keep them
apart; one reconnection at a time. The modem falls silent, answers again and
drops its session, and the deactivation is indicated or is not: the manager goes on
without a subscription (`manager.go:184`), the transport drops what its queue of 16 cannot
take (`pkg/mbim/device.go:196`), and a silent modem says nothing. `late` is a probe whose
endpoint has been closed under it: it fails and counts all the same. Nothing is assumed of
how long a probe, a Connect or a pause of a recovery takes against another. `unheard`,
`missed` and `crossed` are history: that the session was lost without an indication; that
a loss was handled while a reconnection held its gate, or a Connect failed; and the
recoveries during which another recovery closed the endpoint. The first two are about the
present session, and end when one is activated. Abstractions: registration succeeds or
fails; a session has no address; retries of one activation are one. A trigger needs an
idle member of `Recoveries`, so as many overlap as there are members.

### AtManager (`internal/modem/manager.go`)

`runLoop` owns the port and takes urgent commands first; `readLoop` hands lines
over; a caller sends its command into a channel and waits for the answer, its
time, or the stop. An answer carries no name: it goes to whatever command is at
hand, so a slow command shifts them. The modem executes what was written in
order. A message that arrives is announced by `+CMTI`; a goroutine selects the
storage, reads, hands on, deletes and restores the storage, each an AT command.
Abstractions: a command is its caller, an answer the text that tells the
properties apart; of the URCs only `+CMTI` has an effect here; the SMS in a
storage is a message value (decoding is `pkg/smscodec`, not modelled). Left out: a
channel of commands that is full (the call returns at once with an error), a write error
that the code takes for harmless and ignores (`manager.go:557`, `:651`; that of a port that
is gone is fatal), and unsolicited lines that are taken for part of an answer.

### SmsInbox (`device/pool_sms.go`, `pool_sms_mbim.go`, `pkg/smscodec/reassembler.go`)

Two goroutines empty a QMI or MBIM modem: the handler of indications and the poll
of once a minute. Each lists, reads, hands on and deletes by index, without knowing
of the other; a step is one call of the modem or one of `processSMS`. A member of
`Places` is a slot of one of the two storages, or `Raw`: a message the modem does
not store. The network repeats it until it is acknowledged; if it needs no
acknowledgement (`passed`) nobody repeats it, there is nothing to call when it has been
processed (`pool_sms.go:222`), and until then it is in the process alone. `taker` is what a
goroutine is about: the lists still to ask for, the places to handle (`todo`), the
leftovers to delete (`residue`), the place and the part in hand. Some modems tag as
read what they have sent (`tagsRead`), and what is tagged is a leftover to the next
poll. `forfeited` and `repeatable` are history: the messages the code may lose or
hand on twice, each named by the step that gives them up.

Abstractions: a PDU that does not decode is a read that fails; saving and notifying
are one step, since the notifier is told even if the database fails; the references
of two long messages differ; the modem is external, seen through the calls. Left
out: the VoWiFi SMS mode, the filter of operator messages, sending, and an indication whose
storage is unknown.

### TrafficLedger (`internal/proxy/traffic`, `internal/proxy/server`, `internal/db/traffic*.go`)

The sampler's loop, a step for each of its parts: look at the modem's counter,
list and read the proxy instances, write the row of the minute, sum minutes into
the hour, hours into the day, clean up. Each may fail; the process may end
between any two of them. Hours and days are those of UTC (`time.Truncate`) but are
summed at the full hour and the midnight of the local clock, and charts of weeks are
drawn by local midnight, so the zone is a variable, set once: the clock does not
change to summer time. `written` is what a row was
ever given, `moved` what really went through the modem; both are history.
Weekly and monthly tables are written and never read, and are left out.

## 4. What the checks show

| Run | Instance | Distinct states | Shows |
|---|---|---|---|
| `arbiter` | 3 calls in 20 mixes of 10 kinds, 1 WaitIdle, 2 sessions, 2 QMI channels, fair | 230 thousand | `Consistent`, `SharedSafely`, `NoLostWakeup`; `QueueOrder`, `TouchedLeaseSurvives`, `ServedUnlessAged` |
| `gate` | 3 waiters, 3 invalidations, fair | 141 thousand | `GateConsistent`; `PassesVerified`, `Answered` |
| `vowifi_control` | 3 calls of 9 kinds, one that skips the queue | 1.71 million | `Consistent`, `QuietDuringSwitch`; `ClaimsFresh` |
| `vowifi_desired` | 1 request of the user, 2 recoveries, the removal, 1 failure, 1 card event, fair | 178 thousand | `DesiredConsistent`; `DisableOutlastsRetries`, `Returns`, `DesiredReached`, `StopsWhenUnwanted` |
| `esim_switch` | 2 switches, 2 profiles, RadioCycle, fair watchdog | 1.35 million | `Consistent`; `MarkKept`, `TransitionEndsAtTarget`, `MarkReleased` |
| `esim_operations` | 2 calls of 7 mixes, the reloader, 1 indication, fair | 551 thousand | `Consistent`, `OperatorInformed`; `Returns` |
| `worker_pool` | 3 goroutines of 6 mixes, 4 starts, fair | 312 thousand | `Consistent`; `MarksReleased` |
| `mbim_device` | 3 callers, 3 transactions, 2 fragments, 1 fault, fair | 821 thousand | `Consistent`; the refinement `ImplementsRpc` |
| `mbim_manager` | 1 caller, 2 recoveries, 1 reconnection, the modem silent once, 1 drop, fair | 775 thousand | `ManagerConsistent`; `DeafNoticed`, `DataRestored` |
| `at_manager` | 1 arriving and 2 stored messages, a poller, an urgent caller, 1 slow command, fair | 358 thousand | `AtConsistent`, `NothingDeletedUnread`; `LossNoticed`, `Returns` |
| `sms_inbox` | a message of one part and one of two, of which two parts arrive, 1 index in 2 storages, 1 fault, fair | 188 thousand | `Consistent`, `NothingDropped`; `EventuallyHandedOn` |
| `traffic_ledger` | three days of three hours of two minutes, 3 zones, 2 bytes, 1 fault | 1.87 million | `Consistent`, `ChartsExact` |

`Consistent` of a module joins its types with what must hold of it in every
state, as its conjuncts say by name:

| Module | `Consistent` beyond `TypeOK` |
|---|---|
| `ApduArbiter` | `QueueMatchesCalls`, `IdleWaiterWoken` (and `SharedSafely` is `CardSharing` with `BarrierExcludes`) |
| `SIMAuthGate` (`GateConsistent`) | `SingleProbe`, `OpenMeansVerified`, `SleepersHaveAProber` |
| `VowifiLifecycle` | `TunnelsAccounted`: a tunnel that is up is in the slot or in somebody's hands; `StartingHasOwner` |
| `DesiredVowifi` | those two, in `DesiredConsistent`; `RecordTruthful`: 'in flight' only while a recovery will file a result, and one at a time; `SMSModeFollowsRuntime` |
| `EsimSwitch` | `MarkHasOwner`, `RestoredMeansVerified` |
| `EsimOperations` | `CacheTruthful`: the cache is what the card holds, except while a write is on its way to say otherwise |
| `WorkerPool` | `StartProtected`: two starts overlap only when a mark was taken away; `NoOrphan`: a worker with the modem open is registered, or somebody is about to close it; `WorkerHeard`: the controller listens to the registered worker |
| `MbimDevice` | `ReaderNeverBlocks`; `CommandsWhole`; `NobodyDeaf`: a caller that waits is known to the reader or has its answer; `IndicationsWhole`: the monitor gets no mixture of two indications |
| `MbimManager` | `ConnectedHasDevice`, `LossReported`, `DropNoticed` |
| `AtManager` | `ReportedOnce` |
| `SmsInbox` | `HandedOnce` |
| `TrafficLedger` | `CountedOnce`, `NothingLost` |

Conditions inside a property are what the code does not keep; section 5 says
what happens there. They are: one command that skips the queue
(`QuietDuringSwitch`), no restart (`ClaimsFresh`), no aged ticket
(`NoLostWakeup`, `ServedUnlessAged`), no overtaken poll
(`TransitionEndsAtTarget`), an endpoint that no `Connect` has lost
(`LossReported`), a session whose loss was indicated, and since whose activation no loss met
a busy gate and no Connect failed (`DropNoticed`), an endpoint whose health is not
'recovering' when it falls silent, or an owner who is told (`DeafNoticed`), a recovery during
which no caller disconnected or closed and no other recovery closed the endpoint
(`DataRestored`), a list before the write that did not fail, or a number from the card
(`OperatorInformed`, of the write's own notification), no late answer and no storage selected under another reader
(`NothingDeletedUnread`), no failure at the minute that sums the hour,
and that minute come (`DayChartExact`, a conjunct of `ChartsExact`), no record
cleared under a recovery (`RecordTruthful`), no message in the hands of handler and poll together, and no
deletion that failed (`HandedOnce`), nothing that is `forfeited` (`NothingDropped`,
`EventuallyHandedOn`), no removal confirmed in vain and no start that had yet to
queue when the user disabled VoWiFi (`StopsWhenUnwanted`).

### Bounds

*Arbiter.* It compares a ticket with one other ticket or one active lease at a
time, and its windows are filled by two; a third call is the one that waits, or
the one that wakes. The argument records cover each lease type, both transport
scopes, two channels, AKA against other classes, the default, a narrow and an
unclassed policy. `Mixes` are the calls that are made together: twenty triples that
put each kind against those it excludes, waits for or overtakes. In production the limits are 3 and 3; a window of 2 is full as
soon as two calls hold it. *Gate.* A stale success needs one invalidation, a
stale success followed by a second prober two, and three waiters give a prober,
a sleeper and a latecomer. *VoWiFi.* A hazard is a start, what overtakes it, and
a third call that profits; `MaxPreempting` bounds the calls that skip the queue.
With 2 of them 15.7 million states were searched without a violation, but not
all. *Desired state.* A recovery that is cleared from the record meets one that
begins after it, and the third call is the user's or the removal's; a failure, a
backoff and a change of the card come once, in any state of the others, while
the looks, the recoveries and the retries repeat without end. A failure is spent
by a start that could have succeeded; what cannot succeed fails freely. There is no
command of `Preempting` in this run. *Switch.* A hazard is a switch and the one that overtakes it; `opMu` is free
once the command is accepted, so the second can begin at any stage of the first's
recovery. `Pairs` has it go back or disable, in either order.

*Manager of profiles.* A stale cache needs a load and a write, a missed wake-up a
reader and a writer, and the reloader comes with the write; the mixes pair each
write with a read, with itself and with a refresh. *Pool.* A start that is
superseded needs the start, what took its mark away, and the next start; a fourth
attempt is the one after that. *MBIM endpoint.* Two commands in flight with the
one that opened; an answer after its deadline needs a second transaction; two
fragments are enough to be interleaved, repeated or out of order. *MBIM manager.*
The modem falls silent once and drops one session, in any state of a recovery and
of a call; probes fail while a recovery connects, verifies or pauses, and trigger a second
one beside it. Without callers and drops, but with the code's three attempts and three
probes and a modem that falls silent three times, 354 thousand states kept `DeafNoticed` and
`DataRestored`. *AT.* One message is read while two others
lie in both storages, so a wrong index and a wrong storage show; one command is
slow, which shifts every later answer; with two readers at once 13 million states
kept the safety properties. *SMS.* Two parts that arrive are two messages, or the
two halves of one, and meet the handler and the poll in any state; with all three
parts 1.13 million states kept the properties. *Traffic.* The horizon passes two midnights, in UTC,
in a zone hours east of it and in one half an hour farther, so an hour, a day, the local
day that straddles two UTC days, the full hour that is none of UTC and the cleanup all
happen.

`CHECK_DEADLOCK FALSE` in every configuration: calls, attempts, transactions and
minutes are bounded, so a behaviour in which all is done is at rest.

### Fairness

`ApduArbiter`: a goroutine whose channel was closed runs again, a holder releases
(every caller defers `Release`), a callback gets the mutex. Not assumed: that
anybody calls, cancels or has a deadline. `SIMAuthGate`: a waiter that is not
asleep runs and probes return (they have a timeout). `VowifiLifecycle`: a step
that can be taken is taken; connects and waits end by result or timeout.
`DesiredVowifi`: the same of its calls; the ticker of the loop goes on, backoffs
pass and timers of card events fire; no policy need be applied, no retry come.
`EsimSwitch`: only the two-minute goroutine; APDUs, recoveries and polls may hang,
which is what the guard is for. `EsimOperations`: goroutines run, card and
operator answer or time out (both have timeouts), the windows are timers.
`WorkerPool`: goroutines and watchdogs run; starts that wait for the modem need
not return. `MbimDevice`: writes end, deadlines pass, the loop notices a dead
link; no answer is owed. `MbimManager`: goroutines run and tickers tick; the modem
owes nothing. `AtManager`: the loops run, the status is polled for ever, a modem
answers unless it is slow. `SmsInbox`: handler and poll go on, the ticker ticks, and
the network repeats what is not acknowledged; no indication need come. `TrafficLedger` has no liveness property and no
fairness. All of it is weak fairness.

## 5. Weaknesses

What the models show the code does, next to the properties that hold. They are
listed as hazards at their lines in `PROJECT.json`; no property claims otherwise.

*Arbiter.* A ticket ages by the clock, not by an event (`arbiter.go:557`). Two
waiters that look on either side of that moment each see the other selected and
both park on an idle card, until the next call, release or deadline.

*VoWiFi.* Deleting an empty slot resets its epoch, so a start that a restart and a
disable have overtaken can find its epoch again and be installed (`store.go:166`).
Only the run bound last is cancelled: a restart beside an enable may run through
a switch (`controller.go:246`). A teardown between the claim and
`MarkRuntimeStarted` leaves the worker in VoWiFi SMS mode (`lifecycle_run.go:152`).

*Desired state.* `Clear` also forgets that a recovery is in flight
(`recover_state.go:111`), so a second one can begin beside it; `runMu` keeps them
apart, and the result of either is taken for that of both. A card whose removal
is confirmed while a start is connecting stops nothing, because no runtime is
active yet (`pool.go:962`), and a confirmation that fails is not repeated (`:951`):
a tunnel that comes up all the same stays. A recovery
that was picked, or waits for `runMu` without a generation, when the user disables
VoWiFi runs after the Disable and brings it up again; nothing looks for a device
that runs VoWiFi although its policy does not want it.

*Switches.* Whether the radio was brought online again is taken from the
configuration (`pool_esim_switch.go:867`), but a degraded recovery returns before
that (`:1041`). A second switch records the low power of the first as flight mode
and keeps it (`:88`). The guard clears the marks of a slow switch that still runs
(`:117`). A poll writes without looking at the token again (`:477`).

*Profiles.* A reader that has found the lock taken may load the completion channel
after the writer replaced it, and sleeps beside a free lock until its context
ends; and a reader peeking with `TryLock` makes another one sleep the same way.
`notifyWriteDone` swaps the channel unlocked: two writers that leave together
close it twice (`manager.go:1017`). `patchCachedActiveProfile` leaves the
generation, `RefreshProfiles` compares none, a failed listing is cached as an
empty eUICC, and a write that failed after the card obeyed leaves the cache. When the list before a
delete or a download fails, the write goes on and compares with 0 (`manager.go:3847`,
`:3564`): an older notification of its kind may be sent in place of its own, and no warning
says so.

*Pool.* A rebuild brings a new generation, and a new generation empties the window
that caps rebuilds (`transport_recovery_controller.go:97`). A start that hangs
inside a recovery keeps the recovery's mark for ever. A start the watchdog has
overtaken registers late (`pool_bootstrap.go:604`, `:645`). A recovery that ends
deletes whatever transport event is active, its own or not.

*MBIM manager.* The `Close` a recovery makes opens the gate that keeps it single
(`manager.go:262`; `recovery.go:29` says single-flight): two recoveries overlap,
and two `Open`s may leak an endpoint. A second attempt, or a recovery that another one
crosses, reads a wish that a `Close` has cleared, so the session is not restored
(`recovery.go:95`). A recovery whose trigger found the gate taken leaves the health at
'recovering', and until a probe succeeds no failure starts another. A
`Connect` that cannot reopen leaves neither endpoint nor event. Nothing asks the modem
whether it has the session: a deactivation that is not indicated, because the subscription
failed (`manager.go:184`) or the transport's queue was full (`pkg/mbim/device.go:196`), a
drop handled while a reconnection holds the gate, and a second `Connect` that fails, leave
`connected` true without one.

*AT.* A late answer completes the next command, and can have a message deleted
unread. Two readers of messages in different storages switch each other's
(`manager.go:1487`). After an end-of-file during a command only the watchdog
notices, and it does not count urgent commands. A message that cannot be decoded
is deleted (`:1517`).

*SMS.* A message is deleted by index: one that comes into a slot just emptied by the
other goroutine is deleted unread, and one that both have in hand is handed on
twice (`pool_sms.go:160`). A message that was tagged as read when its answer was lost
is deleted as a leftover, and the poll may so delete what the handler has only in
hand, which a restart then loses. A restart, or a new worker, also loses a raw message that
needs no acknowledgement and has not been processed yet: nobody sends it again
(`pool_sms.go:222`). A message that does not decode stays in an MBIM
inbox for ever. Parts of a long message are deleted from the modem as they are read
and kept in memory only (`:176`).

*Traffic.* A write that fails skips the rollups of its minute
(`sampler.go:161`), and a full hour that is skipped is never summed (`:106`). Days
are summed in UTC and shown by local midnight (`:172`): in the zone the
repository deploys, yesterday is missing from the charts of weeks and months until the
next UTC day is summed. In a zone that is not whole hours from UTC an hour is summed when
the local clock is full, and until then the hour that has just ended is in no chart
(`:167`, `db/traffic.go:156`). A server that exits while a snapshot is read is counted twice
(`manager.go:371`).

## 6. What is proved

All proofs hold for every value of the constants under the assumptions named in
the modules. They say that the null values are not among the sets beside which they
stand (in `VowifiLifecycle` `None` is neither a call nor a kind of call), that bounds
are numbers, that requests are finitely many and the limits positive, that `Mixes`
are functions from `Requests` to `Calls`, that a part belongs to a message and
`Raw` is no slot, that a slot of an AT modem holds one message and that a message is
not named as an answer or a storage, that a day is at least two whole hours and a week at
least two whole days, and that a zone is less than a day from UTC. None of them limits
how many callers, goroutines, switches, messages or bytes there are, or what they do
together. The proofs of `ApduArbiter` and `SIMAuthGate` are in `ArbiterProofs`, those of
`AtManager` with those of `SmsInbox`, and so on; each list item names its modules.

* `ArbiterProofs`, of `ApduArbiter`. The inductive invariant joins type correctness, the
  bookkeeping of the queue, the sharing of the card, the exclusion by barriers
  and the watchdog's view (a firing or armed timer belongs to a lease, an active
  lease is held). It is needed because `CardSharing` alone says nothing of
  who may re-enter the queue, and `BarrierExcludes` holds after a grant only
  because a barrier is granted on an idle card. Theorems: `TypeCorrect`,
  `BookkeepingCorrect` (`Consistent`), `CardSharedSafely` (`SharedSafely`),
  `NoWakeupLost` (every step that could enable a parked ticket signals), and the
  action properties `TouchBeatsWatchdog` and `GrantsInOrder` (`QueueOrder`). The last
  has three parts: a grant always takes from a queue its call waits in; neither a
  barrier nor an exclusive transport ahead lets the scan pass it; and of one class the
  first goes first, because what makes a ticket eligible is common to its class.
* `ArbiterProofs`, of `SIMAuthGate`. `SingleProbe`, `OpenMeansVerified` and
  `SleepersHaveAProber` are inductive with the types and the fact that a
  prober's generation is not ahead of the gate's: `GateInvariant`
  (`GateConsistent`). `GateAdmitsVerified` derives `PassesVerified` from it.
* `VowifiLifecycleProofs`. The inductive invariant is `TypeOK`,
  `TunnelsAccounted`, `StartingHasOwner` and `HandsClean`: an instance in the
  slot, or in the hands of a teardown, belongs to a call past its claim; a
  teardown deletes only what it has stopped; who claims has built. Without it a
  start could claim the slot between a teardown's stop and its delete and be
  accounted for by nobody. Theorems: `TypeCorrect`, `TunnelsNeverLeak`,
  `StartingAlwaysOwned`, `StoreConsistent` (`Consistent`).

  A second invariant joins `Silence` to it, for the switch and the epochs. What a
  switch does to a start depends on where that start is: one that is bound is
  cancelled, one that has its epoch is dropped at the claim, one that has claimed is
  stopped by the teardown. `Hushed` says of every step of `SwitchBegin` which of the
  three is done. It holds only if the start under way is the one whose context can
  be cancelled, which is `Queue` (one serial call has `runMu`, and is the run bound
  last unless a preempting one came), if no start begins under the mark (`Marked`), and if
  calls keep to their labels (`Routes`). `Fresh` bounds the epoch of a start by that
  of the slot; a deletion that resets it comes, without a restart, only when no
  overtaken start is left to find it. Theorems: `SwitchKeepsQuiet`
  (`QuietDuringSwitch`) and the action property `ClaimsAreFresh` (`ClaimsFresh`).

  The same module proves `DesiredVowifi`, whose calls are made again and again. None
  of them preempts, so one call at a time is past its queue (`InLine`). `Modes` says
  what the SMS mode is beside the slot while that call is under way, because
  `SMSModeFollowsRuntime` speaks only of a host at rest. `Numbers` says that whoever is
  past its number has the last one, and that the number of a Disable is its own; a
  retry with an older number is therefore stale when it is admitted. `Filed` spells
  out `RecordTruthful`. `Renewed` is the lemma that a call may be used again: what the
  slot and the teardowns know of it is gone, or it keeps the label of a call that
  is over. Theorems: `DesiredStoreConsistent` (`DesiredConsistent`) and the action
  property `DisablesOutlast` (`DisableOutlastsRetries`).
* `EsimSwitchProofs`. The inductive invariant is `TypeOK`, `MarkHasOwner` and
  `Verified`: a recovery let on to the gate has a poll that ended well, and a
  poll that ended well saw the target. `RestoredMeansVerified` speaks only of
  the end of that chain and is not inductive. Theorems: `Typed`, `MarkOwned`,
  `RestoreVerified`, `SwitchConsistent` (`Consistent`) and the action properties
  `MarkIsKept` (`MarkKept`) and `TransitionsEnd` (`TransitionEndsAtTarget`), which goes
  through every writer of the identity and needs no more than the types.
* `MbimProofs`, of `MbimDevice`. The invariant has a part for each party: `Numbering` (a
  transaction has one caller), `Answering` (while a caller is busy its transaction is
  open, and pending until its channel is filled), `Writing` (who is between two
  fragments is the only writer, and the modem has exactly what was sent),
  `Answers` and `Indicating` (what a collector holds is a prefix of one message).
  `ReaderNeverBlocks` alone does not say why a channel is empty when the reader
  fills it; `Answering` does: what is pending has had no outcome. Theorems:
  `SpecConsistent` (`Consistent`) and `SpecImplementsRpc`: every step is a step of
  `MbimRpc` or leaves `call` and `carried` alone. That covers the safety of `Rpc!Spec`; its
  fairness is in the run.
* `MbimProofs`, of `MbimManager`. Nothing that it keeps can be seen without knowing where
  each goroutine is and where its call returns to (`Ways`). `Managed` says why a session
  is desired and has an endpoint while a Connect makes it, and that one no longer desired
  is being ended; `Lost`, that a lost endpoint nobody was told of is in the hands of a
  recovery or of the Connect that closed it. `Tended` is `DropNoticed` extended to a
  session that a Connect is about to commit, and to a reconnection about to connect. `Wishes`
  follows the wish of a recovery that no other has crossed from the trigger to the Connect,
  past the Close that forgets it. Theorems: `SpecManaged`
  (`ManagerConsistent`) and the action property `WishesRestored` (`DataRestored`).
* `WorkerPoolProofs`. `StartProtected` needs to know that a goroutine's attempt is
  its own (`Starts`), and that of two recoveries one is at work (`OneRecovery`, with
  where each call returns to). `NoOrphan` needs what a start has done so far
  (`Progress`): a QMI start opens the modem after it has registered, an MBIM start
  before, and a failing start withdraws only what is its own. `WorkerHeard` needs
  that until a mark is lost nobody else's generation is published (`Told`). Theorem:
  `SpecConsistent` (`Consistent`).
* `SmsProofs`, of `SmsInbox`. `NothingDropped` says where a part is, not that deleting it is
  harmless; `Kept` does: what is tagged, a leftover or in hand after processing is
  handed on, kept, processed by the other, or forfeited. `HandedOnce` needs `Apart`
  (a part is in one place, and with two goroutines only if it is repeatable) and
  `Once` (what was processed is gone, or its place is about to be deleted). `Course`
  has the order in which the poll asks for its lists, without which an unread message
  could be taken for a leftover. Theorems: `SpecConsistent` (`Consistent`),
  `SpecNothingDropped` (`NothingDropped`).
* `SmsProofs`, of `AtManager`. Answers carry no name, so that a reader deletes its own
  message rests on there being one command on its way (`Exchange`): as long as none was
  too slow, either the command at hand is written and unanswered, or its answer is the
  only one in `rxChan`, and what that answer says is true of the storage selected (`Fits`).
  `Preserved` follows a message through the steps of its reader: in its slot until
  handed on, and its storage selected from the read to the deletion; a deletion
  therefore meets the slot of its own message, and no other message's. The one report
  (`Reporting`) holds although the idle loop does not ask whether the manager runs:
  once the manager has stopped and told, the loop receives no error line any more.
  Theorems: `ChannelConsistent` (`AtConsistent`), `NothingLost` (`NothingDeletedUnread`).
* `EsimOperationsProofs`. `CacheTruthful` says nothing of a cache that is about to be
  filled: `Fresh` does (what a scan holds is the card, or its generation is not the
  present one, or a write that has reached the card will make it so), and `Behind` with
  it (no load is ahead of the generation, so an invalidation refuses every load under
  way). `Cached` extends it over a write: only a confirmed write that will invalidate, or a
  switch that will patch the active profile, tells the cache from the card.
  `OperatorInformed` needs `Told` (a report stays true until the call returns) and
  `Own`: what is of a write's kind and comes after its baseline is its own, unless the write
  is blind, because the operation lock lets nobody else install or delete. Theorems: `SpecConsistent` (`Consistent`),
  `SpecOperatorInformed` (`OperatorInformed`).
* `TrafficLedgerProofs`, of `TrafficLedger`. `Written` and the charts are sums over sets
  of rows. A sum is characterised first: there is one function that adds up the subsets
  of a finite set, by well-founded induction on strict inclusion
  (`FS_StrictSubsetOrdering`, with the set of the subsets for which it holds in place of
  a predicate), and the library's sum is it. From that follow the lemmas the rest cites: what
  a sum is when one row grows, when rows are compared, and over a partition of its
  periods. `CountedOnce` needs to know where a running server's bytes are while a snapshot
  is taken (`Baselines`) and where in its minute the sampler is (`Rounds`). `Rows` says
  that a row of an hour holds no more than was written in it, and `DayRows` the same of
  days; that the charts show no byte twice follows because the hours of a day do not
  overlap, nor do the UTC days and the hours that the chart adds after them
  (`TotalPeriods`). `ChartsExact` speaks only of a sampler that has caught
  up and is not inductive; `HourRows` and `DayRows` are: a row of the time that is kept is
  exact once the minute that sums it (`SummedAt`) is past, unless that minute was
  disturbed. They rest on
  `Skipped` (a minute the loop passes over is disturbed) and `WrittenRows` (for a day, the
  row of a minute is what was written, and nothing is written into a minute that the
  sampler has not come to).
  Theorems: `LedgerConsistent` (`Consistent`), `LedgerCharted` (`ChartsExact`).

Each of these invariants was an invariant of a run of TLC before it was proved.

So every invariant and every action property of the runs is proved. Only
model-checked: what needs fairness, `Rpc!Spec`'s included, since the provers have no
rules for `ENABLED` and fairness.

## 7. What is not modelled

* Next: delivery reports of SMS (`db/sms_delivery.go:197`), calls over the modem
  (`internal/cscall`), the SIP gateway, and the tables of the QMI manager.
* Of modelled components: the start and stop of proxy instances (of the proxy only
  what the accounting sees), the USSD and identity commands of the AT and MBIM
  managers (no state of their own), other backends' transports in the pool, the
  restoration of radio and country on a VoWiFi teardown, the broadcasts of its
  states. Their components are
  `partly` in `PROJECT.json`, with the reason.
* External: the QMI, SGP.22 and VoWiFi libraries, seen through their calls.
* No state, no interleaving: the byte codecs of SMS, MBIM and APDU; discovery
  through sysfs.
* I/O around the components above: HTTP handlers, notification channels and bots,
  the web interface, configuration, updater.
