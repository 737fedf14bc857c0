# A TLA+ model of loadpace

loadpace is a client-side load balancer: every endpoint of a service has a
controller that learns how much the endpoint can take, turns that into a request
rate, hands out dispatch slots at that rate and refuses work beyond a short
queue. This directory holds a model of that controller, of the Tokio, Tower and
Rama adapters around it, of the Rama DNS connector and of the simulator, the
configurations TLC checks, and theorems proved with TLAPS.

1. [The system](#1-the-system)
2. [The modules](#2-the-modules)
3. [What the model abstracts](#3-what-the-model-abstracts)
4. [The runs](#4-the-runs)
5. [Fairness](#5-fairness)
6. [The proofs](#6-the-proofs)
7. [What is not modelled](#7-what-is-not-modelled)
8. [The plan](#8-the-plan)
9. [Observations](#9-observations)

## 1. The system

| Component | Code | State | Operations |
|---|---|---|---|
| Endpoint controller | `loadpace/src/controller.rs` | FIFO of pending reservations with virtual slots, `next_id`, `inflight`, feedback epoch, pending wakeup effects, the four policies below | `reserve`, `cancel`, `dispatch_state`, `on_dispatched`, `finish`, `on_admission_failure`, `refresh`, `load`, `snapshot`, `take_changes` |
| GCRA pacer | `loadpace/src/gcra.rs` | interval, committed TAT | `next_at`, `set_rate`, `commit` |
| Gradient2 limiter | `loadpace/src/gradient.rs` | fractional concurrency, instant of the next healthy update | `on_rtt_with_baseline_at`, `on_failure_at` |
| Latency estimator | `loadpace/src/latency.rs` | short and long averages, ring of minimum buckets | `observe_at`, `expected_rtt`, `baseline` |
| Probe schedule | `loadpace/src/probe.rs` | active probe, next decision | `maybe_start`, `active`, `effective_rate` |
| Two-choice reservation | `loadpace/src/p2c.rs` | none | `reserve_pair` |
| Tokio adapter | `loadpace-tokio/src/lib.rs` | one mutex and two `Notify` per endpoint; the guards `Reservation` and `ActiveRequest` | `try_reserve`, `try_reserve_pair`, `ready`, `dispatch`, `finish`, both `Drop`s, `load`, `snapshot` |
| Tower adapter | `loadpace-tower/src/service.rs` | a controller, one admission waker, a permanent failure, an inner service behind an async mutex | `poll_ready`, `call`, the response future and its `Drop` |
| Rama adapter | `loadpace-rama/src/lib.rs` | a controller behind a mutex and one `Notify` | `serve` and its `Drop` guard |
| Rama DNS connector | `loadpace-rama/src/dns.rs` | cache of host entries, each a swappable snapshot of endpoints and a refresh flag | `serve`, `lookup`, `spawn_refresh`, `resolve`, `reserve_p2c` |
| Simulator | `loadpace/src/simulator.rs` | endpoints with workers, pending completions, next arrival, the counters of the report | the loop of `simulate`: `next_dispatch_at`, `complete_ready`, `drive_all`, `choose_p2c` |

How they interact. The controller is sequential, owns no lock, timer or task and
reads no clock: each call is given `now` and leaves wakeup effects behind
(`ControllerChanges`) that its owner must take under the lock and deliver after
unlocking. The adapters own the locks, the timers and the sleeping tasks. A
reservation becomes a request in flight through `on_dispatched` and ends through
`finish` or, if the caller gives up, through `cancel` or an abandonment reported
by a guard's `Drop`. Two controllers meet only in `reserve_pair`, which needs both
locks.

What is hard, and what makes each component correct:

- *Controller.* The slots of the queue are a cache of the pacer's state, and nine
  methods can invalidate it. Slots must never run ahead of the pacer, nor lag
  behind it because of something cancelled; counts must match what callers hold
  although reservations are `Copy` and may be presented late or to the wrong
  controller; whatever makes a sleeper's deadline obsolete must ask for its
  wakeup.
- *Pacer.* Rate changes in the middle of a wait, missed slots, deadlines past the
  last representable instant. No two dispatches closer than an interval that was
  in force between them.
- *Limiter and estimator.* Answers that arrive after a failure, repeated failures
  at the floor, a window that moves while nothing is observed.
- *Feedback clock.* Abandonment is not feedback; every dispatch is not feedback;
  the clock starts afresh after an idle period.
- *Probes.* Expiry at the exact instant, several readers at the instant of a
  decision, a decision that moves while the head sleeps.
- *Tokio adapter.* Effects are delivered after unlocking while other tasks run,
  waiting tasks throw away the effects they caused, futures are dropped at any
  suspension point, and pairs lock in address order.
- *Rama adapter.* A turn is checked in one critical section and claimed in the
  next, and the clocks of checks, completions and drops are read before the lock,
  so the controller may be shown time running backwards. No wakeup may be lost and
  every guard must end its reservation or request exactly once all the same.
- *Tower adapter.* A future whose turn has come must also wait for the inner
  service, and keeps it ready while its turn may be revoked. There is one waker for
  `poll_ready`, replaced by each poll and taken by each change of admission. The
  inner service can fail in one future's hands while others are queued, asleep or
  on their way to sleep: it must not be polled again, everybody must get an answer,
  and every place must be given back.
- *DNS connector.* A background refresh resolves from a snapshot loaded long before
  it stores the next one; requests select from snapshots that are replaced under
  them; lookups judge an entry's age and act on the cache later; pairs are locked
  across snapshots. Controllers must survive, the look after a selection must notice
  every removal of the endpoint up to then, and no reservation may stay behind.
- *Simulator.* The loop has no sleep, so whatever is due and left undone keeps the
  clock where it is for ever.

The full list, with source lines, is `hazards` in `PROJECT.json`.

## 2. The modules

```
EndpointConfig          parameters, time, saturating arithmetic
  Gcra  Gradient2  Latency  Probe       the policies, one module per file
    LatencyWindow       the estimator by itself, against the samples observed
    Controller          every method of EndpointController as an operator
      EndpointController    one controller driven by all legal calls  --refines--> BoundedDispatch
      RamaEndpoint          futures, stale clocks, Notify, guards
      TowerEndpoint         one owner, futures, a shared inner service, closure
      P2C                   reserve_pair
        TokioEndpoint       tasks, locks, Notify, guards
        Simulator           endpoints, workers, arrivals, the event loop
DnsCache                the DNS connector over what BoundedDispatch promises
ControllerProofs > EndpointControllerProofs, RamaEndpointProofs, TokioEndpointProofs,
                   TowerEndpointProofs, LatencyWindowProofs, SimulatorProofs
DnsCacheProofs
MCEndpointController, MCTokioEndpoint, MCRamaEndpoint, MCTowerEndpoint,
MCDnsCache, MCLatencyWindow, MCSimulator                what TLC instantiates
```

**EndpointConfig.** `SaturatingAdd` is `saturating_add` (`gcra.rs`), `Nearest` the
rounding of a float back to a duration, and the derived constants are those of
`gradient_config`. `ConfigAssumption` is what the constructors assert.

**Gcra, Gradient2, Latency, Probe.** The state of each policy is a record, each
method an operator from record to record. `MaybeStart` takes the result of the
random source as a parameter `draw`.

**Controller.** A controller is a record with the fields of the Rust struct. Each
method is an operator: `Reserve`, `Cancel`, `Check` (`dispatch_state`),
`OnDispatched`, `Finish`, `OnAdmissionFailure`, `Refresh`, `TakeChanges`, and the
private `UpdateRate`, `RebuildVirtualQueue`, `NextVirtualSlot`,
`NextDispatchRefreshAt`. `Check` and `OnDispatched` return the controller with the
answer (and the token). `Follow`, `Probed`, `Announced`, `Verdict`, `Claim`,
`Learned`, `Ended` and `Responded` name the parts of a method. `DecisionDue` says when `refresh` consults the random
source at all, so that `Draws` offers a choice only then.

**EndpointController.** The state machine of one controller: `ctl`, the clock
`now`, the tokens callers hold, and `hist`, history that only properties read
(when the endpoint was last really heard, the last dispatch, the least interval
since, the last change of the limit). Actions: `ReserveSlot`,
`CancelReservation(r)`, `CheckReservation(r, draw)`, `Dispatch(r, draw)`,
`FinishRequest(t, completion)`, `FinishForeign(completion)` (a request of another
controller, which `finish` refuses), `AdmissionFailure`, `ReadLoad(draw)`,
`DrainChanges`, `Tick`. Reservations are drawn from every id, live, spent or not
yet given out, and from another controller, since they are `Copy` in the code;
tokens are not, so a token is used once.

**BoundedDispatch.** The abstract specification: a bounded line that is left from
the front, or from anywhere by those who give up, and a bounded set of running
requests. It knows no clock, rate or estimate. `KeepsPromise` in
EndpointController is the refinement, by the mapping of `Promise`.

**P2C.** `ReservePair` refreshes two controllers and `Select` chooses between them.

**TokioEndpoint.** A record per task says where in the adapter it is and what it
owns; `holder` is the lock that is kept between two steps (only a pair does that),
`owed` the `notify_waiters` calls a task has still to make. A critical section is
one step; between it and the deliveries it owes, and between two deliveries, other
tasks run. `dispatch()` is split at each point where another thread can
intervene: `Register` (enable the `Notified` future), `TryDispatch` (the section
under the lock), `Suspend`. `DropReservation` is the `Drop` of the guard at each
suspension point, `FinishRequest` both `finish()` and the guard's `Drop`.

**RamaEndpoint.** A record per task says where in `serve` its future is, with the
`RequestGuard` it owns and the clock it has read and not yet used. `Serve` reserves
before there is anything to poll. The loop of `begin_dispatch` is `Register`
(`enable()`, then the clock), `Inspect` (the section of `dispatch_state`),
`Suspend`, and after Ready `BeginDispatch`, a second section that may find the turn
gone and start over (`retry`). `End` and `Drop` read the clock for the guard,
`FinishGuard` is the section that finishes, abandons or cancels, whichever the
guard's state asks for, and `Notify` the delivery after unlocking.

**TowerEndpoint.** The owner (`PollReady` from several contexts, `Call`,
`ReadMetric`) and a record per future: where it is, its `PendingRequest` (`guard`,
`token`), and the deliveries it owes after a `with_controller` (`waking`,
`notifying`). `service` is the future that holds the async lock. The wait is
`Register`, `Inspect`, `Suspend` as in the other adapters; `start` is
`LockService`, `PollInner`, `InnerAnswers`, and then `BeginDispatch` and
`CallInner`, or `PublishFailure` and `ReturnError`; `retry` is the way back into the
wait with the inner service still claimed. `Drop` applies at every suspension
point and releases the lock; `ReadClock` and `FinishPending` end a request.

**DnsCache.** One host and port. `slot` is what the cache holds, `entry` the
entries that were ever made, each with its snapshot, its refresh flag and its
refresh task, `request` where each request is in `serve`. `Lookup`, `Judge`,
`TryAcquireRefresh`, `SpawnRefresh`, `Invalidate` and `Join` are `lookup`, cut
where another thread can come between; `Resolve`, `ResolveFails` and `DropLookup`
the shared initial resolution; `RefreshResolves`, `RefreshFails` and
`ReleaseRefresh` the background task; `LoadSnapshot` to `Recheck` and `Revoke` the
selection loop with `reserve_p2c`; `Publish`, `BeginDispatch` and `FinishGuard` the
rest. `Recheck` loads the current set and decides, `Publish` is a later step: a refresh
may store another set between the two. An endpoint's
identity is its address and the resolution that first found it, so that two
controllers for one address can be told apart. `left` is history: the endpoints that
were in the current set of an entry and are no more. The controller is what
BoundedDispatch promises, without its order.

**LatencyWindow.** The estimator driven by samples, silences and clocks older than
the last one, with the samples really observed remembered beside it.

**Simulator.** `simulate()` statement by statement: `pc` names the next statement,
`at` the endpoint an inner loop has come to. `LoopTest`, `Peek` and `PickEvent` find
the next event, `CompleteReady` takes one completion, `Drive` and `DriveHead` are
`drive_all` (it runs twice in an iteration), `Arrive`, `RefreshForChoice` and
`Choose` an arrival with its two-choice sample.

Definitions named in comments as *a slip* (for instance `CancelKeepingSlots`) are
plausible bugs in the code. No specification uses them: they are substituted for
the definition they follow to see that a property notices.

## 3. What the model abstracts

- Time is counted in ticks. A duration that the code computes in floating point is
  rounded to the nearest tick as the code rounds to the nearest nanosecond; an
  interval is never shorter than a tick as in the code it is never shorter than a
  nanosecond.
- A concurrency is an integer number of hundredths, the averages are whole ticks,
  a rate is a fraction. The decay `2^-x` is exact at whole half-lives and linear in
  its reciprocal between them; it is monotone like the original, which is all the
  properties use. Its floor, `Duration::MAX / 2` in the code, is the constant
  `SlowestInterval`.
- `ProbeSchedule`'s probabilities become nondeterministic choice among the kinds
  whose probability is positive; so do the random intervals.
- `completed`, `failures`, `last_gradient` and `updates` are left out: they are
  reported, never read back.
- `u64::MAX` is `MaxId`, so identity exhaustion happens in every run.
- In EndpointController calls are given the current time, and so they are by the
  Tokio adapter, which reads the clock under the lock: the times of successive calls
  never go backwards. The Rama adapter reads some clocks before the lock, and
  RamaEndpoint keeps these apart. The lemmas of ControllerProofs do not assume a
  monotone clock.
- In TokioEndpoint a task re-registers in one step (drop the old registration, make
  a new one); a dispatch future is polled only when it was woken, its deadline
  passed, or for the first time (an executor may poll more often, which adds only
  repetitions of the same look). `try_reserve_pair` on two clones of one endpoint is
  `TryReserve`. `Cancelled` in `dispatch()` is `unreachable!()` in the code:
  `GuardsMatchControllers` is why.

- In TowerEndpoint there is one owner, as `&mut self` says; the inner service's
  `poll_ready` answers at any moment, with a grant or with its one permanent
  failure; what a response contains is left out. A future that waits for the async
  lock can take it whenever it is free: Tokio's queue is not modelled, so nothing
  shown relies on its order. A grant survives until the owner calls or polls again.
- In DnsCache the choice between two endpoints is free (which one is cheaper is
  P2C's business), so is the moment a place in flight is given; a queued request
  may start in any order, which allows more than the controller does. Other hosts
  appear only as evictions. The controllers' wakeups are the business of
  RamaEndpoint, which has the same wait.
- In Simulator the two-choice sample is free instead of seeded, all endpoints have
  one configuration, and the latency is the service time.

Bounds that exist only for TLC: `MaxTime` (the clock stops), `MaxId`,
`MaxAdmissionFailures`, `MaxResolves` (resolutions that succeed), and `LastReserveAt`,
`LastServeAt` and `LastCallAt` (no reservation later). All are named constants and
appear in guards.

## 4. The runs

Deadlock is checked in all runs but `simulator`, whose program ends.

| Run | Shows | Bounds |
|---|---|---|
| `pacing` | all orders of calls on one controller without probes: `QueueIsPaced`, `NoPhantomDebt`, `QueueInOrder`, `CapsHold`, `DispatchesAreSpaced`, `WakeupsAreRaised`, `LimitMovesSlowly`, `KeepsPromise` | 3 ids, queue 2, in flight 2, 5 instants, expected RTT 2, one transport failure |
| `limits` | every clock at its limit at once: `NoSpin`, `RefreshSettles`, `SilenceIsMeasured`, `WakeupsAreRaised`, `FasterOnlyOnEvidence` | probes of both kinds of 1 tick, decided every 1 to 2; 5 instants, the last but one of the clock, at expected RTT 2 and a floor of 4 ticks: the decay starts, passes a half-life and reaches the floor, deadlines overflow |
| `tokio_dispatch` | three tasks, one endpoint: `GuardsMatchControllers`, `NoLostWakeup` | queue 2, in flight 1 (so full queue, full flight and a third waiter all occur), one positive probe |
| `tokio_pair` | two tasks, two endpoints, both argument orders: `NoLockCycle`, `PairPrefersCheaper` | queue 1, in flight 1 |
| `tokio_served` | under fairness `EveryoneIsServed` | 2 tasks; the clock runs to the last instant, so every saturated deadline falls due |
| `rama_dispatch` | three futures, one endpoint: `GuardsMatchController`, `NoLostWakeup` | queue 2, in flight 2: the least for which a completion with an old clock can re-rate the queue between another's check and its claim, so that `retry` occurs |
| `rama_served` | under fairness `EveryoneIsServed` | 2 tasks, in flight 2; the clock runs to the last instant |
| `tower` | an owner and two futures: `GuardsMatchController`, `NoLostWakeup`, `LastPollerIsWoken`, `GrantIsKept`, `NeverPolledAgain`, and under fairness `EveryoneIsAnswered` | two contexts (so a waker is replaced), queue 2, in flight 2; the inner service may fail in either future's hands; the clock runs to the last instant |
| `dns` | two requests, one host: `GuardsMatchEndpoints`, `NoLockCycle`, `ControllersSurvive`, `RecheckIsExact`, and under fairness `RefreshEnds` | two addresses, two resolutions, ages 1 and 2 for refresh and eviction; one place and one lane, so both rejections and second choices occur |
| `dns_expiry` | TLC refutes `OnlyStaleIsDiscarded` (section 9) | as `dns` |
| `latency_window` | `BaselineIsRecentMinimum` | three buckets of 2 ticks, 10 instants: silences longer than the window; clocks up to 1 tick old |
| `simulator` | `AccountsBalance`, `NothingDueIsLeft`, `EveryEventIsLater` | two endpoints of one worker with a service time of 5 under an arrival each tick for 10 ticks: more than they can serve; probes of both kinds; identities run out |

Why these bounds are enough to be interesting. Three ids with a queue of two give a
head, a follower and a later arrival, hence cancellations from the front, from
the back, and of something that has already left. Two requests in flight are the
least for which abandoning one leaves another. Five instants at expected RTT 2 hold
an interval, an early and a late dispatch, and the grace period with the start of
the decay. Three tasks
are the least for a waiting head, a follower and somebody who changes the state
between their look and their sleep. In `tower` two futures are the least for which
one waits for the async lock while the other dispatches, sleeps while the other
fails, and finds its turn revoked by the other's completion. In `dns` two resolutions are a first entry and either a
refresh of it or a second entry beside it, and two requests the least for a pair
locked from both sides and for an entry judged by one and replaced by the other.
An address that leaves the set and returns needs a third resolution: with
`MaxResolves = 3` and without `RefreshEnds`, TLC finds no violation in 8.2 million
states; this is too long for a regular run. The proofs of section 6 carry the properties of `dns` to any number of them.
Symmetry among tasks is used only in runs
without liveness.

Every property of every passing run has a mutant in `PROJECT.json`: the substituted slip
makes TLC find the property violated under the same configuration.

## 5. Fairness

Four runs need any. In `tokio_served` and `rama_served`, `Fairness` says that time passes (`WF(Tick)`) and
that a task with a step of its own to take takes one eventually: the runtime polls
a task that was woken or whose timer fired, a lock section ends, and
`notify_waiters` calls already owed are made. That much the Tokio runtime and a
mutex provide; the adapter's callers must also poll or drop a reservation they
hold and end a request they started, which its documentation asks of them by
marking both guards `must_use`. Nothing obliges anybody to reserve, read the load, drop a
future or cancel; a Rama future holds its own guard, is polled by the runtime, and its inner
service answers in the end. The second conjunct is weak fairness per task with its ENABLED
written out (`Runnable`), because the enabledness of `TryDispatch` or `Inspect` costs TLC the
whole controller. A task parked behind another is not runnable, so what is shown
is that somebody always wakes it.

`tower` asks the same of its futures, and of the inner service an answer to a
future that awaits its readiness or its response; the owner is asked to make the
deliveries it owes and nothing else: it need not poll, call or read the load. The
async lock goes to a future that stands before it in the end because whoever holds
it moves on, not because of its queue.

`dns` asks that a request which has taken the refresh flag spawns the task (there is
no suspension point between the two, so no future can be dropped there), and that
the runtime runs the task to its end, one way or the other. It asks nothing of the
requests. The simulator needs none: it is one sequential loop, and instead of a
liveness property `EveryEventIsLater` bounds the number of its iterations.

`[]<><<Runs(p)>>` counts any change of state of the task or of the deliveries it
owes as a step.

## 6. The proofs

`tlapm` proves, for every value of the constants allowed by the named assumptions
(`ConfigAssumption`, `LatencyAssumption`, `ProbeAssumption`,
`ControllerAssumption`, `BoundsAssumption`, `TokioAssumption`, `RamaAssumption`,
`TowerAssumption`, `WindowAssumption`, `SimulatorAssumption`, `DnsAssumption`, each translated from the assertions of the constructors or naming a bound):

| Theorem | Statement |
|---|---|
| `Invariance` | `Spec => []IInv` |
| `TypeCorrect` | `Spec => []TypeOK` |
| `PacingIsKept` | `Spec => []QueueIsPaced` |
| `OrderIsKept` | `Spec => []QueueInOrder` |
| `CapsAreKept` | `Spec => []CapsHold` |
| `NothingIsMissed` | `Spec => WakeupsAreRaised` |
| `NoDebtIsLeft` | `Spec => []NoPhantomDebt` |
| `SilenceIsTimed` | `Spec => []SilenceIsMeasured` |
| `LimitIsDamped` | `Spec => LimitMovesSlowly` |
| `WaitsAreReal` | `Spec => []NoSpin` |
| `RefreshIsQuiet` | `Spec => []RefreshSettles` |
| `PaceNeedsEvidence` | `Spec => FasterOnlyOnEvidence` |
| `PromiseIsKept` | `Spec => KeepsPromise` (refinement of BoundedDispatch) |
| `TypeCorrect` | RamaEndpoint: `Spec => []TypeOK` |
| `GuardsMatch` | RamaEndpoint: `Spec => []GuardsMatchController` |
| `NoWakeupIsLost` | RamaEndpoint: `Spec => []NoLostWakeup` |
| `TypeCorrect` | TokioEndpoint: `Spec => []TypeOK` |
| `GuardsMatch` | TokioEndpoint: `Spec => []GuardsMatchControllers` |
| `NoWakeupIsLost` | TokioEndpoint: `Spec => []NoLostWakeup` |
| `LocksNeverCross` | TokioEndpoint: `Spec => []NoLockCycle` |
| `CheaperIsPreferred` | TokioEndpoint: `Spec => PairPrefersCheaper` |
| `TypeCorrect` | TowerEndpoint: `Spec => []TypeOK` |
| `GuardsMatch` | TowerEndpoint: `Spec => []GuardsMatchController` |
| `NoWakeupIsLost` | TowerEndpoint: `Spec => []NoLostWakeup` |
| `OwnerIsWoken` | TowerEndpoint: `Spec => []LastPollerIsWoken` |
| `GrantKept` | TowerEndpoint: `Spec => []GrantIsKept` |
| `FailedIsLeftAlone` | TowerEndpoint: `Spec => []NeverPolledAgain` |
| `BaselineIsRecent` | LatencyWindow: `Spec => []BaselineIsRecentMinimum` |
| `EveryRequestCounts` | Simulator: `Spec => []AccountsBalance` |
| `NothingIsLeft` | Simulator, `End < MaxInstant`: `Spec => []NothingDueIsLeft` |
| `ClockMovesOn` | Simulator, `End < MaxInstant`: `Spec => EveryEventIsLater` |
| `GuardsMatch` | DnsCache: `Spec => []GuardsMatchEndpoints` |
| `LocksNeverCircle` | DnsCache: `Spec => []NoLockCycle` |
| `ControllersStay` | DnsCache: `Spec => ControllersSurvive` |
| `RecheckSeesAll` | DnsCache: `Spec => RecheckIsExact` |

The inductive invariant of the controller is

    IInv == TypeOK /\ QueueIsPaced /\ QueueInOrder /\ CapsHold /\ IsFiniteSet(tokens)

None of the parts is inductive alone. `CapsHold` counts tokens by cardinality, and
a dispatch adds one to the count only if its token is new, which is `QueueInOrder`:
the id of a queued request is above those in flight. `QueueInOrder` needs the type
of `next_id`. `TypeOK` says `inflight` is a natural number, which a completion
keeps only because `CapsHold` says that there is a token to finish. `QueueIsPaced`
is stated with saturating sums; appending a slot and rebuilding the queue both
preserve it because saturating addition is monotone and associative on durations
(`SaturatingAddTwice`, `SaturatingAddMonotone`), which is where the assumption
that instants are bounded enters.

The argument goes in layers. **ControllerProofs** begins with the arithmetic and the
types of the policies' results, and then has one lemma per method: it maps a
controller to a controller, keeps `Paced`, and says what becomes of the ids, of the
counts and of the queue (`RefreshFacts`, `CancelFacts`, `OnDispatchedFacts`,
`FinishFacts`...), and what becomes of the order of the ids (`Ordered`, `CancelIds`,
`DispatchIds`...). Then it has one lemma per method that whatever it changes
for a sleeper it announces (`Announces`). Its core is `Quiet`: a refresh, a re-rate or
a probe that moves a slot raises `dispatch`, and one that does not leaves the due
time of the head where it was; the hard case is a probe that ends, whose limit falls
back and whose next decision becomes the head's deadline. **EndpointControllerProofs**
has one lemma per action that `IInv` survives it, and the theorems; its last part maps
each action to one of BoundedDispatch or to a stutter.

Six more properties of the controller rest on `IInv`. `NoPhantomDebt` is inductive
with it: a rebuilt queue stands exactly at the pacer's slots, a method that does not
rebuild leaves slots and pacer as they were (`Prompt`), and a later clock only moves
the bound up. `SilenceIsMeasured` and `LimitMovesSlowly` compare what the controller
remembers with what happened; for them a step is sorted by what it may teach the
controller: nothing (`SameLearning`), the start of a busy period, the end of a request
(`Learns`), a failure of the transport (`NextLearns`). The limit needs a strengthening
of its own, `LimitIsHeld`: the next healthy update is never due before an update
interval after the last change. `NoSpin` and `RefreshSettles` follow from one fact about
a refresh (`RefreshIsSettled`): afterwards no probe is over, a wanted decision is to
come, the pacer has the rate of the moment and the head is not behind it. At the last
instant a decision can be due again and again; it then starts a probe that is over
at once, which is why `Settled` has a case for it and `RefreshSettles` still holds.

`FasterOnlyOnEvidence` compares two intervals, and the interval is not at all times what
the policies ask for: it falls behind while silence stretches, until somebody refreshes.
What is inductive is which side it errs on,

    Trails == ctl.pacer.interval <= Pace(ctl, now)

with `SilenceIsMeasured` (nobody in flight means that no silence is counted, so the
dispatch that starts the count does not undo a decay). A method keeps the interval or
sets it to `Pace` (`KeepsPace`, `SetsPace`), and without evidence `Pace` only grows
(`PaceSlows`): the limit falls or stays (`OnFailureLowers`), the estimate stays, and the
silence is the same or longer. That rests on an order of rates compared as fractions
(`NoFaster`), kept by the probe, the decay, the floor and the rounding to an interval
(`PerturbedKeepsOrder`, `DecayedKeepsOrder`, `FlooredKeepsOrder`,
`SlowerRateLongerInterval`), and on the monotony of the decay (`SlowdownGrows`). The last
needs that `2 ^ n` doubles with each step, which would be an induction; `PowerDoubles`
counts the subsets of `1 .. n + 1` instead, by the library's `FS_SUBSET`.

**RamaEndpointProofs** carries these lemmas to the adapter. Its invariant is

    IInv == Typed /\ Counted /\ AllAttended

`Counted` adds to `GuardsMatchController` that two guards never hold the same
reservation and that finitely many hold one, so that counting goes through a dispatch
(one guard less among the reserved, one more in flight) for any set of tasks, finite
or not. `AllAttended` is what `NoLostWakeup` needs to be inductive. It speaks of a task
from the moment it has looked at the controller, not only once it sleeps; it says
that a task with a deadline is the head and stays it, whoever else comes and goes;
and, while no notification is on its way, that a task without one is not the head or
finds the flight full, and that a deadline is not later than the instant at which the
head is due. It survives the calls of the others because what they change for a
sleeper they announce (`AttendedKept`, from `Announces`), whatever clock they read;
it survives the adapter's own drop of a waiter's effects because those effects
concern the head, which is the waiter, and no other task sleeps with a deadline.

**TokioEndpointProofs** does it for any number of endpoints. What the two adapters
have in common is stated once: in ControllerProofs what it is that guards match a
controller (`Matches`) and that it survives a call by which one owner comes, goes or
passes from the queue to the flight (`OneMoves`), what a sleeper
relies on (`Waits`), that it survives whatever is announced (`WaitsKept`), and that the
look of one waiter spares the others (`CheckSparesOthers`). The invariant is

    IInv == Typed /\ Locked /\ Counted /\ AllMinded

`Typed` adds that a task which registered, looked or sleeps in `dispatch` owes no
wakeups: it delivers the last ones before it is polled again. `Locked` says that a
pair keeps the lower of its two locks and that nobody else keeps one; `NoLockCycle`
follows because a pair then wants its upper lock, and two numbers cannot each be below
the other. `AllMinded` says of every task at every endpoint what `AllAttended` says in
RamaEndpoint, and the same of those who wait in `ready` for a place in the queue: told
or not, awake or nothing to do yet. A critical section has to establish one thing
whatever it did (`Leaves`: it announces, it balances the counts, and it changes the
number in flight only with a wakeup); `CallStep` turns that into the invariant for any
set of endpoints a call touches, once for one lock (`SectionStep`), once for two
(`PairStep`). `NotifyStep` is the other half: an effect that is delivered is no longer
owed, but everyone who relied on it is registered and so is woken. `CheaperIsPreferred`
reads the costs after the step, when the slot that was taken is in them already: what it
added is taken off again (`ReservedCost`), and nobody but the task itself ends its pair
(`PairStays`).

**TowerEndpointProofs** does it for one owner, its futures and the inner service they
share. The invariant is

    IInv == Typed /\ Counted /\ Numbered /\ Exclusive /\ AllAttended /\ ClosureHeard /\ Served

`Counted` and `AllAttended` are as in RamaEndpoint; a future is its reservation here, so
`Numbered` (nobody has been made beyond the next identity) is what makes the guards
distinct. `Exclusive` says that whoever is in a stage behind the async lock is the one
that holds it, and that from the failure of the inner service to the publication of
`failed` its holder is on the way there: `NeverPolledAgain` is not inductive without it,
since the next holder looks at `failed` and not at the failure. `ClosureHeard` is the half
of `NoLostWakeup` about closed endpoints. `Served` is what `LastPollerIsWoken` and
`GrantIsKept` need: an owner told Pending has its waker in the one slot there is, or
some future has taken it out and owes it the call, or it has been woken; a granted owner
has no question open, and no future takes a place in the queue, so the place stays.
A future may deliver the wakeups of its section while it holds the inner service (stage
`retry`), and the last step of a failing one delivers to everybody at once; both are
cases of `SectionStep` and `StirredStep`.

**LatencyWindowProofs** ties the ring of buckets to the samples that were observed. Its
invariant is, besides types,

    Recorded(latency, heard) /\ Covered(latency, heard, Reached) /\ Current /\ Lowest

A bucket that the ring wrote `Age` turns ago began its turn at
`started - Age * BucketDuration` (`Begin`). `Recorded`: whatever a bucket holds was heard
and not before its turn began. `Covered`: every observation has a bucket that holds no
more than it and whose turn had not ended, or is older than all but one bucket of the
window. `Current`: the latest observation fell into the turn of the current bucket.
Moving the window keeps `Begin` of every bucket it does not pass (`TurnStays`) and passes
exactly those whose `Age` plus the steps reaches round the ring (`PassedAreOldest`); an
observation that loses its bucket is out of date by then. A stale clock moves
nothing and its sample counts as made at the latest instant.

**SimulatorProofs** proves the books first, from

    IInv == Typed /\ AllSound /\ Balanced

`AllSound` says of each endpoint that its tickets are, in order, the reservations its
controller has queued: a head is then never told `Cancelled` (`HeadOwns`), and only the
head leaves. `Balanced` counts the requests by cardinality, as pairs of an
endpoint and a number, so that one more at one endpoint is one more of all
(`OneMoreRequest`) whatever the number of endpoints; taking a completion out of the
middle of the sequence renumbers those behind it, which is a bijection
(`ServedShrinks`). The clock needs a second invariant,

    Timely == Rested /\ Ahead /\ Clocked

`Rested`: a head the second `drive_all` has left behind was asked at this instant and
waits, and its controller is at rest, so that `next_dispatch_at`, which looks again at
the same instant, cannot find it due at once (`CheckRests`, which rests on
`RefreshSettles`). `Ahead`: what is in service is done later, since serving takes time.
`Clocked`: the next arrival and the dispatch found so far are later than `cursor`. Both
theorems about time assume `End < MaxInstant`. `End` is a saturating sum in the code,
and no instant is later than the last one: a simulation that reached it could serve
there only with a completion at the same instant.

**DnsCacheProofs** does the same for the DNS connector. Its invariant is

    IInv == TypeOK /\ RequestsWell /\ EntriesGuarded /\ OneRefresh /\ GuardsMatchEndpoints

`RequestsWell` says that a request's entry has been resolved and that its snapshot
and its pair hold each address once: without it, two distinct endpoints of a sample
could share an address and the order of the locks would not be an order.
`EntriesGuarded` says the same of the entries, and that an entry whose task
resolves still has the snapshot the task started from. That is what the refresh
flag is for, and it is inductive only with `OneRefresh`: whoever has acquired the
flag and not spawned its task yet is alone, and no task runs. `ControllersSurvive`
follows, because what `resolve` keeps of `previous` it keeps of the current set.
A step that touches neither entries nor places is one lemma (`QuietStep`), places
are another (`PlacesMove`). `NoLockCycle` is not an induction: among those who wait
and hold a lock there is one above whose lock nobody's is (the strict subset order
on the finite sets of holders above is well founded), and nobody in the circle can
hold what it waits for.

`RecheckIsExact` needs a second invariant, `Standing`, which follows an endpoint from
the snapshot through the sample and the locks to the reservation. `HeldWereSeen`:
whatever a request has of its snapshot has been in its entry's set, so it either still
is or has left. `NoneReturns`: never both, because `resolve` gives an address that comes
back a controller that is born later than all there were. The proof that a refresh
keeps it uses `Guarded`: the set that it drops endpoints from is the current one.

Only model-checked: `DispatchesAreSpaced` of EndpointController, and liveness
(`EveryoneIsServed` of RamaEndpoint and of TokioEndpoint, `EveryoneIsAnswered`,
`RefreshEnds`), which with ENABLED is beyond this prover. `DispatchesAreSpaced` is not
inductive for arbitrary constants: each change of the interval rounds the rescaled wait
to the nearest tick, and a long sequence of changes may add these halves up. Induction
over data is beyond the prover as well, so no theorem says what the saturating sum of a
whole queue computes; `Slot` states it in closed form, with the reason in its comment.

## 7. What is not modelled

The entry points of the policies the controller never calls (`Gradient2::on_rtt`,
`on_rtt_with_reference`); snapshots as values; panics of the constructors, which
are the assumptions; mutex poisoning. Of the Tower adapter, `AdaptiveDiscovery`, the
layer and the builders, which only construct services; of the Rama adapter, its
layer. Of the DNS connector, the path for a target that is an IP address already,
which bypasses it, the diagnostic snapshots of its endpoints, and the parsing of
answers. Of the simulator, the maximal queue length and the snapshots in its
report. The statistical claims of the simulation
tests (fairness shares, throughput) are not properties of behaviours and are left
to those tests.

## 8. The plan

Done: the controller and its policies, the three adapters, the DNS connector, the
estimator's window and the simulator; the proofs of section 6.

Left:

1. `SilentEndpoint`: a study of the wait during silence (section 9), which needs a
   measure of progress other than a bounded clock.
2. A bound for the rounding in `DispatchesAreSpaced`, after which it can be proved.

## 9. Observations

- *Rate changes during silence.* `docs/explanation/design.md` says that the decay
  "never hard pauses". `set_rate` stretches what remains of a wait in proportion to
  the interval, and during silence the interval doubles each expected RTT. Once the
  remaining wait exceeds `expected_rtt / ln 2`, each refresh moves the head's slot
  forward at least as fast as the clock; only the floor of `Duration::MAX / 2`
  stops it. If nobody refreshes meanwhile, the head dispatches at the slot it had.
  No finite run of the model separates this from a long wait, so it is recorded as
  a hazard and not as a contradiction.
- *A decision that is overdue.* When an admission failure ends a limit probe, the
  head may fall back to a decision of the probe schedule that is already past, at an
  earlier instant than the one that was past before, and nothing is announced. This
  misses nobody: a head that slept would have woken by itself. `WakeupsAreRaised`
  therefore compares what is left of the wait, not the instants; the attempt to
  prove the stronger form is what found the case.
- *Waiters drop their effects.* A waiting head discards the wakeups its own refresh
  raised. `NoLostWakeup` shows that this is sound: those effects concern only the
  head, which is the one looking, and every other change is drained in the section
  that made it.
- *Saturated TATs.* At the last representable instant all slots coincide, so the
  spacing of dispatches says nothing there: `DispatchesAreSpaced` is claimed in
  `pacing`, where no deadline overflows and no probe changes the interval.
- *Clocks read before the lock.* In the Rama adapter a completion may reach the
  controller with an instant older than a check made meanwhile. If it changes the
  rate, `set_rate` measures the remaining wait from the old instant, and a head that
  was told Ready finds its slot in the future when it claims it. That is the one way
  into the `Err` branch of `begin_dispatch` (lib.rs:394); with clocks read under the
  lock the branch is dead, because nobody but the head takes places in flight and a
  slot that is due stays due. `NoLostWakeup` and `EveryoneIsServed` show the loop to
  be right. The spacing of dispatches can suffer by as much as the clock was stale,
  which is why `DispatchesAreSpaced` is stated for monotone clocks only.
- *Expired entries (finding).* `loadpace-rama/README.md:124` says that entries
  without a successful refresh for the configured time are evicted. A lookup judges
  the age of the entry it got and then invalidates the key (`dns.rs:442`), whatever
  the cache holds by then. If another lookup has resolved the host in between, or
  the background refresh of the same entry has just succeeded, a fresh entry is
  discarded, and the next resolution makes new controllers although line 121
  identifies adaptive state by `(hostname, port, IP)`. `dns_expiry` shows the
  shortest such history. Nothing worse follows: `GuardsMatchEndpoints` and
  `RecheckIsExact` hold, and the requests that hold the discarded entry finish with
  it.
- *Removed addresses.* The look after the selection (`dns.rs:302`) speaks for the
  instant of its load. A refresh may store another set before the target is published
  (`dns.rs:316`) or while the request waits for its turn, and the request still goes to
  the address that has left. That agrees with `loadpace-rama/README.md:124`, which
  discards removed addresses from new selections only; the controller of the removed
  address counts the request to its end (`GuardsMatchEndpoints`).
- *The second look at `failed`.* In the Tower adapter a future looks whether the
  endpoint is closed again after it has got the async lock (`service.rs:411`). It
  never finds it closed: a future asks for that lock only as the head of the line,
  stays the head until it dispatches or is cancelled, and only an undispatched head
  can find the inner service failed. The model keeps the branch, the line makes it
  dead.
- *The second `drive_all`.* In the simulator an arrival at an idle endpoint is due at
  once, and the choice itself refreshes the endpoints. `NothingDueIsLeft` needs the
  second `drive_all` for that reason.
