------------------------------ MODULE Controller ------------------------------
(* EndpointController: a bounded FIFO of reservations with virtual pacing      *)
(* slots, the pacer they are derived from, the policies that set its rate and  *)
(* the clock of missing feedback.  Every operator is one method and maps the   *)
(* controller to the controller it leaves behind.  The counters completed and  *)
(* failures, which only snapshots read, are left out.                          *)
EXTENDS Gcra, Latency, Gradient2, Probe, SequencesExt

CONSTANTS
    MaxId,              \* u64::MAX: the id that is never given out
    SlowestInterval     \* Duration::MAX / 2: the decay never asks for more

ASSUME ControllerAssumption ==
    /\ MaxId \in Nat
    /\ SlowestInterval \in Nat \ {0}

Pending == [id : 0 .. MaxId - 1, scheduled_at : Instant, was_paced : BOOLEAN]
FeedbackEpoch == [last_feedback_at : Instant, expected_rtt : Nat \ {0}]
Changes == [admission : BOOLEAN, dispatch : BOOLEAN]
NoChanges == [admission |-> FALSE, dispatch |-> FALSE]

\* What dispatch_state answers.
Answer == [tag : {"Ready", "WaitUntil", "WaitForPrevious", "InflightLimit", "Cancelled"},
           at : Instant \cup {None}]
Plain(tag) == [tag |-> tag, at |-> None]
-------------------------------------------------------------------------------
(* The rate: Little's law, the probe, the decay for missing feedback.          *)

BaseRate(c) == [num |-> c.gradient.concurrency, den |-> ONE * ExpectedOf(c.latency)]

SlowerThan(a, b) == a.num * b.den < b.num * a.den
Slowest == [num |-> 1, den |-> SlowestInterval]

\* 2 ^ (excess / expected_rtt), linear between whole half-lives: the number the
\* rate is divided by.
Slowdown(epoch, now) ==
    LET excess == Since(Since(now, epoch.last_feedback_at), epoch.expected_rtt)
    IN [num |-> 2 ^ (excess \div epoch.expected_rtt)
                  * (epoch.expected_rtt + (excess % epoch.expected_rtt)),
        den |-> epoch.expected_rtt]

Slowed(rate, slowdown) == [num |-> rate.num * slowdown.den, den |-> rate.den * slowdown.num]

\* The floor slows nobody down who was slower without it.
Floored(rate, decayed) ==
    IF ~SlowerThan(decayed, Slowest) THEN decayed
    ELSE IF SlowerThan(rate, Slowest) THEN rate
    ELSE Slowest

Decayed(rate, epoch, now) ==
    IF epoch = None THEN rate
    ELSE Floored(rate, Slowed(rate, Slowdown(epoch, now)))

EffectiveRate(c, now) ==
    Decayed(PerturbedRate(Expire(c.probe, now), BaseRate(c)), c.feedback_epoch, now)
-------------------------------------------------------------------------------
(* The virtual queue.                                                          *)

Queued(c) == Len(c.pending)
MaySchedule(c) == Queued(c) < QueueCapacity
Ids(c) == {c.pending[i].id : i \in 1 .. Queued(c)}
\* A slip: the cap compared with > instead of >=.
InflightOver(c) == c.inflight > MaxInflight
InflightFull(c) == c.inflight >= MaxInflight
Position(c, id) == CHOOSE i \in 1 .. Queued(c) : c.pending[i].id = id
HeadIs(c, id) == Queued(c) > 0 /\ c.pending[1].id = id

NextVirtualSlot(c, now) ==
    Later(IF Queued(c) = 0 THEN NextAt(c.pacer, now)
          ELSE SaturatingAdd(c.pending[Queued(c)].scheduled_at, c.pacer.interval), now)

\* One interval apart from the first slot the pacer allows: adding the interval
\* i - 1 times with saturation is adding its multiple with saturation.
Slot(pacer, i, now) == SaturatingAdd(NextAt(pacer, now), (i - 1) * pacer.interval)

RebuildVirtualQueue(c, now) ==
    [c EXCEPT !.pending =
        [i \in 1 .. Queued(c) |-> [@[i] EXCEPT !.scheduled_at = Slot(c.pacer, i, now)]]]

\* A slip: the rate changes and the queue keeps the old slots.
UpdateRateKeepingSlots(c, now) ==
    [c EXCEPT !.probe = Expire(@, now),
              !.pacer = SetRate(c.pacer, EffectiveRate(c, now), now)]

\* The queue follows the pacer when the interval changed or the head's slot is
\* one the pacer no longer gives out.
Follow(c, pacer, now) ==
    IF \/ pacer.interval # c.pacer.interval
       \/ Queued(c) > 0 /\ c.pending[1].scheduled_at < NextAt(pacer, now)
    THEN [RebuildVirtualQueue([c EXCEPT !.pacer = pacer], now) EXCEPT !.changes.dispatch = TRUE]
    ELSE [c EXCEPT !.pacer = pacer]

UpdateRate(c, now) ==
    Follow([c EXCEPT !.probe = Expire(@, now)],
           SetRate(c.pacer, EffectiveRate(c, now), now), now)
-------------------------------------------------------------------------------
HasDemand(c) == c.latency.sampled \/ (c.inflight > 0 /\ Queued(c) > 0)

NextDispatchRefreshAt(c) ==
    IF c.probe.active # None THEN c.probe.active.until
    ELSE IF HasDemand(c) THEN c.probe.next_probe_at
    ELSE None

\* What the random source can give a refresh: it is consulted only when a
\* decision is due.
DecisionDue(c, now) ==
    LET probe == Expire(c.probe, now) IN
    /\ HasDemand(c)
    /\ probe.active = None
    /\ probe.next_probe_at = None \/ probe.next_probe_at <= now

Draws(c, now) == IF DecisionDue(c, now) THEN Draw
                 ELSE {[kind |-> "none", interval |-> MinProbeInterval]}

Probed(c, draw, now) ==
    [c EXCEPT !.probe = Expire(IF HasDemand(c) THEN MaybeStart(@, draw, now) ELSE @, now)]

\* A slip: a moved probe decision goes unannounced.
RefreshUnannounced(c, draw, now) == UpdateRate(Probed(c, draw, now), now)

Announced(before, after) ==
    [after EXCEPT !.changes.dispatch =
        @ \/ NextDispatchRefreshAt(before) # NextDispatchRefreshAt(after)]

Refresh(c, draw, now) == Announced(c, UpdateRate(Probed(c, draw, now), now))

\* load() and predicted_completion() refresh and read.
PredictedCompletion(c, now) ==
    SaturatingAdd(NextVirtualSlot(c, now), ExpectedOf(c.latency))

\* take_changes() returns c.changes.
TakeChanges(c) == [c EXCEPT !.changes = NoChanges]
-------------------------------------------------------------------------------
NewController(id, now) ==
    [controller_id |-> id, latency |-> NewEstimator, gradient |-> NewLimiter,
     pacer |-> NewPacer([num |-> InitialLimit, den |-> ONE * ExpectedRtt], now),
     probe |-> NewProbe, pending |-> <<>>, next_id |-> 0, inflight |-> 0,
     feedback_epoch |-> None, changes |-> NoChanges]

ControllerOf(id) ==
    [controller_id : {id}, latency : Estimator, gradient : Limiter, pacer : Pacer,
     probe : Probing, pending : Seq(Pending), next_id : 0 .. MaxId, inflight : Nat,
     feedback_epoch : FeedbackEpoch \cup {None}, changes : Changes]

\* Each slot keeps its distance from the committed TAT and from the one before.
Paced(c) ==
    /\ \A i \in 1 .. Queued(c) :
          c.pending[i].scheduled_at >= SaturatingAdd(c.pacer.tat, (i - 1) * c.pacer.interval)
    /\ \A i \in 1 .. Queued(c) - 1 :
          c.pending[i + 1].scheduled_at >=
            SaturatingAdd(c.pending[i].scheduled_at, c.pacer.interval)

\* Otherwise reserve() answers QueueFull or IdExhausted.
CanReserve(c) == MaySchedule(c) /\ c.next_id # MaxId

\* A slip: the position in the queue taken for an identity.
ReserveByPosition(c, now) ==
    IF ~CanReserve(c) THEN c
    ELSE [c EXCEPT !.next_id = @ + 1,
                   !.pending = Append(@, [id |-> Queued(c),
                                          scheduled_at |-> NextVirtualSlot(c, now),
                                          was_paced |-> FALSE])]

Reserve(c, now) ==
    IF ~CanReserve(c) THEN c
    ELSE [c EXCEPT !.next_id = @ + 1,
                   !.pending = Append(@, [id |-> c.next_id,
                                          scheduled_at |-> NextVirtualSlot(c, now),
                                          was_paced |-> FALSE])]

\* The instant a waiting head must be looked at again, if nothing happens first.
Never == MaxInstant + 1
HeadDue(c) ==
    LET refresh_at == NextDispatchRefreshAt(c)
        slot == c.pending[1].scheduled_at
    IN IF InflightFull(c) THEN Never
       ELSE IF refresh_at = None THEN slot ELSE Earlier(slot, refresh_at)

\* A slip: the owner is not compared.
OwnsAny(c, token) == TRUE

\* A reservation or a request in flight is this controller's own.
Owns(c, token) == token.controller_id = c.controller_id

\* A slip: the requests behind the hole keep their slots.
CancelKeepingSlots(c, reservation, now) ==
    IF ~Owns(c, reservation) \/ reservation.id \notin Ids(c) THEN c
    ELSE [c EXCEPT !.pending = RemoveAt(@, Position(c, reservation.id)),
                   !.changes = [admission |-> TRUE, dispatch |-> TRUE]]

\* A slip: the hole is closed but nobody is told.
CancelUnannounced(c, reservation, now) ==
    IF ~Owns(c, reservation) \/ reservation.id \notin Ids(c) THEN c
    ELSE RebuildVirtualQueue(
           [c EXCEPT !.pending = RemoveAt(@, Position(c, reservation.id))], now)

\* A foreign or spent reservation removes nothing.
Cancel(c, reservation, now) ==
    IF ~Owns(c, reservation) \/ reservation.id \notin Ids(c) THEN c
    ELSE RebuildVirtualQueue(
           [c EXCEPT !.pending = RemoveAt(@, Position(c, reservation.id)),
                     !.changes = [admission |-> TRUE, dispatch |-> TRUE]], now)

\* What the refreshed head is told; a wait marks it as paced.
Verdict(fresh, now) ==
    LET slot == fresh.pending[1].scheduled_at
        refresh_at == NextDispatchRefreshAt(fresh)
        wake_at == IF refresh_at = None THEN slot ELSE Earlier(slot, refresh_at)
    IN IF InflightFull(fresh) THEN [ctl |-> fresh, answer |-> Plain("InflightLimit")]
       ELSE IF slot > now
       THEN [ctl |-> [fresh EXCEPT !.pending[1].was_paced = TRUE],
             answer |-> [tag |-> "WaitUntil", at |-> wake_at]]
       ELSE [ctl |-> fresh, answer |-> Plain("Ready")]

\* dispatch_state(): only the head refreshes.
Check(c, reservation, draw, now) ==
    IF ~Owns(c, reservation) \/ reservation.id \notin Ids(c)
    THEN [ctl |-> c, answer |-> Plain("Cancelled")]
    ELSE IF ~HeadIs(c, reservation.id)
    THEN [ctl |-> c, answer |-> Plain("WaitForPrevious")]
    ELSE Verdict(Refresh(c, draw, now), now)

NewEpoch(c, now) ==
    [last_feedback_at |-> now, expected_rtt |-> ExpectedOf(c.latency)]

\* A slip: every dispatch counts as a sign of life.
LaunchRestartingClock(c, now) ==
    RebuildVirtualQueue(
      [c EXCEPT !.pending = Tail(@),
                !.feedback_epoch = NewEpoch(c, now),
                !.inflight = @ + 1,
                !.changes = [admission |-> TRUE, dispatch |-> TRUE],
                !.pacer = Commit(@, now)], now)

\* The head leaves the queue, commits its slot at the instant it really goes
\* out, and starts the feedback clock if nothing was in flight.
Launch(c, now) ==
    RebuildVirtualQueue(
      [c EXCEPT !.pending = Tail(@),
                !.feedback_epoch = IF c.inflight = 0 THEN NewEpoch(c, now) ELSE @,
                !.inflight = @ + 1,
                !.changes = [admission |-> TRUE, dispatch |-> TRUE],
                !.pacer = Commit(@, now)], now)

\* The token of the dispatched request; its identity, here the id of the
\* reservation it came from, is that of the Rust value, which cannot be cloned.
InFlightToken(c, now) ==
    [controller_id |-> c.controller_id, id |-> c.pending[1].id,
     dispatched_at |-> now, was_paced |-> c.pending[1].was_paced]

Claim(checked, now) ==
    IF checked.answer.tag # "Ready"
    THEN [ctl |-> checked.ctl, answer |-> checked.answer, token |-> None]
    ELSE [ctl |-> Launch(checked.ctl, now), answer |-> checked.answer,
          token |-> InFlightToken(checked.ctl, now)]

OnDispatched(c, reservation, draw, now) == Claim(Check(c, reservation, draw, now), now)
-------------------------------------------------------------------------------
Learned(c, observed, token, now) ==
    [c EXCEPT !.latency = observed,
              !.gradient = OnRtt(@, observed.short, Baseline(observed), c.inflight,
                                 token.was_paced, now)]

Ended(c) == [c EXCEPT !.inflight = @ - 1, !.changes.dispatch = TRUE]

\* A response, good or bad, is feedback: the clock of silence starts again.
Responded(c, now) ==
    UpdateRate([c EXCEPT !.feedback_epoch =
                  IF c.inflight > 0 THEN NewEpoch(c, now) ELSE None], now)

OnComplete(c, token, success, latency, now) ==
    IF ~Owns(c, token) THEN c
    ELSE IF success
    THEN Responded(Ended(Learned(c, ObserveAt(c.latency, latency, now), token, now)), now)
    ELSE Responded(Ended([c EXCEPT !.gradient = OnFailure(@, now)]), now)

\* A slip: giving up restarts the clock of silence.
OnAbandonedAsFeedback(c, token, now) ==
    IF ~Owns(c, token) THEN c
    ELSE UpdateRate(
           [c EXCEPT !.gradient = OnFailure(@, now), !.inflight = @ - 1,
                     !.changes.dispatch = TRUE,
                     !.feedback_epoch = IF c.inflight = 1 THEN None ELSE NewEpoch(c, now)], now)

\* Giving up on a request is not feedback while others are in flight.
OnAbandoned(c, token, now) ==
    IF ~Owns(c, token) THEN c
    ELSE UpdateRate(
           [c EXCEPT !.gradient = OnFailure(@, now), !.inflight = @ - 1,
                     !.changes.dispatch = TRUE,
                     !.feedback_epoch = IF c.inflight = 1 THEN None ELSE @], now)

\* finish(): RTT counts from the dispatch.
Finish(c, token, completion, now) ==
    CASE completion = "Abandoned" -> OnAbandoned(c, token, now)
      [] completion \in {"Success", "Failure"} ->
           OnComplete(c, token, completion = "Success", Since(now, token.dispatched_at), now)

OnAdmissionFailure(c, now) ==
    UpdateRate([c EXCEPT !.gradient = OnFailure(@, now)], now)
===============================================================================
