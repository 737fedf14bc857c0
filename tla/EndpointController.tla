-------------------------- MODULE EndpointController --------------------------
(* One controller and every legal way to drive it: callers that reserve,       *)
(* cancel, check, dispatch and finish in any order, with reservations that may *)
(* be stale (they are Copy in the code), and reservations and requests in      *)
(* flight that may be another controller's; readers of the load, transport     *)
(* failures, and a clock that advances between the calls.                      *)
(* Each action is one call under the lock that owns the controller.            *)
EXTENDS Controller

CONSTANTS
    MaxTime,             \* bound: the clock stops here
    MaxAdmissionFailures \* bound: transport failures in one behaviour

ASSUME BoundsAssumption ==
    /\ MaxTime \in Instant
    /\ MaxAdmissionFailures \in Nat

VARIABLES
    ctl,        \* the controller
    now,        \* the clock every call reads
    tokens,     \* the InFlightRequest values callers hold
    hist        \* history, see History: read by properties only

vars == <<ctl, now, tokens, hist>>

\* Every reservation a caller can present: its own, live or spent, or another
\* controller's.
Reservation == [controller_id : {"self"}, id : 0 .. MaxId - 1]
               \cup {[controller_id |-> "other", id |-> 0]}
Token == [controller_id : {"self"}, id : 0 .. MaxId - 1,
          dispatched_at : Instant, was_paced : BOOLEAN]
Completion == {"Success", "Failure", "Abandoned"}

\* A request in flight at another controller.
Foreign == [controller_id |-> "other", id |-> 0, dispatched_at |-> 0, was_paced |-> FALSE]

\* What really happened, kept apart from what the controller remembers of it.
History ==
    [heard_at : Instant \cup {None},     \* last response, or start of the busy period
     dispatched_at : Instant \cup {None},\* last dispatch
     spacing : Nat,                      \* least interval in force since then
     moved_at : Instant \cup {None},     \* last change of the limit
     admission_failures : Nat]

Init ==
    /\ ctl = NewController("self", 0)
    /\ now = 0
    /\ tokens = {}
    /\ hist = [heard_at |-> None, dispatched_at |-> None, spacing |-> 0, moved_at |-> None,
               admission_failures |-> 0]

\* History that follows from any change of the controller.
Noted(h, after) ==
    [h EXCEPT !.spacing = Earlier(@, after.pacer.interval),
              !.moved_at = IF after.gradient.concurrency # ctl.gradient.concurrency
                           THEN now ELSE @]

Drawn == Draws(ctl, now)

Call(after) ==
    /\ ctl' = after
    /\ UNCHANGED now
-------------------------------------------------------------------------------
ReserveSlot ==
    /\ Call(Reserve(ctl, now))
    /\ UNCHANGED <<tokens, hist>>

CancelReservation(r) ==
    /\ Call(Cancel(ctl, r, now))
    /\ UNCHANGED <<tokens, hist>>

CheckReservation(r, draw) ==
    \E checked \in {Check(ctl, r, draw, now)} :
    /\ Call(checked.ctl)
    /\ hist' = Noted(hist, checked.ctl)
    /\ UNCHANGED tokens

Dispatch(r, draw) ==
    \E result \in {OnDispatched(ctl, r, draw, now)} :
    /\ Call(result.ctl)
    /\ IF result.answer.tag # "Ready"
       THEN /\ hist' = Noted(hist, result.ctl)
            /\ UNCHANGED tokens
       ELSE /\ tokens' = tokens \cup {result.token}
            /\ hist' = [Noted(hist, result.ctl) EXCEPT
                          !.dispatched_at = now,
                          !.spacing = result.ctl.pacer.interval,
                          !.heard_at = IF tokens = {} THEN now ELSE @]

FinishRequest(t, completion) ==
    \E after \in {Finish(ctl, t, completion, now)} :
    /\ Call(after)
    /\ tokens' = tokens \ {t}
    /\ hist' = [Noted(hist, after) EXCEPT
                  !.heard_at = IF tokens = {t} THEN None
                               ELSE IF completion = "Abandoned" THEN @ ELSE now]

\* The caller finishes it with the wrong controller.
FinishForeign(completion) ==
    /\ Call(Finish(ctl, Foreign, completion, now))
    /\ UNCHANGED <<tokens, hist>>

AdmissionFailure ==
    LET after == OnAdmissionFailure(ctl, now) IN
    /\ hist.admission_failures < MaxAdmissionFailures
    /\ Call(after)
    /\ hist' = [Noted(hist, after) EXCEPT !.admission_failures = @ + 1]
    /\ UNCHANGED tokens

\* refresh(), load() and snapshot()
ReadLoad(draw) ==
    LET after == Refresh(ctl, draw, now) IN
    /\ Call(after)
    /\ hist' = Noted(hist, after)
    /\ UNCHANGED tokens

DrainChanges ==
    /\ Call(TakeChanges(ctl))
    /\ UNCHANGED <<tokens, hist>>

Tick ==
    /\ now < MaxTime
    /\ now' = now + 1
    /\ UNCHANGED <<ctl, tokens, hist>>

Next ==
    \/ ReserveSlot
    \/ \E r \in Reservation : CancelReservation(r)
    \/ \E r \in Reservation, draw \in Drawn : CheckReservation(r, draw)
    \/ \E r \in Reservation, draw \in Drawn : Dispatch(r, draw)
    \/ \E t \in tokens, completion \in Completion : FinishRequest(t, completion)
    \/ \E completion \in Completion : FinishForeign(completion)
    \/ AdmissionFailure
    \/ \E draw \in Drawn : ReadLoad(draw)
    \/ DrainChanges
    \/ Tick

Spec == Init /\ [][Next]_vars
-------------------------------------------------------------------------------
(* Properties.                                                                 *)

\* The controller, the clock, the tokens and the history have the shape of their
\* Rust types: instants stay representable, the limit keeps its bounds, the
\* interval stays positive.
TypeOK ==
    /\ ctl \in ControllerOf("self")
    /\ now \in Instant
    /\ tokens \subseteq Token
    /\ hist \in History

\* Slots never run ahead of the pacer: the i-th reservation waits for i - 1
\* intervals after the committed TAT, and one interval after the one before it,
\* whatever was cancelled, dispatched or re-rated since it was reserved.
QueueIsPaced == Paced(ctl)

\* Nor do they lag behind it: no reservation waits for requests that were
\* cancelled or for a rate that no longer holds (Cancel's promise that a hole
\* cannot permanently throttle the endpoint).
NoPhantomDebt ==
    \A i \in 1 .. Queued(ctl) : ctl.pending[i].scheduled_at <= Slot(ctl.pacer, i, now)

\* Reservations stand in the order of their ids; an id is never reused, so the
\* requests in flight have ids of their own, below those that still wait and
\* below the next to be given out.
QueueInOrder ==
    /\ \A i, j \in 1 .. Queued(ctl) : i < j => ctl.pending[i].id < ctl.pending[j].id
    /\ \A i \in 1 .. Queued(ctl) :
          /\ ctl.pending[i].id < ctl.next_id
          /\ \A t \in tokens : t.id < ctl.pending[i].id
    /\ \A t \in tokens : t.id < ctl.next_id
    /\ \A s, t \in tokens : s.id = t.id => s = t

\* The queue and the in-flight count keep their caps, and the count is that of
\* the tokens callers hold: completions, abandonments and foreign or spent
\* reservations never make the two drift apart.
CapsHold ==
    /\ Queued(ctl) <= QueueCapacity
    /\ ctl.inflight = Cardinality(tokens)
    /\ ctl.inflight <= MaxInflight

\* The clock of missing feedback runs exactly while requests are in flight; it
\* counts from the last real response, or from the dispatch that ended an idle
\* period, and its grace is the present RTT estimate.
SilenceIsMeasured ==
    IF tokens = {} THEN ctl.feedback_epoch = None
    ELSE ctl.feedback_epoch = [last_feedback_at |-> hist.heard_at,
                               expected_rtt |-> ExpectedOf(ctl.latency)]

\* A caller that checks now is told to wait for an instant that is still to
\* come: a dispatch loop never spins.
NoSpin ==
    \A r \in Reservation, draw \in Drawn :
        LET said == Check(ctl, r, draw, now).answer
        IN said.tag = "WaitUntil" => said.at > now

\* Refreshing twice at one instant is refreshing once: the second changes
\* nothing and raises no wakeup, so readers and sleepers cannot keep waking
\* each other while the clock stands still.
RefreshSettles ==
    \A first \in Drawn, second \in Draw :
        LET settled == TakeChanges(Refresh(ctl, first, now))
        IN Refresh(settled, second, now) = settled

\* No burst: two dispatches are at least the smallest interval that was in force
\* between them apart, however often the rate changed in between.
DispatchesAreSpaced ==
    [][ \A t \in tokens' \ tokens :
          hist.dispatched_at # None =>
            now - hist.dispatched_at >= Earlier(hist.spacing, ctl'.pacer.interval) ]_vars

\* No step makes a sleeper's wait obsolete without asking for its wakeup: a new
\* head, or a head that is not due yet and falls due sooner than before, raises
\* `dispatch`; a full queue that gains a place raises `admission`.
WakeupsAreRaised ==
    [][ /\ (/\ Queued(ctl) > 0 /\ Queued(ctl') > 0
            /\ \/ ctl'.pending[1].id # ctl.pending[1].id
               \/ Later(now, HeadDue(ctl')) < Later(now, HeadDue(ctl)))
           => ctl'.changes.dispatch
        /\ ~MaySchedule(ctl) /\ MaySchedule(ctl') => ctl'.changes.admission ]_vars

\* The pace quickens only on evidence: a response, the end of the last request
\* in flight, or a probe that starts or ends.  Silence, cancellations, failures
\* of the transport and readers never shorten the interval.
FasterOnlyOnEvidence ==
    [][ ctl'.pacer.interval < ctl.pacer.interval =>
          \/ \E t \in tokens : FinishRequest(t, "Success") \/ FinishRequest(t, "Failure")
          \/ tokens # {} /\ tokens' = {}
          \/ ctl'.probe.active # ctl.probe.active ]_vars

\* Healthy samples move the limit at most once per update interval, counted
\* from its last change whatever caused that.
LimitMovesSlowly ==
    [][ \A t \in tokens :
          /\ FinishRequest(t, "Success")
          /\ ctl'.gradient.concurrency # ctl.gradient.concurrency
          /\ hist.moved_at # None
          => now >= SaturatingAdd(hist.moved_at, UpdateInterval) ]_vars

\* The controller is a bounded first-come first-served dispatcher: pacing,
\* probes, estimates and the clock only decide when its steps happen.
Promise == INSTANCE BoundedDispatch WITH
    Request <- 0 .. MaxId - 1,
    Places <- QueueCapacity,
    Lanes <- MaxInflight,
    line <- [i \in 1 .. Queued(ctl) |-> ctl.pending[i].id],
    running <- {t.id : t \in tokens},
    past <- 0 .. ctl.next_id - 1

KeepsPromise == Promise!Spec
===============================================================================
