----------------------------- MODULE TowerEndpoint -----------------------------
(* The Tower adapter: one owner asks for admission with poll_ready and makes   *)
(* requests with call, each of which is a future with a life of its own.  A    *)
(* future whose turn has come waits for the inner service, which all futures   *)
(* share behind an async lock, to be ready before it dispatches; if the inner  *)
(* service fails instead, the endpoint is closed for good.                     *)
EXTENDS Controller

CONSTANTS
    Poller,         \* the contexts poll_ready may be called from
    Completion,     \* how dispatched requests may end
    LastCallAt,     \* bound: nobody calls later
    MaxTime         \* bound: the clock stops here

ASSUME TowerAssumption ==
    /\ None \notin Poller
    /\ Completion \subseteq {"Success", "Failure"}
    /\ LastCallAt \in Instant
    /\ MaxTime \in Instant

VARIABLES
    ctl,                \* the controller
    admission_waker,    \* the context to wake when a place is free
    failed,             \* what the adapter knows of the inner service
    inner_failed,       \* what is the case
    service,            \* the future that holds the async lock
    owner,              \* what the owner was last told by poll_ready
    request,            \* where each future is, and its PendingRequest
    now                 \* Tokio's clock

state == <<ctl, admission_waker, failed>>
vars == <<state, inner_failed, service, owner, request, now>>

\* Futures are numbered in the order of their calls, like their reservations.
Future == 0 .. MaxId - 1

(* Where a future is:                                                          *)
(*   none         not made yet                                                 *)
(*   fresh        made by call, never polled                                   *)
(*   check        registered, about to lock the controller                     *)
(*   looked       unlocked again, about to suspend                             *)
(*   timed        asleep in timeout                                            *)
(*   parked       asleep on the Notify alone                                   *)
(*   lock         told Ready, awaits the lock of the inner service             *)
(*   locked       holds it and has not looked whether the endpoint is closed   *)
(*   polling      awaits the readiness of the inner service                    *)
(*   error        the inner service has failed in its hands                    *)
(*   closing      has told the controller                                      *)
(*   claim        the inner service is ready, about to dispatch                *)
(*   retry        the turn was gone, will wait for it again                    *)
(*   dispatched   has dispatched and not called the inner service yet          *)
(*   active       awaits its response                                          *)
(*   leaving      will finish and has not read the clock for it                *)
(*   end          has read the clock, about to lock                            *)
(*   done         finished                                                     *)
Asleep == {"timed", "parked"}
Suspended == Asleep \cup {"fresh", "lock", "polling", "active"}
Stage == Suspended \cup {"none", "check", "looked", "locked", "error", "closing", "claim",
                         "retry", "dispatched", "leaving", "end", "done"}

\* guard is RequestState; waking and notifying are what with_controller has still
\* to deliver.
Vacant == [pc |-> "none", guard |-> "Finished", token |-> None, read |-> None,
          deadline |-> None, completion |-> None, woken |-> FALSE,
          waking |-> None, notifying |-> FALSE]

Init ==
    /\ ctl = NewController("self", 0)
    /\ admission_waker = None
    /\ failed = FALSE
    /\ inner_failed = FALSE
    /\ service = None
    /\ owner = [asked |-> None, woken |-> FALSE, granted |-> FALSE, notifying |-> FALSE]
    /\ request = [f \in Future |-> Vacant]
    /\ now = 0

Owes(f) == request[f].waking # None \/ request[f].notifying
At(f, pc) == request[f].pc = pc /\ ~Owes(f)

\* Future f goes on in `next`.
Goes(f, next) == request' = [request EXCEPT ![f] = next]

\* The async lock is given back by whoever holds it.
Release(f) == service' = IF service = f THEN None ELSE service

\* with_controller: the section leaves `after`; a change of admission takes the
\* waker.
WithController(f, after, next) ==
    /\ ctl' = TakeChanges(after)
    /\ admission_waker' = IF after.changes.admission THEN None ELSE admission_waker
    /\ Goes(f, [next EXCEPT !.waking = IF after.changes.admission THEN admission_waker ELSE None,
                            !.notifying = after.changes.dispatch])
-------------------------------------------------------------------------------
(* The owner.                                                                  *)

\* A slip: a waker that is already there is kept.
PollReadyKeepingWaker(context) ==
    /\ ~owner.notifying
    /\ LET free == MaySchedule(ctl) /\ ~failed
       IN /\ admission_waker' = IF failed \/ (~free /\ admission_waker # None) THEN admission_waker
                                ELSE IF free THEN None ELSE context
          /\ owner' = [owner EXCEPT !.granted = free, !.woken = FALSE,
                                    !.asked = IF free \/ failed THEN None ELSE context]
    /\ UNCHANGED <<ctl, failed, inner_failed, service, request, now>>

\* A slip: readiness is judged by the requests in flight.
PollReadyByFlight(context) ==
    /\ ~owner.notifying
    /\ LET free == ~InflightFull(ctl) /\ ~failed
       IN /\ admission_waker' = IF failed THEN admission_waker ELSE IF free THEN None ELSE context
          /\ owner' = [owner EXCEPT !.granted = free, !.woken = FALSE,
                                    !.asked = IF free \/ failed THEN None ELSE context]
    /\ UNCHANGED <<ctl, failed, inner_failed, service, request, now>>

\* poll_ready(): an error, a grant, or Pending with the waker of this very poll.
PollReady(context) ==
    /\ ~owner.notifying
    /\ LET free == MaySchedule(ctl) /\ ~failed
       IN /\ admission_waker' = IF failed THEN admission_waker ELSE IF free THEN None ELSE context
          /\ owner' = [owner EXCEPT !.granted = free, !.woken = FALSE,
                                    !.asked = IF free \/ failed THEN None ELSE context]
    /\ UNCHANGED <<ctl, failed, inner_failed, service, request, now>>

\* call(): reserves in the name of a new future, unless the endpoint was closed
\* since readiness was granted.
Call ==
    /\ owner.granted /\ ~owner.notifying
    /\ now <= LastCallAt /\ ctl.next_id # MaxId
    /\ owner' = [owner EXCEPT !.granted = FALSE]
    /\ IF failed THEN UNCHANGED <<ctl, request>>
       ELSE /\ ctl' = Reserve(ctl, now)
            /\ Goes(ctl.next_id,
                    [Vacant EXCEPT !.pc = "fresh", !.guard = "Queued",
                                  !.token = [controller_id |-> "self", id |-> ctl.next_id]])
    /\ UNCHANGED <<admission_waker, failed, inner_failed, service, now>>

\* load_metric() and snapshot()
ReadMetric ==
    /\ ~owner.notifying
    /\ \E after \in {Refresh(ctl, draw, now) : draw \in Draws(ctl, now)} :
          /\ ctl' = TakeChanges(after)
          /\ owner' = [owner EXCEPT !.notifying = after.changes.dispatch]
    /\ UNCHANGED <<admission_waker, failed, inner_failed, service, request, now>>
-------------------------------------------------------------------------------
(* wait_until_dispatchable                                                     *)

\* A slip: the deadline of a wait is not armed.
AwakeWhenNotified(f) ==
    \/ At(f, "fresh")
    \/ At(f, "retry")
    \/ request[f].pc \in Asleep /\ request[f].woken

\* Why a future is polled with something to do, or goes on at once.
Awake(f) ==
    \/ At(f, "fresh")
    \/ At(f, "retry")
    \/ request[f].pc \in Asleep /\ request[f].woken
    \/ request[f].pc = "timed" /\ request[f].deadline <= now

\* enable() comes before the look.
Register(f) ==
    /\ Awake(f)
    /\ Goes(f, [request[f] EXCEPT !.pc = "check", !.woken = FALSE, !.deadline = None])
    /\ UNCHANGED <<state, inner_failed, service, owner, now>>

\* What a future does with the answer: one that holds the inner service is back
\* in the loop of start().
Told(f, answer) ==
    [request[f] EXCEPT
        !.pc = IF answer.tag # "Ready" THEN "looked" ELSE IF service = f THEN "claim" ELSE "lock",
        !.deadline = answer.at]

\* The effects a waiter caused are dropped.
Inspect(f) ==
    /\ request[f].pc = "check" /\ ~failed
    /\ \E checked \in {Check(ctl, request[f].token, draw, now) : draw \in Draws(ctl, now)} :
          /\ ctl' = TakeChanges(checked.ctl)
          /\ Goes(f, Told(f, checked.answer))
    /\ UNCHANGED <<admission_waker, failed, inner_failed, service, owner, now>>

\* Only WaitUntil comes with a deadline.
Suspend(f) ==
    /\ request[f].pc = "looked"
    /\ Goes(f, [request[f] EXCEPT !.pc = IF request[f].deadline = None THEN "parked"
                                        ELSE "timed"])
    /\ UNCHANGED <<state, inner_failed, service, owner, now>>

Leaving(f, completion) ==
    [request[f] EXCEPT !.pc = "leaving", !.completion = completion, !.deadline = None,
                       !.woken = FALSE]

\* The endpoint turns out to be closed, in the wait, behind the async lock, or by
\* this very future; the lock is given back on the way out.
ReturnError(f) ==
    /\ \/ request[f].pc \in {"check", "locked"} /\ failed
       \/ At(f, "closing")
    /\ Goes(f, Leaving(f, "Failure"))
    /\ Release(f)
    /\ UNCHANGED <<state, inner_failed, owner, now>>
-------------------------------------------------------------------------------
(* start                                                                       *)

LockService(f) ==
    /\ request[f].pc = "lock" /\ service = None
    /\ service' = f
    /\ Goes(f, [request[f] EXCEPT !.pc = "locked"])
    /\ UNCHANGED <<state, inner_failed, owner, now>>

PollInner(f) ==
    /\ request[f].pc = "locked" /\ ~failed
    /\ Goes(f, [request[f] EXCEPT !.pc = "polling"])
    /\ UNCHANGED <<state, inner_failed, service, owner, now>>

\* The inner service answers, now or after having been Pending.
InnerAnswers(f, outcome) ==
    /\ request[f].pc = "polling"
    /\ inner_failed' = (inner_failed \/ outcome = "error")
    /\ Goes(f, [request[f] EXCEPT !.pc = outcome])
    /\ UNCHANGED <<state, service, owner, now>>

\* A slip: the error is returned to this caller and nobody else learns of it.
PublishFailureQuietly(f) ==
    /\ request[f].pc = "error"
    /\ ctl' = TakeChanges(OnAdmissionFailure(ctl, now))
    /\ Goes(f, [request[f] EXCEPT !.pc = "closing"])
    /\ UNCHANGED <<admission_waker, failed, inner_failed, service, owner, now>>

\* Closure is published while the async lock is held; everybody is told,
\* whatever the controller asks for.
PublishFailure(f) ==
    /\ request[f].pc = "error"
    /\ failed' = TRUE
    /\ ctl' = TakeChanges(OnAdmissionFailure(ctl, now))
    /\ admission_waker' = None
    /\ Goes(f, [request[f] EXCEPT !.pc = "closing", !.waking = admission_waker,
                                  !.notifying = TRUE])
    /\ UNCHANGED <<inner_failed, service, owner, now>>

\* on_dispatched() claims the turn, or the future waits for it again and keeps
\* the inner service ready.
BeginDispatch(f) ==
    /\ request[f].pc = "claim"
    /\ \E result \in {OnDispatched(ctl, request[f].token, draw, now) : draw \in Draws(ctl, now)} :
          WithController(f, result.ctl,
            IF result.answer.tag = "Ready"
            THEN [request[f] EXCEPT !.pc = "dispatched", !.guard = "InFlight",
                                    !.token = result.token]
            ELSE [request[f] EXCEPT !.pc = "retry"])
    /\ UNCHANGED <<failed, inner_failed, service, owner, now>>

\* The inner service is called and its lock given back.
CallInner(f) ==
    /\ At(f, "dispatched")
    /\ Goes(f, [request[f] EXCEPT !.pc = "active"])
    /\ Release(f)
    /\ UNCHANGED <<state, inner_failed, owner, now>>
-------------------------------------------------------------------------------
(* The end of a request.                                                       *)

\* The response arrives.
Respond(f, completion) ==
    /\ At(f, "active")
    /\ Goes(f, Leaving(f, completion))
    /\ UNCHANGED <<state, inner_failed, service, owner, now>>

\* A future can be dropped wherever it is suspended; the async lock, or its
\* place among those who wait for it, goes before the PendingRequest.
Drop(f) ==
    /\ request[f].pc \in Suspended
    /\ Goes(f, Leaving(f, "Abandoned"))
    /\ Release(f)
    /\ UNCHANGED <<state, inner_failed, owner, now>>

\* finish() and Drop read the clock before they lock.
ReadClock(f) ==
    /\ request[f].pc = "leaving"
    /\ Goes(f, [request[f] EXCEPT !.pc = "end", !.read = now])
    /\ UNCHANGED <<state, inner_failed, service, owner, now>>

\* A slip: a request that was never dispatched has nothing to give back.
FinishForgetful(f) ==
    /\ request[f].pc = "end"
    /\ WithController(f, IF request[f].guard = "InFlight"
                         THEN Finish(ctl, request[f].token, request[f].completion, request[f].read)
                         ELSE ctl, [Vacant EXCEPT !.pc = "done"])
    /\ UNCHANGED <<failed, inner_failed, service, owner, now>>

\* A slip: the state is not replaced by Finished, so Drop finishes it again.
FinishTwice(f) ==
    /\ request[f].pc = "end"
    /\ WithController(f, IF request[f].guard = "InFlight"
                         THEN Finish(ctl, request[f].token, request[f].completion, request[f].read)
                         ELSE Cancel(ctl, request[f].token, request[f].read),
                      IF request[f].completion = "Abandoned" THEN [Vacant EXCEPT !.pc = "done"]
                      ELSE [request[f] EXCEPT !.completion = "Abandoned"])
    /\ UNCHANGED <<failed, inner_failed, service, owner, now>>

\* PendingRequest::finish(): what was dispatched ends, what was queued is
\* cancelled.
FinishPending(f) ==
    /\ request[f].pc = "end"
    /\ WithController(f, IF request[f].guard = "InFlight"
                         THEN Finish(ctl, request[f].token, request[f].completion, request[f].read)
                         ELSE Cancel(ctl, request[f].token, request[f].read),
                      [Vacant EXCEPT !.pc = "done"])
    /\ UNCHANGED <<failed, inner_failed, service, owner, now>>
-------------------------------------------------------------------------------
(* Deliveries and time.                                                        *)

\* waker.wake() comes first.
WakeAdmission(f) ==
    /\ request[f].waking # None
    /\ owner' = [owner EXCEPT !.woken = @ \/ owner.asked = request[f].waking]
    /\ Goes(f, [request[f] EXCEPT !.waking = None])
    /\ UNCHANGED <<state, inner_failed, service, now>>

\* A slip: the Notify learns of a waiter when it suspends.
RegisteredAsleep(f) == request[f].pc \in Asleep

Registered(f) == request[f].pc \in Asleep \cup {"check", "looked"}

Notified(f) == IF Registered(f) THEN [request[f] EXCEPT !.woken = TRUE] ELSE request[f]

\* notify_waiters(), called by a future or by the owner.
Notify(f) ==
    /\ request[f].notifying /\ request[f].waking = None
    /\ request' = [[g \in Future |-> Notified(g)] EXCEPT ![f].notifying = FALSE]
    /\ UNCHANGED <<state, inner_failed, service, owner, now>>

NotifyByOwner ==
    /\ owner.notifying
    /\ owner' = [owner EXCEPT !.notifying = FALSE]
    /\ request' = [f \in Future |-> Notified(f)]
    /\ UNCHANGED <<state, inner_failed, service, now>>

Tick ==
    /\ now < MaxTime
    /\ now' = now + 1
    /\ UNCHANGED <<state, inner_failed, service, owner, request>>

Next ==
    \/ \E context \in Poller : PollReady(context)
    \/ Call
    \/ ReadMetric
    \/ \E f \in Future : Register(f)
    \/ \E f \in Future : Inspect(f)
    \/ \E f \in Future : Suspend(f)
    \/ \E f \in Future : ReturnError(f)
    \/ \E f \in Future : LockService(f)
    \/ \E f \in Future : PollInner(f)
    \/ \E f \in Future, outcome \in {"claim", "error"} : InnerAnswers(f, outcome)
    \/ \E f \in Future : PublishFailure(f)
    \/ \E f \in Future : BeginDispatch(f)
    \/ \E f \in Future : CallInner(f)
    \/ \E f \in Future, completion \in Completion : Respond(f, completion)
    \/ \E f \in Future : Drop(f)
    \/ \E f \in Future : ReadClock(f)
    \/ \E f \in Future : FinishPending(f)
    \/ \E f \in Future : WakeAdmission(f)
    \/ \E f \in Future : Notify(f)
    \/ NotifyByOwner
    \/ Tick

\* Future f has a step of its own to take: woken, in the middle of a poll, or
\* awaiting an inner service that answers or a lock that is free.
Runnable(f) ==
    \/ Awake(f)
    \/ request[f].pc \in {"check", "looked", "locked", "polling", "error", "claim",
                          "leaving", "end"}
    \/ request[f].pc = "lock" /\ service = None
    \/ At(f, "closing") \/ At(f, "dispatched") \/ At(f, "active")
    \/ Owes(f)

Runs(f) ==
    \/ request'[f].pc # request[f].pc
    \/ request'[f].waking # request[f].waking
    \/ request'[f].notifying # request[f].notifying

\* The runtime polls every future it woke and runs it up to its next suspension;
\* time passes; the inner service becomes ready or fails, and responds.  The
\* second conjunct is weak fairness of each future, with its ENABLED written out.
Fairness ==
    /\ WF_vars(Tick) /\ WF_vars(NotifyByOwner)
    /\ \A f \in Future : []<>~Runnable(f) \/ []<><<Runs(f)>>_vars

Spec == Init /\ [][Next]_vars
FairSpec == Spec /\ Fairness
-------------------------------------------------------------------------------
(* Properties.                                                                 *)

\* The controller, the clocks and the futures have their types.
TypeOK ==
    /\ ctl \in ControllerOf("self")
    /\ now \in Instant
    /\ failed \in BOOLEAN /\ inner_failed \in BOOLEAN
    /\ admission_waker \in Poller \cup {None}
    /\ service \in Future \cup {None}
    /\ owner \in [asked : Poller \cup {None}, woken : BOOLEAN, granted : BOOLEAN,
                  notifying : BOOLEAN]
    /\ DOMAIN request = Future
    /\ \A f \in Future :
          /\ request[f].pc \in Stage
          /\ request[f].guard \in {"Queued", "InFlight", "Finished"}
          /\ request[f].read \in Instant \cup {None}
          /\ request[f].deadline \in Instant \cup {None}
          /\ request[f].completion \in Completion \cup {"Failure", "Abandoned", None}
          /\ request[f].waking \in Poller \cup {None}

Guards(guard) == {f \in Future : request[f].guard = guard}

\* Wherever a future fails or is dropped, before its turn, behind the async lock
\* or holding a ready inner service, the controller counts what the futures
\* hold, and a live reservation is never told Cancelled (the panic! of
\* wait_until_dispatchable).
GuardsMatchController ==
    /\ Ids(ctl) = Guards("Queued")
    /\ Queued(ctl) = Cardinality(Guards("Queued"))
    /\ ctl.inflight = Cardinality(Guards("InFlight"))

\* A future that sleeps without being woken has nothing to do yet, or someone is
\* about to wake it; nobody sleeps through the closure of the endpoint.
NoLostWakeup ==
    \A f \in Future :
        request[f].pc \in Asleep /\ ~request[f].woken =>
            \/ owner.notifying \/ \E g \in Future : request[g].notifying
            \/ /\ ~failed
               /\ IF request[f].pc = "timed"
                  THEN request[f].deadline <= Later(now, HeadDue(ctl))
                  ELSE ~HeadIs(ctl, f) \/ InflightFull(ctl)

\* The owner whose last poll was Pending, from whatever context it polled, is
\* woken once a place is free or the endpoint is closed, however places and
\* pollers came and went meanwhile.
LastPollerIsWoken ==
    owner.asked # None /\ ~owner.woken =>
        \/ ~MaySchedule(ctl) /\ ~failed
        \/ \E f \in Future : request[f].waking = owner.asked

\* What poll_ready granted is still there when call comes for it, whatever the
\* futures did in between (the expect() of call).
GrantIsKept == owner.granted /\ ~failed => MaySchedule(ctl)

\* A failed inner service is never polled again, by those who were queued behind
\* the failure, waiting for its lock or admitted afterwards
\* (loadpace-tower/src/service.rs:416).
NeverPolledAgain == inner_failed => \A f \in Future : request[f].pc # "polling"

\* Every future that is kept alive ends, with a response or the shared error:
\* holding the inner service while waiting for a turn again blocks nobody for
\* ever.
EveryoneIsAnswered ==
    \A f \in Future : request[f].pc = "fresh" ~> request[f].pc = "done"
===============================================================================
