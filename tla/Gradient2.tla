------------------------------- MODULE Gradient2 -------------------------------
(* The congestion controller: a fractional concurrency limit that RTT samples  *)
(* move by a bounded step and failures cut, at most one healthy change per     *)
(* update interval.  The diagnostics last_gradient and updates are left out:   *)
(* nothing reads them back.                                                    *)
EXTENDS EndpointConfig

Limiter == [concurrency : MinLimit .. MaxLimit,
            next_update_at : Instant \cup {None}]

NewLimiter == [concurrency |-> InitialLimit, next_update_at |-> None]

\* A slip: repeated failures may take the limit to zero.
CapLimit(limit) == Earlier(limit, MaxLimit)

ClampLimit(limit) == Clamp(limit, MinLimit, MaxLimit)

\* An idle pacer, or fewer requests in flight than half the limit: the sample
\* says how little was asked of the endpoint, not what it can do.
ApplicationLimited(limiter, inflight, was_paced) ==
    ~was_paced \/ 2 * ONE * inflight < limiter.concurrency

\* concurrency * clamp(tolerated / current, 0.5, 1)
Graded(concurrency, tolerated, current) ==
    IF tolerated >= current THEN concurrency
    ELSE IF 2 * tolerated <= current THEN Nearest(concurrency, 2)
    ELSE Nearest(concurrency * tolerated, current)

\* smoothing: 0.2
Smoothed(concurrency, estimate) == Nearest(4 * concurrency + estimate, 5)

OnRtt(limiter, current, reference, inflight, was_paced, now) ==
    LET early == limiter.next_update_at # None /\ now < limiter.next_update_at
        estimate == Graded(limiter.concurrency, reference + QueueTolerance, current) + Gain
    IN IF ApplicationLimited(limiter, inflight, was_paced) \/ early
       THEN limiter
       ELSE [concurrency |-> ClampLimit(Smoothed(limiter.concurrency, estimate)),
             next_update_at |-> SaturatingAdd(now, UpdateInterval)]

\* A slip: a failure does not hold back the next healthy change.
OnFailureUnheld(limiter, now) ==
    [limiter EXCEPT !.concurrency = ClampLimit(Nearest(7 * @, 10))]

\* failure_factor: 0.7
OnFailure(limiter, now) ==
    [concurrency |-> ClampLimit(Nearest(7 * limiter.concurrency, 10)),
     next_update_at |-> SaturatingAdd(now, UpdateInterval)]
===============================================================================
