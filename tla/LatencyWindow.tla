----------------------------- MODULE LatencyWindow -----------------------------
(* The estimator by itself, driven by samples, silences and clocks that may be *)
(* older than the last one: what the ring of buckets remembers, compared with  *)
(* the samples that were really observed.                                      *)
EXTENDS Latency

CONSTANTS
    Sample,     \* the RTTs observed
    Staleness,  \* how old the clock of an observation may be
    MaxTime     \* bound: the clock stops here

ASSUME WindowAssumption ==
    /\ Sample \subseteq Nat \ {0}
    /\ Staleness \in Nat
    /\ MaxTime \in Instant

VARIABLES
    latency,    \* the estimator
    now,        \* the clock
    heard       \* the observations of the last window, as [at, rtt]

vars == <<latency, now, heard>>

Window == BaselineBuckets * BucketDuration

\* The instant the estimator has reached: that of its latest observation.
Reached == Max({0} \cup {h.at : h \in heard})

Init ==
    /\ latency = NewEstimator
    /\ now = 0
    /\ heard = {}

\* An observation whose clock is older than the latest one counts as made then;
\* observations that are out of every window are forgotten.
Remember(sample, at) ==
    LET known == heard \cup {[at |-> Later(at, Reached), rtt |-> Later(sample, MinRtt)]}
        reached == Max({h.at : h \in known})
    IN heard' = {h \in known : reached - h.at < Window}

Observe(sample, at) ==
    /\ latency' = ObserveAt(latency, sample, at)
    /\ Remember(sample, at)
    /\ UNCHANGED now

Tick ==
    /\ now < MaxTime
    /\ now' = now + 1
    /\ UNCHANGED <<latency, heard>>

Next ==
    \/ \E sample \in Sample, age \in 0 .. Staleness :
          age <= now /\ Observe(sample, now - age)
    \/ Tick

Spec == Init /\ [][Next]_vars
-------------------------------------------------------------------------------
(* Properties.                                                                 *)

Younger(age) == {h.rtt : h \in {g \in heard : Reached - g.at <= age}}

\* The baseline is a minimum of recent samples (docs/reference/controller.md,
\* "The minimum is maintained over a bounded eight-bucket baseline_window"):
\* none younger than all but one bucket of the window is missed, and none as old
\* as the window counts, however long the endpoint was silent in between.
BaselineIsRecentMinimum ==
    heard # {} =>
        /\ Baseline(latency) <= Min(Younger((BaselineBuckets - 1) * BucketDuration))
        /\ Baseline(latency) >= Min(Younger(Window - 1))
===============================================================================
