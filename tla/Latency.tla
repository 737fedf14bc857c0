-------------------------------- MODULE Latency --------------------------------
(* The RTT estimates: two exponentially weighted averages and the minimum of a *)
(* rolling window kept in a ring of buckets.  The averages are kept in whole   *)
(* ticks (the code keeps f64 seconds), the weights are 1/ShortWeight and       *)
(* 1/LongWeight.  Only whether a sample was seen matters of the sample count.  *)
EXTENDS EndpointConfig, FiniteSetsExt

CONSTANTS
    ShortWeight,        \* 1 / short_alpha
    LongWeight,         \* 1 / long_alpha
    MinRtt,             \* min_rtt
    BaselineBuckets,    \* BASELINE_BUCKETS
    BucketDuration      \* baseline_window / BASELINE_BUCKETS

\* What LatencyEstimator::new asserts.
ASSUME LatencyAssumption ==
    /\ ShortWeight \in Nat \ {0}
    /\ LongWeight \in Nat \ {0}
    /\ MinRtt \in Nat \ {0}
    /\ MinRtt <= ExpectedRtt
    /\ BaselineBuckets \in Nat \ {0}
    /\ BucketDuration \in Nat \ {0}

Bucket == 0 .. BaselineBuckets - 1

\* An empty bucket holds None, where the code has f64::INFINITY.
Estimator ==
    [short : Nat, long : Nat, baseline : Nat \cup {None},
     buckets : [Bucket -> Nat \cup {None}], bucket : Bucket,
     started : Instant \cup {None}, sampled : BOOLEAN]

EmptyBuckets == [b \in Bucket |-> None]

NewEstimator ==
    [short |-> ExpectedRtt, long |-> ExpectedRtt, baseline |-> None,
     buckets |-> EmptyBuckets, bucket |-> 0, started |-> None,
     sampled |-> FALSE]

Ewma(previous, sample, weight) ==
    Nearest((weight - 1) * previous + sample, weight)

ExpectedOf(latency) == Later(latency.long, MinRtt)

Baseline(latency) ==
    IF latency.baseline = None THEN Later(ExpectedRtt, MinRtt)
    ELSE Later(latency.baseline, MinRtt)

\* A slip: the window moves and what it passed is still there.
AdvanceKeepingPassed(latency, now) ==
    IF latency.started = None THEN [latency EXCEPT !.started = now]
    ELSE LET steps == Since(now, latency.started) \div BucketDuration
         IN [latency EXCEPT !.bucket = (@ + steps) % BaselineBuckets,
                            !.started = SaturatingAdd(@, BucketDuration * steps)]

\* Buckets the window has moved past are emptied; after a whole window of
\* silence the ring starts over.
AdvanceBaselineWindow(latency, now) ==
    IF latency.started = None THEN [latency EXCEPT !.started = now]
    ELSE LET steps == Since(now, latency.started) \div BucketDuration
             passed == {(latency.bucket + k) % BaselineBuckets : k \in 1 .. steps}
         IN IF steps >= BaselineBuckets
            THEN [latency EXCEPT !.buckets = EmptyBuckets, !.bucket = 0,
                                 !.started = now, !.baseline = None]
            ELSE [latency EXCEPT
                    !.buckets = [b \in Bucket |-> IF b \in passed THEN None ELSE @[b]],
                    !.bucket = (@ + steps) % BaselineBuckets,
                    !.started = SaturatingAdd(@, BucketDuration * steps)]

ObserveAt(latency, sample, now) ==
    LET value == Later(sample, MinRtt)
        moved == AdvanceBaselineWindow(latency, now)
        held == moved.buckets[moved.bucket]
        buckets == [moved.buckets EXCEPT
                      ![moved.bucket] = IF held = None THEN value
                                        ELSE Earlier(held, value)]
        seen == {buckets[b] : b \in Bucket} \ {None}
    IN [moved EXCEPT
          !.short = Ewma(@, value, ShortWeight),
          !.long = Ewma(@, value, LongWeight),
          !.buckets = buckets,
          !.baseline = Min(seen),
          !.sampled = TRUE]
===============================================================================
