--------------------------- MODULE ControllerProofs ---------------------------
(* What the arithmetic, the pacer, the estimator, the limiter and the probe    *)
(* return, for every value of the constants; and from that: every method of    *)
(* the controller maps a well-typed controller to a well-typed one, keeps the  *)
(* queue paced, and touches identities and counts only where it says so.       *)
EXTENDS Controller, WellFoundedInduction, SequenceTheorems, FiniteSetTheorems,
        FunctionTheorems, TLAPS

(* Arithmetic.                                                                 *)

\* Saturating addition stays representable and never moves an instant back.
LEMMA SaturatingAddFacts ==
    ASSUME NEW a \in Instant, NEW d \in Nat
    PROVE  /\ SaturatingAdd(a, d) \in Instant
           /\ SaturatingAdd(a, d) >= a
           /\ d > 0 => SaturatingAdd(a, d) > a \/ SaturatingAdd(a, d) = MaxInstant
    BY ConfigAssumption DEF SaturatingAdd, Earlier, Instant

\* It is monotone in the instant.
LEMMA SaturatingAddMonotone ==
    ASSUME NEW a \in Instant, NEW b \in Instant, NEW d \in Nat, a <= b
    PROVE  SaturatingAdd(a, d) <= SaturatingAdd(b, d)
    BY ConfigAssumption DEF SaturatingAdd, Earlier, Instant

\* Adding twice is adding the sum.
LEMMA SaturatingAddTwice ==
    ASSUME NEW a \in Instant, NEW d \in Nat, NEW e \in Nat
    PROVE  SaturatingAdd(SaturatingAdd(a, d), e) = SaturatingAdd(a, d + e)
    BY ConfigAssumption DEF SaturatingAdd, Earlier, Instant

LEMMA LaterInstant ==
    ASSUME NEW a \in Instant, NEW b \in Instant
    PROVE  /\ Later(a, b) \in Instant
           /\ Later(a, b) >= a
           /\ Later(a, b) >= b
    BY DEF Later, Instant

LEMMA SinceIsNat ==
    ASSUME NEW a \in Nat, NEW b \in Nat
    PROVE  Since(a, b) \in Nat
    BY DEF Since, Later

LEMMA NearestIsNat ==
    ASSUME NEW num \in Nat, NEW den \in Nat \ {0}
    PROVE  Nearest(num, den) \in Nat
    BY DEF Nearest

LEMMA ProductIsPositive ==
    ASSUME NEW a \in Nat \ {0}, NEW b \in Nat \ {0}
    PROVE  a * b \in Nat \ {0}
    OBVIOUS

\* Every non-empty set of natural numbers has the least element Min picks.
LEMMA MinOfNats ==
    ASSUME NEW S \in SUBSET Nat, S # {}
    PROVE  Min(S) \in S /\ \A x \in S : Min(S) <= x
    <1>1. PICK x \in S : \A y \in S : ~(<<y, x>> \in OpToRel(<, Nat))
        BY WFMin, NatLessThanWellFounded
    <1>2. ASSUME NEW y \in S, y < x
          PROVE  FALSE
        <2>1. <<y, x>> \in Nat \X Nat /\ <<y, x>>[1] < <<y, x>>[2]
            BY <1>2
        <2>2. <<y, x>> \in OpToRel(<, Nat)
            BY <2>1, Zenon DEF OpToRel
        <2> QED
            BY <1>1, <2>2
    <1>3. \A y \in S : x <= y
        BY <1>2
    <1> QED
        BY <1>3 DEF Min
-------------------------------------------------------------------------------
(* Powers of two, by counting subsets: adding an element to a set doubles them.*)

LEMMA PowerIsPositive ==
    ASSUME NEW n \in Nat
    PROVE  2 ^ n \in Nat \ {0}
    <1>1. IsFiniteSet(1 .. n) /\ Cardinality(1 .. n) = n
        BY FS_Interval
    <1>2. IsFiniteSet(SUBSET (1 .. n)) /\ Cardinality(SUBSET (1 .. n)) = 2 ^ n
        BY <1>1, FS_SUBSET
    <1>3. SUBSET (1 .. n) # {}
        OBVIOUS
    <1>4. Cardinality(SUBSET (1 .. n)) \in Nat /\ Cardinality(SUBSET (1 .. n)) # 0
        BY <1>2, <1>3, FS_CardinalityType, FS_EmptySet
    <1> QED
        BY <1>2, <1>4

LEMMA PowerDoubles ==
    ASSUME NEW n \in Nat
    PROVE  2 ^ (n + 1) = 2 * 2 ^ n
    <1> DEFINE old == SUBSET (1 .. n)
               grown == {s \cup {n + 1} : s \in old}
               grow == [s \in old |-> s \cup {n + 1}]
    <1>1. 1 .. n + 1 = (1 .. n) \cup {n + 1} /\ n + 1 \notin 1 .. n
        OBVIOUS
    <1>2. /\ IsFiniteSet(1 .. n) /\ Cardinality(1 .. n) = n
          /\ IsFiniteSet(1 .. n + 1) /\ Cardinality(1 .. n + 1) = n + 1
        BY FS_Interval
    <1>3. /\ IsFiniteSet(old) /\ Cardinality(old) = 2 ^ n
          /\ IsFiniteSet(SUBSET (1 .. n + 1)) /\ Cardinality(SUBSET (1 .. n + 1)) = 2 ^ (n + 1)
        BY <1>2, FS_SUBSET
    <1>4. SUBSET (1 .. n + 1) = old \cup grown
        <2>1. ASSUME NEW s \in SUBSET (1 .. n + 1), s \notin old
              PROVE  s \in grown
            <3>1. n + 1 \in s
                BY <1>1, <2>1
            <3>2. s \ {n + 1} \in old /\ s = (s \ {n + 1}) \cup {n + 1}
                BY <1>1, <3>1
            <3> QED
                BY <3>2
        <2>2. old \cup grown \in SUBSET SUBSET (1 .. n + 1)
            BY <1>1
        <2> QED
            BY <2>1, <2>2
    <1>5. old \cap grown = {}
        BY <1>1
    <1>6. grow \in Bijection(old, grown)
        <2>1. grow \in [old -> grown]
            OBVIOUS
        <2>2. \A s, t \in old : grow[s] = grow[t] => s = t
            BY <1>1
        <2>3. \A u \in grown : \E s \in old : grow[s] = u
            OBVIOUS
        <2> QED
            BY <2>1, <2>2, <2>3, Fun_IsBij
    <1> HIDE DEF old, grown, grow
    <1>7. IsFiniteSet(grown) /\ Cardinality(grown) = Cardinality(old)
        BY <1>3, <1>6, FS_Bijection DEF ExistsBijection
    <1>8. IsFiniteSet({}) /\ Cardinality({}) = 0
        BY FS_EmptySet
    <1>9. Cardinality(old \cup grown) =
            Cardinality(old) + Cardinality(grown) - Cardinality(old \cap grown)
        BY <1>3, <1>7, FS_Union
    <1>10. Cardinality(old) \in Nat /\ Cardinality(old \cap grown) = 0
        BY <1>3, <1>5, <1>8, FS_CardinalityType
    <1>11. Cardinality(old \cup grown) = Cardinality(old) + Cardinality(old) - 0
        BY <1>7, <1>9, <1>10
    <1>12. Cardinality(SUBSET (1 .. n + 1)) = Cardinality(old \cup grown)
        BY <1>4
    <1>13. 2 ^ (n + 1) = Cardinality(old) + Cardinality(old) - 0
        BY <1>3, <1>11, <1>12
    <1> QED
        BY <1>3, <1>10, <1>13

LEMMA PowerGrows ==
    ASSUME NEW m \in Nat, NEW n \in Nat, m <= n
    PROVE  2 ^ m <= 2 ^ n
    <1>1. /\ IsFiniteSet(1 .. m) /\ Cardinality(1 .. m) = m
          /\ IsFiniteSet(1 .. n) /\ Cardinality(1 .. n) = n
        BY FS_Interval
    <1>2. /\ Cardinality(SUBSET (1 .. m)) = 2 ^ m
          /\ IsFiniteSet(SUBSET (1 .. n)) /\ Cardinality(SUBSET (1 .. n)) = 2 ^ n
        BY <1>1, FS_SUBSET
    <1>3. SUBSET (1 .. m) \in SUBSET SUBSET (1 .. n)
        BY SMT
    <1> QED
        BY <1>2, <1>3, FS_Subset
-------------------------------------------------------------------------------
(* The pacer.                                                                  *)

Rate == [num : Nat \ {0}, den : Nat \ {0}]

LEMMA SetRateType ==
    ASSUME NEW pacer \in Pacer, NEW rate \in Rate, NEW now \in Instant
    PROVE  SetRate(pacer, rate, now) \in Pacer
    <1> DEFINE interval == RateToInterval(rate)
               wait == Since(pacer.tat, now)
               remaining == Nearest(wait * interval, pacer.interval)
    <1>1. interval \in Nat \ {0}
        BY NearestIsNat DEF RateToInterval, Rate, Later
    <1>2. wait \in Nat
        BY SinceIsNat DEF Pacer, Instant
    <1>3. wait * interval \in Nat
        BY <1>1, <1>2
    <1>4. remaining \in Nat
        BY <1>3, NearestIsNat DEF Pacer
    <1>5. SaturatingAdd(now, remaining) \in Instant
        BY <1>4, SaturatingAddFacts
    <1> HIDE DEF interval, remaining
    <1>6. [interval |-> interval, tat |-> SaturatingAdd(now, remaining)] \in Pacer
        BY <1>1, <1>5 DEF Pacer
    <1> QED
        BY <1>6 DEF SetRate, interval, remaining

\* A rate that changes nothing leaves the pacer alone, TAT included.
LEMMA SetRateSameInterval ==
    ASSUME NEW pacer, NEW rate, NEW now,
           SetRate(pacer, rate, now).interval = pacer.interval
    PROVE  SetRate(pacer, rate, now) = pacer
    BY DEF SetRate

LEMMA CommitType ==
    ASSUME NEW pacer \in Pacer, NEW at \in Instant
    PROVE  Commit(pacer, at) \in Pacer
    <1>1. NextAt(pacer, at) \in Instant
        BY LaterInstant DEF NextAt, Pacer
    <1>2. SaturatingAdd(NextAt(pacer, at), pacer.interval) \in Instant
        BY <1>1, SaturatingAddFacts DEF Pacer
    <1> QED
        BY <1>2 DEF Commit, Pacer
-------------------------------------------------------------------------------
(* The limiter.                                                                *)

LEMMA ClampLimitFacts ==
    ASSUME NEW limit \in Nat
    PROVE  ClampLimit(limit) \in MinLimit .. MaxLimit
    BY ConfigAssumption DEF ClampLimit, Clamp, Later, Earlier, MinLimit, MaxLimit, ONE

LEMMA OnFailureType ==
    ASSUME NEW limiter \in Limiter, NEW now \in Instant
    PROVE  OnFailure(limiter, now) \in Limiter
    <1>1. Nearest(7 * limiter.concurrency, 10) \in Nat
        BY NearestIsNat DEF Limiter, MinLimit, MaxLimit
    <1>2. SaturatingAdd(now, UpdateInterval) \in Instant
        BY SaturatingAddFacts, ConfigAssumption DEF UpdateInterval
    <1> QED
        BY <1>1, <1>2, ClampLimitFacts DEF OnFailure, Limiter

LEMMA OnRttType ==
    ASSUME NEW limiter \in Limiter, NEW current \in Nat, NEW reference \in Nat,
           NEW inflight \in Nat, NEW was_paced \in BOOLEAN, NEW now \in Instant
    PROVE  OnRtt(limiter, current, reference, inflight, was_paced, now) \in Limiter
    <1> DEFINE limit == limiter.concurrency
               tolerated == reference + QueueTolerance
               estimate == Graded(limit, tolerated, current) + Gain
    <1>1. limit \in Nat /\ tolerated \in Nat
        BY ConfigAssumption DEF Limiter, MinLimit, MaxLimit
    <1> HIDE DEF limit, tolerated
    <1>2. Graded(limit, tolerated, current) \in Nat
        <2>1. CASE tolerated >= current
            BY <1>1, <2>1 DEF Graded
        <2>2. CASE tolerated < current
            <3>1. Nearest(limit, 2) \in Nat
                BY <1>1, NearestIsNat
            <3>2. limit * tolerated \in Nat
                BY <1>1
            <3>3. Nearest(limit * tolerated, current) \in Nat
                BY <1>1, <2>2, <3>2, NearestIsNat
            <3> QED
                BY <1>1, <2>2, <3>1, <3>3 DEF Graded
        <2> QED
            BY <1>1, <2>1, <2>2
    <1>3. estimate \in Nat
        BY <1>2 DEF Gain
    <1> HIDE DEF estimate
    <1>4. Smoothed(limit, estimate) \in Nat
        BY <1>1, <1>3, NearestIsNat DEF Smoothed
    <1>5. ClampLimit(Smoothed(limit, estimate)) \in MinLimit .. MaxLimit
        BY <1>4, ClampLimitFacts
    <1>6. SaturatingAdd(now, UpdateInterval) \in Instant
        BY SaturatingAddFacts, ConfigAssumption DEF UpdateInterval
    <1> QED
        BY <1>5, <1>6 DEF OnRtt, Limiter, limit, tolerated, estimate
-------------------------------------------------------------------------------
(* The estimator.                                                              *)

LEMMA EwmaIsNat ==
    ASSUME NEW previous \in Nat, NEW sample \in Nat, NEW weight \in Nat \ {0}
    PROVE  Ewma(previous, sample, weight) \in Nat
    <1>1. (weight - 1) * previous \in Nat
        OBVIOUS
    <1>2. (weight - 1) * previous + sample \in Nat
        BY <1>1
    <1> QED
        BY <1>2, NearestIsNat DEF Ewma

LEMMA ExpectedIsPositive ==
    ASSUME NEW latency \in Estimator
    PROVE  ExpectedOf(latency) \in Nat \ {0}
    BY LatencyAssumption DEF ExpectedOf, Later, Estimator

LEMMA BaselineIsNat ==
    ASSUME NEW latency \in Estimator
    PROVE  Baseline(latency) \in Nat
    BY LatencyAssumption, ConfigAssumption DEF Baseline, Later, Estimator

LEMMA EmptyBucketsType == EmptyBuckets \in [Bucket -> Nat \cup {None}]
    BY DEF EmptyBuckets

\* The window ends the turn of the ring in a bucket of the ring.
LEMMA AdvanceType ==
    ASSUME NEW latency \in Estimator, NEW now \in Instant
    PROVE  AdvanceBaselineWindow(latency, now) \in Estimator
    <1>1. CASE latency.started = None
        BY <1>1 DEF AdvanceBaselineWindow, Estimator
    <1>2. CASE latency.started # None
        <2> DEFINE steps == Since(now, latency.started) \div BucketDuration
                   passed == {(latency.bucket + k) % BaselineBuckets : k \in 1 .. steps}
                   buckets == [b \in Bucket |-> IF b \in passed THEN None
                                                ELSE latency.buckets[b]]
                   bucket == (latency.bucket + steps) % BaselineBuckets
                   started == SaturatingAdd(latency.started, BucketDuration * steps)
        <2>1. latency.started \in Instant
            BY <1>2 DEF Estimator
        <2> HIDE DEF steps, passed, buckets, bucket, started
        <2>2. Since(now, latency.started) \in Nat
            BY <2>1 DEF Since, Later, Instant
        <2>3. steps \in Nat
            BY <2>2, LatencyAssumption DEF steps
        <2>4. buckets \in [Bucket -> Nat \cup {None}]
            BY DEF Estimator, buckets
        <2>5. bucket \in Bucket
            BY <2>3, LatencyAssumption DEF Bucket, Estimator, bucket
        <2>6. started \in Instant
            BY <2>1, <2>3, SaturatingAddFacts, LatencyAssumption DEF started
        <2>7. [latency EXCEPT !.buckets = buckets, !.bucket = bucket, !.started = started]
                \in Estimator
            BY <2>4, <2>5, <2>6 DEF Estimator
        <2>8. 0 \in Bucket
            BY LatencyAssumption DEF Bucket
        <2>9. [latency EXCEPT !.buckets = EmptyBuckets, !.bucket = 0,
                              !.started = now, !.baseline = None] \in Estimator
            BY <2>8, EmptyBucketsType DEF Estimator
        <2> QED
            BY <1>2, <2>7, <2>9
            DEF AdvanceBaselineWindow, steps, passed, buckets, bucket, started
    <1> QED
        BY <1>1, <1>2

LEMMA ObserveType ==
    ASSUME NEW latency \in Estimator, NEW sample \in Nat, NEW now \in Instant
    PROVE  ObserveAt(latency, sample, now) \in Estimator
    <1> DEFINE value == Later(sample, MinRtt)
               moved == AdvanceBaselineWindow(latency, now)
               held == moved.buckets[moved.bucket]
               here == IF held = None THEN value ELSE Earlier(held, value)
               buckets == [moved.buckets EXCEPT ![moved.bucket] = here]
               seen == {buckets[b] : b \in Bucket} \ {None}
    <1>1. value \in Nat
        BY LatencyAssumption DEF Later
    <1>2. moved \in Estimator
        BY AdvanceType
    <1> HIDE DEF value, moved
    <1>3. moved.buckets \in [Bucket -> Nat \cup {None}] /\ moved.bucket \in Bucket
        BY <1>2 DEF Estimator
    <1>4. here \in Nat
        BY <1>1, <1>3 DEF Earlier
    <1> HIDE DEF here
    <1>5. buckets \in [Bucket -> Nat \cup {None}] /\ buckets[moved.bucket] = here
        BY <1>3, <1>4
    <1> HIDE DEF buckets
    <1>6. seen \in SUBSET Nat
        BY <1>5
    <1>7. here \in seen
        BY <1>3, <1>4, <1>5, ConfigAssumption
    <1> HIDE DEF seen
    <1>8. Min(seen) \in Nat
        BY <1>6, <1>7, MinOfNats
    <1>9. /\ Ewma(moved.short, value, ShortWeight) \in Nat
          /\ Ewma(moved.long, value, LongWeight) \in Nat
        BY <1>1, <1>2, EwmaIsNat, LatencyAssumption DEF Estimator
    <1>10. [moved EXCEPT !.short = Ewma(moved.short, value, ShortWeight),
                         !.long = Ewma(moved.long, value, LongWeight),
                         !.buckets = buckets, !.baseline = Min(seen), !.sampled = TRUE]
             \in Estimator
        BY <1>2, <1>5, <1>8, <1>9 DEF Estimator
    <1> QED
        BY <1>10 DEF ObserveAt, value, moved, here, buckets, seen
-------------------------------------------------------------------------------
(* The probe.                                                                  *)

LEMMA ExpireType ==
    ASSUME NEW probe \in Probing, NEW now
    PROVE  Expire(probe, now) \in Probing
    BY DEF Expire, Probing

LEMMA MaybeStartType ==
    ASSUME NEW probe \in Probing, NEW draw \in Draw, NEW now \in Instant
    PROVE  MaybeStart(probe, draw, now) \in Probing
    <1> DEFINE current == Expire(probe, now)
               started == IF draw.kind = "none" THEN None
                          ELSE [kind |-> draw.kind, until |-> SaturatingAdd(now, ProbeDuration)]
    <1>1. current \in Probing
        BY ExpireType
    <1>2. SaturatingAdd(now, ProbeDuration) \in Instant
        BY SaturatingAddFacts, ProbeAssumption
    <1>3. started \in ActiveProbe \cup {None}
        BY <1>2, ProbeAssumption DEF Draw, ActiveProbe
    <1>4. draw.interval \in Nat
        BY ProbeAssumption DEF Draw
    <1>5. SaturatingAdd(now, draw.interval) \in Instant
        BY <1>4, SaturatingAddFacts
    <1> HIDE DEF current, started
    <1>6. [active |-> started, next_probe_at |-> SaturatingAdd(now, draw.interval)] \in Probing
        BY <1>3, <1>5 DEF Probing
    <1> QED
        BY <1>1, <1>6 DEF MaybeStart, current, started

LEMMA PerturbedRateType ==
    ASSUME NEW probe \in Probing, NEW base \in Rate
    PROVE  PerturbedRate(probe, base) \in Rate
    <1>1. CASE probe.active = None
        BY <1>1 DEF PerturbedRate
    <1>2. CASE probe.active # None
        <2>1. probe.active \in ActiveProbe
            BY <1>2 DEF Probing
        <2>2. PositiveRateDelta * base.den \in Nat \ {0}
            BY ProbeAssumption, ProductIsPositive DEF Rate
        <2>3. [num |-> ONE * base.num + PositiveRateDelta * base.den,
               den |-> ONE * base.den] \in Rate
            BY <2>2 DEF Rate, ONE
        <2>4. [num |-> 4 * base.num, den |-> 5 * base.den] \in Rate
            BY DEF Rate
        <2> QED
            BY <1>2, <2>1, <2>3, <2>4 DEF PerturbedRate, ActiveProbe
    <1> QED
        BY <1>1, <1>2
-------------------------------------------------------------------------------
(* The methods of the controller, one lemma each.                              *)

\* What the refreshing methods leave alone.
KeepsQueue(c, d) ==
    /\ Queued(d) = Queued(c)
    /\ \A i \in 1 .. Queued(c) : d.pending[i].id = c.pending[i].id
    /\ d.next_id = c.next_id
    /\ d.inflight = c.inflight

\* Keeping the queue composes.
LEMMA KeepsQueueTransitive ==
    ASSUME NEW b, NEW c, NEW d, KeepsQueue(b, c), KeepsQueue(c, d)
    PROVE  KeepsQueue(b, d)
    BY DEF KeepsQueue
\* The new controller, with an empty queue.
LEMMA NewControllerFacts ==
    ASSUME NEW id, NEW start \in Instant
    PROVE  LET c == NewController(id, start) IN
           /\ c \in ControllerOf(id)
           /\ Queued(c) = 0
           /\ c.inflight = 0
           /\ c.next_id = 0
           /\ Paced(c)
    <1> DEFINE c == NewController(id, start)
               rate == [num |-> InitialLimit, den |-> ONE * ExpectedRtt]
    <1>1. NewEstimator \in Estimator
        BY EmptyBucketsType, ConfigAssumption, LatencyAssumption
        DEF NewEstimator, Estimator, Bucket
    <1>2. NewLimiter \in Limiter
        BY ConfigAssumption DEF NewLimiter, Limiter, InitialLimit, MinLimit, MaxLimit, ONE
    <1>3. NewPacer(rate, start) \in Pacer
        <2>1. rate \in Rate
            BY ConfigAssumption DEF Rate, InitialLimit, ONE
        <2>2. RateToInterval(rate) \in Nat \ {0}
            BY <2>1, NearestIsNat DEF RateToInterval, Rate, Later
        <2> QED
            BY <2>2 DEF NewPacer, Pacer
    <1>4. NewProbe \in Probing
        BY DEF NewProbe, Probing
    <1>5. << >> \in Seq(Pending) /\ Len(<< >>) = 0
        OBVIOUS
    <1>6. NoChanges \in Changes
        BY DEF NoChanges, Changes
    <1>7. c \in ControllerOf(id)
        BY <1>1, <1>2, <1>3, <1>4, <1>5, <1>6, ControllerAssumption
        DEF NewController, ControllerOf
    <1>8. c.pending = << >> /\ c.inflight = 0 /\ c.next_id = 0
        BY DEF NewController
    <1>9. Queued(c) = 0
        BY <1>5, <1>8 DEF Queued
    <1>10. Paced(c)
        BY <1>9 DEF Paced
    <1> QED
        BY <1>7, <1>8, <1>9, <1>10
-------------------------------------------------------------------------------
(* The rate.                                                                   *)

LEMMA SlowdownType ==
    ASSUME NEW epoch \in FeedbackEpoch, NEW now \in Instant
    PROVE  Slowdown(epoch, now) \in Rate
    <1> DEFINE E == epoch.expected_rtt
               excess == Since(Since(now, epoch.last_feedback_at), E)
               slower == 2 ^ (excess \div E)
    <1>1. E \in Nat \ {0} /\ epoch.last_feedback_at \in Instant
        BY DEF FeedbackEpoch
    <1>2. excess \in Nat
        BY <1>1 DEF Since, Later, Instant
    <1> HIDE DEF E, excess
    <1>3. slower \in Nat \ {0}
        BY <1>1, <1>2, PowerIsPositive
    <1> HIDE DEF slower
    <1>4. E + (excess % E) \in Nat \ {0}
        BY <1>1, <1>2
    <1>5. slower * (E + (excess % E)) \in Nat \ {0}
        BY <1>3, <1>4, ProductIsPositive
    <1> QED
        BY <1>1, <1>5 DEF Slowdown, Rate, E, excess, slower

LEMMA DecayedType ==
    ASSUME NEW rate \in Rate, NEW epoch \in FeedbackEpoch \cup {None}, NEW now \in Instant
    PROVE  Decayed(rate, epoch, now) \in Rate
    <1>1. CASE epoch = None
        BY <1>1 DEF Decayed
    <1>2. CASE epoch # None
        <2> DEFINE slowdown == Slowdown(epoch, now)
        <2>1. slowdown \in Rate
            BY <1>2, SlowdownType
        <2> HIDE DEF slowdown
        <2>2. [num |-> rate.num * slowdown.den, den |-> rate.den * slowdown.num] \in Rate
            BY <2>1, ProductIsPositive DEF Rate
        <2>3. Slowest \in Rate
            BY ControllerAssumption DEF Slowest, Rate
        <2> QED
            BY <1>2, <2>2, <2>3 DEF Decayed, Slowed, Floored, slowdown
    <1> QED
        BY <1>1, <1>2

LEMMA EffectiveRateType ==
    ASSUME NEW id, NEW c \in ControllerOf(id), NEW now \in Instant
    PROVE  EffectiveRate(c, now) \in Rate
    <1>1. ExpectedOf(c.latency) \in Nat \ {0}
        BY ExpectedIsPositive DEF ControllerOf
    <1>2. c.gradient.concurrency \in Nat \ {0}
        BY DEF ControllerOf, Limiter, MinLimit, MaxLimit
    <1>3. BaseRate(c) \in Rate
        BY <1>1, <1>2 DEF BaseRate, Rate, ONE
    <1>4. PerturbedRate(Expire(c.probe, now), BaseRate(c)) \in Rate
        BY <1>3, ExpireType, PerturbedRateType DEF ControllerOf
    <1> QED
        BY <1>4, DecayedType DEF EffectiveRate, ControllerOf
-------------------------------------------------------------------------------
(* Which rate is the faster one: everything between the limit and the interval *)
(* keeps that order, and silence only slows a rate down.                       *)

NoFaster(a, b) == a.num * b.den <= b.num * a.den

\* Two fractions over one denominator, x / (p * q) and y / (p * q).
LEMMA CrossMultiply ==
    ASSUME NEW x \in Nat, NEW y \in Nat, NEW p \in Nat \ {0}
    PROVE  /\ x <= y <=> p * x <= p * y
           /\ x <= y => x * p <= y * p
    OBVIOUS

LEMMA NoFasterTransitive ==
    ASSUME NEW a \in Rate, NEW b \in Rate, NEW c \in Rate, NoFaster(a, b), NoFaster(b, c)
    PROVE  NoFaster(a, c)
    <1> DEFINE an == a.num  ad == a.den  bn == b.num  bd == b.den  cn == c.num  cd == c.den
    <1>1. /\ an \in Nat \ {0} /\ ad \in Nat \ {0} /\ bn \in Nat \ {0} /\ bd \in Nat \ {0}
          /\ cn \in Nat \ {0} /\ cd \in Nat \ {0}
        BY DEF Rate
    <1>2. an * bd <= bn * ad /\ bn * cd <= cn * bd
        BY DEF NoFaster
    <1> HIDE DEF an, ad, bn, bd, cn, cd
    <1>3. cd * (an * bd) <= cd * (bn * ad)
        BY <1>1, <1>2, CrossMultiply
    <1>4. ad * (bn * cd) <= ad * (cn * bd)
        BY <1>1, <1>2, CrossMultiply
    <1>5. /\ bd * (an * cd) = cd * (an * bd)
          /\ cd * (bn * ad) = ad * (bn * cd)
          /\ ad * (cn * bd) = bd * (cn * ad)
        BY <1>1
    <1>6. bd * (an * cd) <= bd * (cn * ad)
        BY <1>1, <1>3, <1>4, <1>5
    <1>7. an * cd \in Nat /\ cn * ad \in Nat
        BY <1>1
    <1>8. an * cd <= cn * ad
        BY <1>1, <1>6, <1>7, CrossMultiply
    <1> QED
        BY <1>8 DEF NoFaster, an, ad, cn, cd

LEMMA SlowerOrNot ==
    ASSUME NEW a \in Rate, NEW b \in Rate
    PROVE  /\ SlowerThan(a, b) => NoFaster(a, b)
           /\ ~SlowerThan(a, b) => NoFaster(b, a)
           /\ NoFaster(a, b) <=> ~SlowerThan(b, a)
    <1>1. a.num * b.den \in Nat /\ b.num * a.den \in Nat
        BY DEF Rate
    <1> QED
        BY <1>1 DEF SlowerThan, NoFaster

\* A quotient that is no larger has a floor that is no larger.
LEMMA FloorGrows ==
    ASSUME NEW x \in Nat, NEW y \in Nat, NEW p \in Nat \ {0}, NEW q \in Nat \ {0},
           x * q <= y * p
    PROVE  x \div p <= y \div q
    <1> DEFINE k == x \div p
    <1>1. k \in Nat /\ k * p <= x
        OBVIOUS
    <1> HIDE DEF k
    <1>2. (k * p) * q <= x * q
        BY <1>1
    <1>3. /\ k * q \in Nat /\ (k * p) * q = p * (k * q) /\ y * p = p * y
          /\ (k * p) * q \in Nat /\ x * q \in Nat /\ y * p \in Nat
        BY <1>1
    <1>4. p * (k * q) <= p * y
        BY <1>2, <1>3
    <1>5. k * q <= y
        BY <1>3, <1>4, CrossMultiply
    <1>6. k <= y \div q
        <2> DEFINE r == y \div q
        <2>1. r \in Nat /\ y < (r + 1) * q
            OBVIOUS
        <2> HIDE DEF r
        <2>2. k * q < (r + 1) * q
            BY <1>3, <1>5, <2>1
        <2>3. ASSUME k >= r + 1 PROVE FALSE
            <3>1. (r + 1) * q <= k * q
                BY <1>1, <2>1, <2>3
            <3> QED
                BY <1>3, <2>1, <2>2, <3>1
        <2>4. k <= r
            BY <1>1, <2>1, <2>3
        <2> QED
            BY <2>4 DEF r
    <1> QED
        BY <1>6 DEF k

LEMMA SlowerRateLongerInterval ==
    ASSUME NEW a \in Rate, NEW b \in Rate, NoFaster(a, b)
    PROVE  RateToInterval(b) <= RateToInterval(a)
    <1> DEFINE an == a.num  ad == a.den  bn == b.num  bd == b.den
    <1>1. /\ an \in Nat \ {0} /\ ad \in Nat \ {0} /\ bn \in Nat \ {0} /\ bd \in Nat \ {0}
        BY DEF Rate
    <1>2. an * bd <= bn * ad
        BY DEF NoFaster
    <1> HIDE DEF an, ad, bn, bd
    <1> DEFINE x == 2 * bd + bn  p == 2 * bn  y == 2 * ad + an  q == 2 * an
    <1>3. x \in Nat /\ y \in Nat /\ p \in Nat \ {0} /\ q \in Nat \ {0}
        BY <1>1
    <1>4. x * q <= y * p
        <2>1. x * q = 4 * (an * bd) + 2 * (an * bn)
            BY <1>1
        <2>2. y * p = 4 * (bn * ad) + 2 * (an * bn)
            BY <1>1
        <2>3. an * bd \in Nat /\ bn * ad \in Nat /\ an * bn \in Nat
            BY <1>1
        <2> HIDE DEF x, y, p, q
        <2> QED
            BY <1>2, <2>1, <2>2, <2>3
    <1> HIDE DEF x, y, p, q
    <1>5. x \div p <= y \div q
        BY <1>3, <1>4, FloorGrows
    <1>6. Nearest(bd, bn) <= Nearest(ad, an) /\ Nearest(bd, bn) \in Nat /\ Nearest(ad, an) \in Nat
        BY <1>1, <1>5, NearestIsNat DEF Nearest, x, y, p, q
    <1> QED
        BY <1>6 DEF RateToInterval, Later, an, ad, bn, bd

LEMMA PerturbedKeepsOrder ==
    ASSUME NEW probe \in Probing, NEW a \in Rate, NEW b \in Rate, NoFaster(a, b)
    PROVE  NoFaster(PerturbedRate(probe, a), PerturbedRate(probe, b))
    <1> DEFINE an == a.num  ad == a.den  bn == b.num  bd == b.den  D == PositiveRateDelta
    <1>1. /\ an \in Nat \ {0} /\ ad \in Nat \ {0} /\ bn \in Nat \ {0} /\ bd \in Nat \ {0}
          /\ D \in Nat
        BY ProbeAssumption DEF Rate
    <1>2. an * bd <= bn * ad
        BY DEF NoFaster
    <1> HIDE DEF an, ad, bn, bd, D
    <1>3. an * bd \in Nat /\ bn * ad \in Nat /\ ad * bd \in Nat /\ D * (ad * bd) \in Nat
        BY <1>1
    <1>4. (100 * an + D * ad) * (100 * bd) <= (100 * bn + D * bd) * (100 * ad)
        <2>1. (100 * an + D * ad) * (100 * bd) = 10000 * (an * bd) + 100 * (D * (ad * bd))
            BY <1>1
        <2>2. (100 * bn + D * bd) * (100 * ad) = 10000 * (bn * ad) + 100 * (D * (ad * bd))
            BY <1>1
        <2>3. 10000 * (an * bd) + 100 * (D * (ad * bd)) <= 10000 * (bn * ad) + 100 * (D * (ad * bd))
            BY <1>2, <1>3
        <2> QED
            BY <2>1, <2>2, <2>3
    <1>5. (4 * an) * (5 * bd) <= (4 * bn) * (5 * ad)
        BY <1>1, <1>2, <1>3
    <1>6. CASE probe.active = None
        BY <1>6 DEF PerturbedRate
    <1>7. CASE probe.active # None /\ probe.active.kind = "Positive"
        BY <1>4, <1>7 DEF PerturbedRate, NoFaster, ONE, an, ad, bn, bd, D
    <1>8. CASE probe.active # None /\ probe.active.kind = "Negative"
        BY <1>5, <1>8 DEF PerturbedRate, NoFaster, an, ad, bn, bd
    <1> QED
        BY <1>6, <1>7, <1>8 DEF Probing, ActiveProbe

LEMMA SlowedType ==
    ASSUME NEW rate \in Rate, NEW slowdown \in Rate
    PROVE  Slowed(rate, slowdown) \in Rate
    BY ProductIsPositive DEF Slowed, Rate

\* The faster rate and the smaller slowdown give the faster result.
LEMMA SlowedKeepsOrder ==
    ASSUME NEW a \in Rate, NEW b \in Rate, NoFaster(a, b),
           NEW s \in Rate, NEW t \in Rate, NoFaster(t, s)
    PROVE  NoFaster(Slowed(a, s), Slowed(b, t))
    <1> DEFINE an == a.num  ad == a.den  bn == b.num  bd == b.den
               sn == s.num  sd == s.den  tn == t.num  td == t.den
    <1>1. /\ an \in Nat \ {0} /\ ad \in Nat \ {0} /\ bn \in Nat \ {0} /\ bd \in Nat \ {0}
          /\ sn \in Nat \ {0} /\ sd \in Nat \ {0} /\ tn \in Nat \ {0} /\ td \in Nat \ {0}
        BY DEF Rate
    <1>2. an * bd <= bn * ad /\ tn * sd <= sn * td
        BY DEF NoFaster
    <1> HIDE DEF an, ad, bn, bd, sn, sd, tn, td
    <1> DEFINE x == an * bd  y == bn * ad  p == sd * tn  q == td * sn
    <1>3. /\ x \in Nat \ {0} /\ y \in Nat \ {0} /\ p \in Nat \ {0} /\ q \in Nat \ {0}
        BY <1>1, ProductIsPositive
    <1>4. x <= y /\ p <= q
        BY <1>1, <1>2
    <1>5. (an * sd) * (bd * tn) = x * p /\ (bn * td) * (ad * sn) = y * q
        BY <1>1
    <1> HIDE DEF x, y, p, q
    <1>6. x * p <= y * p /\ y * p <= y * q
        BY <1>3, <1>4, CrossMultiply
    <1>7. x * p \in Nat /\ y * p \in Nat /\ y * q \in Nat
        BY <1>3
    <1>8. (an * sd) * (bd * tn) <= (bn * td) * (ad * sn)
        BY <1>5, <1>6, <1>7
    <1> QED
        BY <1>8 DEF NoFaster, Slowed, an, ad, bn, bd, sn, sd, tn, td

LEMMA SlowestType == Slowest \in Rate
    BY ControllerAssumption DEF Slowest, Rate

LEMMA FlooredKeepsOrder ==
    ASSUME NEW a \in Rate, NEW b \in Rate, NoFaster(a, b),
           NEW x \in Rate, NEW y \in Rate, NoFaster(x, y)
    PROVE  NoFaster(Floored(a, x), Floored(b, y))
    <1>1. CASE ~SlowerThan(y, Slowest)
        <2>1. Floored(b, y) = y /\ NoFaster(Slowest, y)
            BY <1>1, SlowestType, SlowerOrNot DEF Floored
        <2>2. CASE ~SlowerThan(x, Slowest)
            BY <2>1, <2>2 DEF Floored
        <2>3. CASE SlowerThan(x, Slowest) /\ SlowerThan(a, Slowest)
            <3>1. Floored(a, x) = a /\ NoFaster(a, Slowest)
                BY <2>3, SlowestType, SlowerOrNot DEF Floored
            <3> QED
                BY <2>1, <3>1, SlowestType, NoFasterTransitive
        <2>4. CASE SlowerThan(x, Slowest) /\ ~SlowerThan(a, Slowest)
            BY <2>1, <2>4 DEF Floored
        <2> QED
            BY <2>2, <2>3, <2>4
    <1>2. CASE SlowerThan(y, Slowest)
        <2>1. SlowerThan(x, Slowest)
            <3>1. ASSUME NoFaster(Slowest, x) PROVE FALSE
                <4>1. NoFaster(Slowest, y)
                    BY <3>1, SlowestType, NoFasterTransitive
                <4> QED
                    BY <1>2, <4>1, SlowestType, SlowerOrNot
            <3> QED
                BY <3>1, SlowestType, SlowerOrNot
        <2>2. CASE SlowerThan(b, Slowest)
            <3>1. SlowerThan(a, Slowest)
                <4>1. ASSUME NoFaster(Slowest, a) PROVE FALSE
                    <5>1. NoFaster(Slowest, b)
                        BY <4>1, SlowestType, NoFasterTransitive
                    <5> QED
                        BY <2>2, <5>1, SlowestType, SlowerOrNot
                <4> QED
                    BY <4>1, SlowestType, SlowerOrNot
            <3> QED
                BY <1>2, <2>1, <2>2, <3>1 DEF Floored
        <2>3. CASE ~SlowerThan(b, Slowest)
            <3>1. Floored(b, y) = Slowest
                BY <1>2, <2>3 DEF Floored
            <3>2. SlowerThan(a, Slowest) => NoFaster(a, Slowest)
                BY SlowestType, SlowerOrNot
            <3>3. NoFaster(Slowest, Slowest)
                BY SlowestType DEF NoFaster, Rate
            <3> QED
                BY <2>1, <3>1, <3>2, <3>3 DEF Floored
        <2> QED
            BY <2>2, <2>3
    <1> QED
        BY <1>1, <1>2

\* A longer silence is a greater slowdown, and none is less than one.
LEMMA SlowdownGrows ==
    ASSUME NEW epoch \in FeedbackEpoch, NEW now \in Instant, NEW later \in Instant, now <= later
    PROVE  /\ Slowdown(epoch, now) \in Rate
           /\ NoFaster(Slowdown(epoch, now), Slowdown(epoch, later))
           /\ Slowdown(epoch, now).den <= Slowdown(epoch, now).num
    <1> DEFINE E == epoch.expected_rtt
               x == Since(Since(now, epoch.last_feedback_at), E)
               y == Since(Since(later, epoch.last_feedback_at), E)
               dx == x \div E  mx == x % E  dy == y \div E  my == y % E
               px == 2 ^ dx  py == 2 ^ dy
    <1>1. E \in Nat \ {0} /\ epoch.last_feedback_at \in Instant
        BY DEF FeedbackEpoch
    <1>2. x \in Nat /\ y \in Nat /\ x <= y
        BY <1>1 DEF Since, Later, Instant
    <1>0. /\ Slowdown(epoch, now) = [num |-> px * (E + mx), den |-> E]
          /\ Slowdown(epoch, later) = [num |-> py * (E + my), den |-> E]
        BY DEF Slowdown
    <1> HIDE DEF E, x, y
    <1>3. /\ dx \in Nat /\ dy \in Nat /\ mx \in 0 .. E - 1 /\ my \in 0 .. E - 1
          /\ x = E * dx + mx /\ y = E * dy + my
        BY <1>1, <1>2
    <1> HIDE DEF dx, dy, mx, my
    <1>4. px \in Nat \ {0} /\ py \in Nat \ {0}
        BY <1>3, PowerIsPositive
    <1>5. (dx = dy /\ mx <= my) \/ dx + 1 <= dy
        <2>1. ASSUME dy + 1 <= dx PROVE FALSE
            <3>1. E * (dy + 1) <= E * dx
                BY <1>1, <1>3, <2>1, CrossMultiply
            <3>2. E * (dy + 1) = E * dy + E /\ E * dy \in Nat /\ E * dx \in Nat
                BY <1>1, <1>3
            <3> QED
                BY <1>1, <1>2, <1>3, <3>1, <3>2
        <2>2. dx <= dy
            BY <1>3, <2>1
        <2>3. dx = dy => mx <= my
            <3>1. E * dy \in Nat
                BY <1>1, <1>3
            <3> QED
                BY <1>2, <1>3, <3>1
        <2> QED
            BY <1>3, <2>2, <2>3
    <1>6. px * (E + mx) <= py * (E + my)
        <2>1. CASE dx = dy /\ mx <= my
            <3>1. px = py
                BY <2>1
            <3>2. E + mx \in Nat /\ E + my \in Nat /\ E + mx <= E + my
                BY <1>1, <1>3, <2>1
            <3> HIDE DEF px, py
            <3> QED
                BY <1>4, <3>1, <3>2, CrossMultiply
        <2>2. CASE dx + 1 <= dy
            <3>1. 2 * px <= py
                <4>1. 2 ^ (dx + 1) = 2 * px
                    BY <1>3, PowerDoubles
                <4>2. 2 ^ (dx + 1) <= py
                    BY <1>3, <2>2, PowerGrows
                <4> QED
                    BY <4>1, <4>2
            <3> HIDE DEF px, py
            <3>2. px * (E + mx) <= px * (2 * E)
                BY <1>1, <1>3, <1>4, CrossMultiply
            <3>3. px * (2 * E) = E * (2 * px) /\ E * (2 * px) <= E * py
                BY <1>1, <1>4, <3>1, CrossMultiply
            <3>4. py * E <= py * (E + my)
                BY <1>1, <1>3, <1>4, CrossMultiply
            <3>5. /\ px * (E + mx) \in Nat /\ px * (2 * E) \in Nat /\ E * py \in Nat
                  /\ py * E = E * py /\ py * (E + my) \in Nat
                BY <1>1, <1>3, <1>4
            <3> QED
                BY <3>2, <3>3, <3>4, <3>5
        <2> QED
            BY <1>5, <2>1, <2>2
    <1> HIDE DEF px, py
    <1>7. px * (E + mx) \in Nat \ {0} /\ py * (E + my) \in Nat
        BY <1>1, <1>3, <1>4, ProductIsPositive
    <1>8. E <= px * (E + mx)
        <2>1. px * E <= px * (E + mx) /\ px * E >= E
            <3>1. 1 * E <= px * E
                BY <1>1, <1>4, CrossMultiply
            <3> QED
                BY <1>1, <1>3, <1>4, <3>1, CrossMultiply
        <2>2. px * E \in Nat
            BY <1>1, <1>4
        <2> QED
            BY <1>1, <1>7, <2>1, <2>2
    <1>9. (px * (E + mx)) * E <= (py * (E + my)) * E
        BY <1>1, <1>6, <1>7, CrossMultiply
    <1> QED
        BY <1>0, <1>1, <1>7, <1>8, <1>9 DEF NoFaster, Rate

\* The decay keeps the order and only grows, from no decay at all.
LEMMA DecayedKeepsOrder ==
    ASSUME NEW a \in Rate, NEW b \in Rate, NoFaster(a, b),
           NEW epoch \in FeedbackEpoch \cup {None},
           NEW now \in Instant, NEW later \in Instant, now <= later
    PROVE  NoFaster(Decayed(a, epoch, later), Decayed(b, epoch, now))
    <1>1. CASE epoch = None
        BY <1>1 DEF Decayed
    <1>2. CASE epoch # None
        <2> DEFINE s == Slowdown(epoch, later)  t == Slowdown(epoch, now)
        <2>1. s \in Rate /\ t \in Rate /\ NoFaster(t, s)
            BY <1>2, SlowdownGrows DEF Instant
        <2>2. Decayed(a, epoch, later) = Floored(a, Slowed(a, s))
              /\ Decayed(b, epoch, now) = Floored(b, Slowed(b, t))
            BY <1>2 DEF Decayed
        <2> HIDE DEF s, t
        <2>3. /\ NoFaster(Slowed(a, s), Slowed(b, t))
              /\ Slowed(a, s) \in Rate /\ Slowed(b, t) \in Rate
            BY <2>1, SlowedKeepsOrder, SlowedType
        <2> QED
            BY <2>2, <2>3, FlooredKeepsOrder
    <1> QED
        BY <1>1, <1>2

LEMMA DecayedSlows ==
    ASSUME NEW rate \in Rate, NEW epoch \in FeedbackEpoch \cup {None}, NEW now \in Instant
    PROVE  NoFaster(Decayed(rate, epoch, now), rate)
    <1> DEFINE rn == rate.num  rd == rate.den
    <1>1. rn \in Nat \ {0} /\ rd \in Nat \ {0} /\ NoFaster(rate, rate)
        BY DEF Rate, NoFaster
    <1>2. CASE epoch = None
        BY <1>1, <1>2 DEF Decayed
    <1>3. CASE epoch # None
        <2> DEFINE s == Slowdown(epoch, now)  sn == s.num  sd == s.den
        <2>1. s \in Rate /\ sd <= sn
            BY <1>3, SlowdownGrows DEF Instant
        <2>2. Decayed(rate, epoch, now) = Floored(rate, Slowed(rate, s))
            BY <1>3 DEF Decayed
        <2>3. Slowed(rate, s) = [num |-> rn * sd, den |-> rd * sn]
            BY DEF Slowed
        <2>4. sn \in Nat \ {0} /\ sd \in Nat \ {0}
            BY <2>1 DEF Rate
        <2> HIDE DEF sn, sd, rn, rd
        <2>5. (rn * rd) * sd <= (rn * rd) * sn
            BY <1>1, <2>1, <2>4, CrossMultiply
        <2>6. (rn * sd) * rd <= rn * (rd * sn)
            BY <1>1, <2>4, <2>5
        <2>7. NoFaster(Slowed(rate, s), rate)
            BY <2>3, <2>6 DEF NoFaster, rn, rd
        <2> HIDE DEF s
        <2>8. CASE SlowerThan(Slowed(rate, s), Slowest) /\ ~SlowerThan(rate, Slowest)
            BY <2>2, <2>8, SlowestType, SlowerOrNot DEF Floored
        <2> QED
            BY <1>1, <2>2, <2>7, <2>8 DEF Floored
    <1> QED
        BY <1>2, <1>3
-------------------------------------------------------------------------------
(* The virtual queue.                                                          *)

LEMMA SlotFacts ==
    ASSUME NEW pacer \in Pacer, NEW now \in Instant, NEW i \in Nat \ {0}
    PROVE  /\ Slot(pacer, i, now) \in Instant
           /\ Slot(pacer, i, now) >= SaturatingAdd(pacer.tat, (i - 1) * pacer.interval)
           /\ Slot(pacer, i + 1, now) = SaturatingAdd(Slot(pacer, i, now), pacer.interval)
    <1> DEFINE I == pacer.interval
               first == NextAt(pacer, now)
               offset == (i - 1) * I
    <1>1. pacer.tat \in Instant /\ I \in Nat
        BY DEF Pacer
    <1>2. first \in Instant /\ pacer.tat <= first
        BY <1>1, LaterInstant DEF NextAt
    <1> HIDE DEF first, I
    <1>3. i - 1 \in Nat
        OBVIOUS
    <1>4. offset \in Nat
        BY <1>1, <1>3
    <1>5. ((i + 1) - 1) * I = offset + I
        BY <1>1
    <1> HIDE DEF offset
    <1>6. SaturatingAdd(first, offset) \in Instant
        BY <1>2, <1>4, SaturatingAddFacts
    <1>7. SaturatingAdd(first, offset) >= SaturatingAdd(pacer.tat, offset)
        BY <1>1, <1>2, <1>4, <1>6, SaturatingAddMonotone, SaturatingAddFacts DEF Instant
    <1>8. SaturatingAdd(SaturatingAdd(first, offset), I) = SaturatingAdd(first, offset + I)
        BY <1>1, <1>2, <1>4, SaturatingAddTwice
    <1> QED
        BY <1>5, <1>6, <1>7, <1>8 DEF Slot, first, I, offset

LEMMA FunctionIsSeq ==
    ASSUME NEW S, NEW n \in Nat, NEW f \in [1 .. n -> S]
    PROVE  f \in Seq(S) /\ Len(f) = n
    OBVIOUS

LEMMA RebuildFacts ==
    ASSUME NEW id, NEW c \in ControllerOf(id), NEW now \in Instant
    PROVE  LET d == RebuildVirtualQueue(c, now) IN
           /\ d \in ControllerOf(id)
           /\ KeepsQueue(c, d)
           /\ Paced(d)
           /\ d = [c EXCEPT !.pending = d.pending]
    <1> DEFINE n == Queued(c)
               queue == [i \in 1 .. n |->
                           [c.pending[i] EXCEPT !.scheduled_at = Slot(c.pacer, i, now)]]
               d == RebuildVirtualQueue(c, now)
    <1>1. c.pending \in Seq(Pending) /\ c.pacer \in Pacer /\ n \in Nat
        BY DEF ControllerOf, Queued
    <1>2. ASSUME NEW i \in 1 .. n
          PROVE  /\ queue[i] \in Pending
                 /\ queue[i].id = c.pending[i].id
                 /\ queue[i].scheduled_at = Slot(c.pacer, i, now)
        <2>1. c.pending[i] \in Pending
            BY <1>1 DEF Queued
        <2>2. Slot(c.pacer, i, now) \in Instant
            BY <1>1, SlotFacts
        <2> QED
            BY <2>1, <2>2 DEF Pending
    <1>3. queue \in Seq(Pending) /\ Len(queue) = n
        <2>1. queue \in [1 .. n -> Pending]
            BY <1>2
        <2> QED
            BY <1>1, <2>1, FunctionIsSeq
    <1>4. d = [c EXCEPT !.pending = queue]
        BY DEF RebuildVirtualQueue
    <1> HIDE DEF d, queue
    <1>5. d.pending = queue /\ d.pacer = c.pacer /\ Queued(d) = n
        BY <1>3, <1>4 DEF Queued, ControllerOf
    <1>6. d \in ControllerOf(id)
        BY <1>3, <1>4 DEF ControllerOf
    <1>7. KeepsQueue(c, d)
        BY <1>2, <1>4, <1>5 DEF KeepsQueue, ControllerOf
    <1>8. Paced(d)
        <2>1. ASSUME NEW i \in 1 .. n
              PROVE  d.pending[i].scheduled_at >=
                       SaturatingAdd(d.pacer.tat, (i - 1) * d.pacer.interval)
            <3>1. i \in Nat \ {0}
                OBVIOUS
            <3>2. Slot(c.pacer, i, now) >=
                    SaturatingAdd(c.pacer.tat, (i - 1) * c.pacer.interval)
                BY <1>1, <3>1, SlotFacts
            <3> QED
                BY <1>2, <1>5, <3>2
        <2>2. ASSUME NEW i \in 1 .. n - 1
              PROVE  d.pending[i + 1].scheduled_at >=
                       SaturatingAdd(d.pending[i].scheduled_at, d.pacer.interval)
            <3>1. i \in 1 .. n /\ i + 1 \in 1 .. n /\ i \in Nat \ {0} /\ i + 1 \in Nat \ {0}
                BY <1>1
            <3>2. /\ d.pending[i].scheduled_at = Slot(c.pacer, i, now)
                  /\ d.pending[i + 1].scheduled_at = Slot(c.pacer, i + 1, now)
                BY <1>2, <1>5, <3>1
            <3>3. /\ Slot(c.pacer, i + 1, now) = SaturatingAdd(Slot(c.pacer, i, now), c.pacer.interval)
                  /\ Slot(c.pacer, i + 1, now) \in Instant
                BY <1>1, <3>1, SlotFacts
            <3> QED
                BY <1>5, <3>2, <3>3 DEF Instant
        <2> QED
            BY <1>5, <2>1, <2>2 DEF Paced
    <1> QED
        BY <1>4, <1>5, <1>6, <1>7, <1>8 DEF d

\* Being paced is a matter of the slots and the pacer only.
LEMMA PacedDepends ==
    ASSUME NEW c, NEW d, d.pending = c.pending, d.pacer = c.pacer, Paced(c)
    PROVE  Paced(d)
    BY DEF Paced, Queued

\* Taking over a pacer, which is another one only if its interval is, leaves the
\* order and re-paces the queue.
LEMMA FollowFacts ==
    ASSUME NEW id, NEW c \in ControllerOf(id), NEW pacer \in Pacer, NEW now \in Instant,
           pacer.interval = c.pacer.interval => pacer = c.pacer, Paced(c)
    PROVE  LET d == Follow(c, pacer, now) IN
           /\ d \in ControllerOf(id)
           /\ KeepsQueue(c, d)
           /\ Paced(d)
    <1> DEFINE updated == [c EXCEPT !.pacer = pacer]
               rebuilt == RebuildVirtualQueue(updated, now)
               told == [rebuilt EXCEPT !.changes.dispatch = TRUE]
               expired == Queued(c) > 0 /\ c.pending[1].scheduled_at < NextAt(pacer, now)
    <1>1. updated \in ControllerOf(id) /\ KeepsQueue(c, updated)
        BY DEF ControllerOf, KeepsQueue, Queued
    <1>2. pacer = c.pacer => Paced(updated)
        BY PacedDepends DEF ControllerOf
    <1> HIDE DEF updated
    <1>3. rebuilt \in ControllerOf(id) /\ KeepsQueue(updated, rebuilt) /\ Paced(rebuilt)
        BY <1>1, RebuildFacts
    <1> HIDE DEF rebuilt
    <1>4. told \in ControllerOf(id) /\ KeepsQueue(rebuilt, told) /\ Paced(told)
        BY <1>3, PacedDepends DEF ControllerOf, KeepsQueue, Queued, Changes
    <1>5. KeepsQueue(c, told)
        BY <1>1, <1>3, <1>4, KeepsQueueTransitive
    <1> HIDE DEF told
    <1>6. Follow(c, pacer, now) = IF pacer.interval # c.pacer.interval \/ expired
                                  THEN told ELSE updated
        BY DEF Follow, updated, rebuilt, told
    <1> QED
        BY <1>1, <1>2, <1>4, <1>5, <1>6

LEMMA UpdateRateFacts ==
    ASSUME NEW id, NEW c \in ControllerOf(id), NEW now \in Instant, Paced(c)
    PROVE  LET d == UpdateRate(c, now) IN
           /\ d \in ControllerOf(id)
           /\ KeepsQueue(c, d)
           /\ Paced(d)
    <1> DEFINE pacer == SetRate(c.pacer, EffectiveRate(c, now), now)
               expired == [c EXCEPT !.probe = Expire(@, now)]
    <1>1. pacer \in Pacer
        BY EffectiveRateType, SetRateType DEF ControllerOf
    <1>2. pacer.interval = c.pacer.interval => pacer = c.pacer
        BY SetRateSameInterval
    <1> HIDE DEF pacer
    <1>3. Expire(c.probe, now) \in Probing
        BY ExpireType DEF ControllerOf
    <1>4. expired \in ControllerOf(id) /\ KeepsQueue(c, expired) /\ expired.pacer = c.pacer
        BY <1>3 DEF ControllerOf, KeepsQueue, Queued
    <1>5. Paced(expired)
        BY PacedDepends DEF ControllerOf
    <1>6. UpdateRate(c, now) = Follow(expired, pacer, now)
        BY DEF UpdateRate, pacer
    <1> HIDE DEF expired
    <1>7. /\ Follow(expired, pacer, now) \in ControllerOf(id)
          /\ KeepsQueue(expired, Follow(expired, pacer, now))
          /\ Paced(Follow(expired, pacer, now))
        BY <1>1, <1>2, <1>4, <1>5, FollowFacts
    <1> QED
        BY <1>4, <1>6, <1>7, KeepsQueueTransitive
-------------------------------------------------------------------------------
(* One lemma per method.                                                       *)

\* What the random source may give.
LEMMA DrawsType ==
    ASSUME NEW c, NEW at
    PROVE  Draws(c, at) \subseteq Draw
    BY ProbeAssumption DEF Draws, Draw

\* A refresh re-rates and re-paces the queue and nothing else of it.
LEMMA RefreshFacts ==
    ASSUME NEW id, NEW c \in ControllerOf(id), NEW draw \in Draw, NEW now \in Instant,
           Paced(c)
    PROVE  LET d == Refresh(c, draw, now) IN
           /\ d \in ControllerOf(id)
           /\ KeepsQueue(c, d)
           /\ Paced(d)
    <1> DEFINE probe == IF HasDemand(c) THEN MaybeStart(c.probe, draw, now) ELSE c.probe
               probed == Probed(c, draw, now)
               updated == UpdateRate(probed, now)
               moved == NextDispatchRefreshAt(c) # NextDispatchRefreshAt(updated)
    <1>1. probe \in Probing
        BY MaybeStartType DEF ControllerOf
    <1> HIDE DEF probe
    <1>2. Expire(probe, now) \in Probing
        BY <1>1, ExpireType
    <1>3. probed = [c EXCEPT !.probe = Expire(probe, now)]
        BY DEF Probed, ControllerOf, probe
    <1> HIDE DEF probed
    <1>4. /\ probed \in ControllerOf(id) /\ KeepsQueue(c, probed)
          /\ probed.pending = c.pending /\ probed.pacer = c.pacer
        BY <1>2, <1>3 DEF ControllerOf, KeepsQueue, Queued
    <1>5. updated \in ControllerOf(id) /\ KeepsQueue(probed, updated) /\ Paced(updated)
        BY <1>4, PacedDepends, UpdateRateFacts
    <1>6. KeepsQueue(c, updated)
        BY <1>4, <1>5, KeepsQueueTransitive
    <1> HIDE DEF updated
    <1> DEFINE told == [updated EXCEPT !.changes.dispatch = @ \/ moved]
    <1>7. moved \in BOOLEAN
        OBVIOUS
    <1> HIDE DEF moved
    <1>8. told \in ControllerOf(id)
        BY <1>5, <1>7 DEF ControllerOf, Changes
    <1>9. KeepsQueue(updated, told) /\ Paced(told)
        BY <1>5, PacedDepends DEF ControllerOf, KeepsQueue, Queued
    <1>10. KeepsQueue(c, told)
        BY <1>6, <1>9, KeepsQueueTransitive
    <1>11. Refresh(c, draw, now) = told
        BY DEF Refresh, Announced, told, moved, updated, probed
    <1> QED
        BY <1>8, <1>9, <1>10, <1>11

\* A reservation joins behind the last, one interval away, under an id above all
\* others; a refused one changes nothing.
LEMMA ReserveFacts ==
    ASSUME NEW id, NEW c \in ControllerOf(id), NEW now \in Instant, Paced(c)
    PROVE  LET d == Reserve(c, now) IN
           /\ d \in ControllerOf(id)
           /\ Paced(d)
           /\ \/ d = c
              \/ /\ MaySchedule(c)
                 /\ Queued(d) = Queued(c) + 1
                 /\ \A i \in 1 .. Queued(c) : d.pending[i].id = c.pending[i].id
                 /\ d.pending[Queued(d)].id = c.next_id
                 /\ d.next_id = c.next_id + 1
                 /\ d.inflight = c.inflight
    <1>1. CASE ~CanReserve(c)
        BY <1>1 DEF Reserve
    <1>2. CASE CanReserve(c)
        <2> DEFINE n == Queued(c)
                   slot == NextVirtualSlot(c, now)
                   last == [id |-> c.next_id, scheduled_at |-> slot, was_paced |-> FALSE]
                   queue == Append(c.pending, last)
                   d == Reserve(c, now)
        <2>1. MaySchedule(c) /\ c.next_id \in 0 .. MaxId - 1
            BY <1>2, ControllerAssumption DEF CanReserve, ControllerOf
        <2>2. c.pending \in Seq(Pending) /\ c.pacer \in Pacer /\ n \in Nat
            BY DEF ControllerOf, Queued
        <2>3. c.pacer.interval \in Nat \ {0} /\ c.pacer.tat \in Instant
            BY <2>2 DEF Pacer
        <2>4. ASSUME n > 0
              PROVE  c.pending[n].scheduled_at \in Instant
            <3>1. c.pending[n] \in Pending
                BY <2>2, <2>4 DEF Queued
            <3> QED
                BY <3>1 DEF Pending
        <2>5. /\ slot \in Instant
              /\ n = 0 => slot >= c.pacer.tat
              /\ n > 0 => slot >= SaturatingAdd(c.pending[n].scheduled_at, c.pacer.interval)
            <3>1. CASE n = 0
                BY <2>3, <3>1, LaterInstant DEF NextVirtualSlot, NextAt, Instant, Later
            <3>2. CASE n > 0
                <4>1. SaturatingAdd(c.pending[n].scheduled_at, c.pacer.interval) \in Instant
                    BY <2>3, <2>4, <3>2, SaturatingAddFacts
                <4> QED
                    BY <3>2, <4>1 DEF NextVirtualSlot, Later, Instant
            <3> QED
                BY <2>2, <3>1, <3>2
        <2> HIDE DEF slot
        <2>6. last \in Pending
            BY <2>1, <2>5 DEF Pending
        <2>7. /\ queue \in Seq(Pending)
              /\ Len(queue) = n + 1
              /\ \A i \in 1 .. n : queue[i] = c.pending[i]
              /\ queue[n + 1] = last
            BY <2>2, <2>6 DEF Queued
        <2>8. last.id = c.next_id /\ last.scheduled_at = slot
            OBVIOUS
        <2>9. d = [c EXCEPT !.next_id = @ + 1, !.pending = queue]
            BY <1>2 DEF Reserve, slot
        <2> HIDE DEF d, queue, last
        <2>10. /\ d.pending = queue /\ d.pacer = c.pacer /\ Queued(d) = n + 1
               /\ d.next_id = c.next_id + 1 /\ d.inflight = c.inflight
            BY <2>7, <2>9 DEF ControllerOf, Queued
        <2>11. d \in ControllerOf(id)
            <3>1. c.next_id + 1 \in 0 .. MaxId
                BY <2>1, ControllerAssumption
            <3>2. queue \in Seq(Pending)
                BY <2>7
            <3> QED
                BY <2>9, <3>1, <3>2 DEF ControllerOf
        <2>12. Paced(d)
            <3> DEFINE I == c.pacer.interval
            <3>1. ASSUME NEW i \in 1 .. n
                  PROVE  queue[i].scheduled_at >= SaturatingAdd(c.pacer.tat, (i - 1) * I)
                BY <2>7 DEF Paced
            <3>2. slot >= SaturatingAdd(c.pacer.tat, n * I)
                <4>1. CASE n = 0
                    <5>1. n * I = 0
                        BY <4>1, <2>3
                    <5> QED
                        BY <2>3, <2>5, <4>1, <5>1 DEF SaturatingAdd, Earlier, Instant
                <4>2. CASE n > 0
                    <5> DEFINE offset == (n - 1) * I
                               before == SaturatingAdd(c.pacer.tat, offset)
                    <5>1. n \in 1 .. n /\ n - 1 \in Nat
                        BY <2>2, <4>2
                    <5>2. offset \in Nat /\ offset + I = n * I
                        BY <2>2, <2>3, <5>1
                    <5>3. c.pending[n].scheduled_at >= before
                        BY <5>1 DEF Paced
                    <5> HIDE DEF offset
                    <5>4. before \in Instant
                        BY <2>3, <5>2, SaturatingAddFacts
                    <5>5. SaturatingAdd(before, I) = SaturatingAdd(c.pacer.tat, n * I)
                        BY <2>3, <5>2, SaturatingAddTwice
                    <5> HIDE DEF before
                    <5>6. SaturatingAdd(c.pending[n].scheduled_at, I) >= SaturatingAdd(before, I)
                        BY <2>3, <2>4, <4>2, <5>3, <5>4, SaturatingAddMonotone DEF Instant
                    <5>7. /\ SaturatingAdd(before, I) \in Instant
                          /\ SaturatingAdd(c.pending[n].scheduled_at, I) \in Instant
                        BY <2>3, <2>4, <4>2, <5>4, SaturatingAddFacts
                    <5> QED
                        BY <2>5, <4>2, <5>5, <5>6, <5>7 DEF Instant
                <4> QED
                    BY <2>2, <4>1, <4>2
            <3>3. ASSUME NEW i \in 1 .. n - 1
                  PROVE  queue[i + 1].scheduled_at >= SaturatingAdd(queue[i].scheduled_at, I)
                <4>1. i \in 1 .. n /\ i + 1 \in 1 .. n
                    BY <2>2
                <4> QED
                    BY <2>7, <4>1 DEF Paced
            <3>4. ASSUME NEW i \in 1 .. n + 1
                  PROVE  d.pending[i].scheduled_at >=
                           SaturatingAdd(d.pacer.tat, (i - 1) * d.pacer.interval)
                <4>1. i \in 1 .. n \/ (i = n + 1 /\ i - 1 = n)
                    BY <2>2
                <4> QED
                    BY <2>7, <2>8, <2>10, <3>1, <3>2, <4>1
            <3>5. ASSUME NEW i \in 1 .. (n + 1) - 1
                  PROVE  d.pending[i + 1].scheduled_at >=
                           SaturatingAdd(d.pending[i].scheduled_at, d.pacer.interval)
                <4>1. i \in 1 .. n - 1 \/ (i = n /\ n > 0 /\ n \in 1 .. n)
                    BY <2>2
                <4> QED
                    BY <2>5, <2>7, <2>8, <2>10, <3>3, <4>1
            <3> QED
                BY <2>10, <3>4, <3>5 DEF Paced
        <2> QED
            BY <2>1, <2>2, <2>7, <2>8, <2>10, <2>11, <2>12 DEF d
    <1> QED
        BY <1>1, <1>2

\* The sequence without its p-th element.
LEMMA RemoveAtFacts ==
    ASSUME NEW S, NEW s \in Seq(S), NEW p \in 1 .. Len(s)
    PROVE  /\ RemoveAt(s, p) \in Seq(S)
           /\ Len(RemoveAt(s, p)) = Len(s) - 1
           /\ \A i \in 1 .. Len(s) - 1 :
                 RemoveAt(s, p)[i] = s[IF i < p THEN i ELSE i + 1]
    <1> DEFINE a == SubSeq(s, 1, p - 1)
               b == SubSeq(s, p + 1, Len(s))
    <1>1. /\ a \in Seq(S) /\ Len(a) = p - 1
          /\ \A i \in 1 .. p - 1 : a[i] = s[i]
        OBVIOUS
    <1>2. /\ b \in Seq(S) /\ Len(b) = Len(s) - p
          /\ \A i \in 1 .. Len(s) - p : b[i] = s[p + i]
        OBVIOUS
    <1>3. RemoveAt(s, p) = a \o b
        BY DEF RemoveAt
    <1> HIDE DEF a, b
    <1>4. /\ a \o b \in Seq(S) /\ Len(a \o b) = Len(a) + Len(b)
          /\ \A i \in 1 .. Len(a) + Len(b) :
                (a \o b)[i] = IF i <= Len(a) THEN a[i] ELSE b[i - Len(a)]
        BY <1>1, <1>2, ConcatProperties
    <1>5. ASSUME NEW i \in 1 .. Len(s) - 1
          PROVE  (a \o b)[i] = s[IF i < p THEN i ELSE i + 1]
        <2>1. i \in 1 .. Len(a) + Len(b)
            BY <1>1, <1>2
        <2>2. CASE i < p
            <3>1. i \in 1 .. p - 1
                BY <2>2
            <3> QED
                BY <1>1, <1>4, <2>1, <2>2, <3>1
        <2>3. CASE i >= p
            <3>1. i - (p - 1) \in 1 .. Len(s) - p /\ p + (i - (p - 1)) = i + 1
                BY <2>3
            <3>2. ~(i <= Len(a)) /\ ~(i < p)
                BY <1>1, <2>3
            <3> QED
                BY <1>1, <1>2, <1>4, <2>1, <3>1, <3>2
        <2>4. i < p \/ i >= p
            OBVIOUS
        <2> QED
            BY <2>2, <2>3, <2>4
    <1> QED
        BY <1>1, <1>2, <1>3, <1>4, <1>5

\* A cancellation closes at most one hole and leaves the rest in order.
LEMMA CancelFacts ==
    ASSUME NEW id, NEW c \in ControllerOf(id), NEW r, NEW now \in Instant, Paced(c)
    PROVE  LET d == Cancel(c, r, now) IN
           /\ d \in ControllerOf(id)
           /\ Paced(d)
           /\ d.next_id = c.next_id
           /\ d.inflight = c.inflight
           /\ \/ d = c /\ ~(Owns(c, r) /\ r.id \in Ids(c))
              \/ \E p \in 1 .. Queued(c) :
                    /\ c.pending[p].id = r.id
                    /\ Queued(d) = Queued(c) - 1
                    /\ \A i \in 1 .. Queued(d) :
                          d.pending[i].id = c.pending[IF i < p THEN i ELSE i + 1].id
    <1>1. CASE ~Owns(c, r) \/ r.id \notin Ids(c)
        BY <1>1 DEF Cancel
    <1>2. CASE Owns(c, r) /\ r.id \in Ids(c)
        <2> DEFINE p == Position(c, r.id)
                   queue == RemoveAt(c.pending, p)
                   closed == [c EXCEPT !.pending = queue,
                                       !.changes = [admission |-> TRUE, dispatch |-> TRUE]]
                   d == Cancel(c, r, now)
        <2>1. p \in 1 .. Queued(c) /\ c.pending[p].id = r.id
            BY <1>2 DEF Ids, Position
        <2>2. c.pending \in Seq(Pending)
            BY DEF ControllerOf
        <2> HIDE DEF p
        <2>3. /\ queue \in Seq(Pending)
              /\ Len(queue) = Queued(c) - 1
              /\ \A i \in 1 .. Queued(c) - 1 :
                    queue[i] = c.pending[IF i < p THEN i ELSE i + 1]
            BY <2>1, <2>2, RemoveAtFacts DEF Queued
        <2> HIDE DEF queue
        <2>4. [admission |-> TRUE, dispatch |-> TRUE] \in Changes
            BY DEF Changes
        <2>5. closed \in ControllerOf(id)
            BY <2>3, <2>4 DEF ControllerOf
        <2>6. /\ closed.pending = queue /\ closed.next_id = c.next_id
              /\ closed.inflight = c.inflight
            BY DEF ControllerOf
        <2>7. d = RebuildVirtualQueue(closed, now)
            BY <1>2 DEF Cancel, queue, p
        <2> HIDE DEF closed, d
        <2>8. d \in ControllerOf(id) /\ KeepsQueue(closed, d) /\ Paced(d)
            BY <2>5, <2>7, RebuildFacts
        <2>9. /\ Queued(d) = Queued(c) - 1
              /\ \A i \in 1 .. Queued(d) :
                    d.pending[i].id = c.pending[IF i < p THEN i ELSE i + 1].id
            BY <2>3, <2>6, <2>8 DEF KeepsQueue, Queued
        <2> QED
            BY <2>1, <2>6, <2>8, <2>9 DEF KeepsQueue, d
    <1> QED
        BY <1>1, <1>2

\* Looking at a reservation changes no identity and no count, and Ready is said
\* only to the head, below the in-flight cap.
LEMMA CheckFacts ==
    ASSUME NEW id, NEW c \in ControllerOf(id), NEW r, NEW draw \in Draw,
           NEW now \in Instant, Paced(c)
    PROVE  LET checked == Check(c, r, draw, now) IN
           /\ checked.ctl \in ControllerOf(id)
           /\ KeepsQueue(c, checked.ctl)
           /\ Paced(checked.ctl)
           /\ checked.answer.tag = "Ready" => Queued(c) > 0 /\ c.inflight < MaxInflight
    <1> DEFINE fresh == Refresh(c, draw, now)
               head == fresh.pending[1]
               marked == [fresh EXCEPT !.pending[1].was_paced = TRUE]
    <1>1. fresh \in ControllerOf(id) /\ KeepsQueue(c, fresh) /\ Paced(fresh)
        BY RefreshFacts
    <1>2. KeepsQueue(c, c)
        BY DEF KeepsQueue
    <1>3. CASE ~Owns(c, r) \/ r.id \notin Ids(c)
        BY <1>2, <1>3 DEF Check, Plain
    <1>4. CASE Owns(c, r) /\ r.id \in Ids(c) /\ ~HeadIs(c, r.id)
        BY <1>2, <1>4 DEF Check, Plain
    <1>5. CASE Owns(c, r) /\ HeadIs(c, r.id)
        <2> HIDE DEF fresh
        <2>1. Queued(c) > 0 /\ Queued(fresh) = Queued(c)
            BY <1>1, <1>5 DEF HeadIs, KeepsQueue
        <2>2. fresh.pending \in Seq(Pending) /\ 1 \in 1 .. Len(fresh.pending)
            BY <1>1, <2>1 DEF ControllerOf, Queued
        <2> DEFINE queue == [fresh.pending EXCEPT ![1].was_paced = TRUE]
        <2>3. /\ queue \in Seq(Pending) /\ Len(queue) = Len(fresh.pending)
              /\ \A i \in 1 .. Len(queue) :
                    /\ queue[i].id = fresh.pending[i].id
                    /\ queue[i].scheduled_at = fresh.pending[i].scheduled_at
            <3> DEFINE n == Len(fresh.pending)
                       first == [fresh.pending[1] EXCEPT !.was_paced = TRUE]
            <3>1. fresh.pending \in [1 .. n -> Pending] /\ n \in Nat
                BY <2>2
            <3>2. /\ first \in Pending /\ first.id = fresh.pending[1].id
                  /\ first.scheduled_at = fresh.pending[1].scheduled_at
                BY <2>2, <3>1 DEF Pending
            <3>3. queue = [fresh.pending EXCEPT ![1] = first]
                BY <3>1
            <3> HIDE DEF first, queue, n
            <3>4. /\ queue \in [1 .. n -> Pending]
                  /\ \A i \in 1 .. n : queue[i] = IF i = 1 THEN first ELSE fresh.pending[i]
                BY <3>1, <3>2, <3>3
            <3>5. queue \in Seq(Pending) /\ Len(queue) = n
                BY <3>1, <3>4, FunctionIsSeq
            <3> QED
                BY <3>2, <3>4, <3>5 DEF n
        <2>4. marked = [fresh EXCEPT !.pending = queue]
            BY <1>1 DEF ControllerOf
        <2> HIDE DEF queue, marked
        <2>5. marked \in ControllerOf(id)
            BY <1>1, <2>3, <2>4 DEF ControllerOf
        <2>6. /\ marked.pending = queue /\ marked.pacer = fresh.pacer
              /\ marked.next_id = fresh.next_id /\ marked.inflight = fresh.inflight
            BY <1>1, <2>4 DEF ControllerOf
        <2>7. KeepsQueue(fresh, marked)
            BY <2>3, <2>6 DEF KeepsQueue, Queued
        <2>8. Paced(marked)
            <3>1. Queued(marked) = Queued(fresh) /\ Queued(fresh) \in Nat
                BY <2>2, <2>3, <2>6 DEF Queued
            <3>2. \A i \in 1 .. Queued(fresh) :
                     marked.pending[i].scheduled_at = fresh.pending[i].scheduled_at
                BY <2>3, <2>6 DEF Queued
            <3>3. \A i \in 1 .. Queued(fresh) - 1 :
                     i \in 1 .. Queued(fresh) /\ i + 1 \in 1 .. Queued(fresh)
                BY <3>1
            <3> QED
                BY <1>1, <2>6, <3>1, <3>2, <3>3 DEF Paced
        <2>9. KeepsQueue(c, marked)
            BY <1>1, <2>7, KeepsQueueTransitive
        <2>10. r.id \in Ids(c)
            BY <1>5 DEF HeadIs, Ids, ControllerOf, Queued
        <2>11. ~InflightFull(fresh) => c.inflight < MaxInflight
            BY <1>1, ConfigAssumption DEF InflightFull, KeepsQueue, ControllerOf
        <2>12. Check(c, r, draw, now) =
                 IF InflightFull(fresh)
                 THEN [ctl |-> fresh, answer |-> Plain("InflightLimit")]
                 ELSE IF head.scheduled_at > now
                 THEN [ctl |-> marked,
                       answer |-> [tag |-> "WaitUntil",
                                   at |-> IF NextDispatchRefreshAt(fresh) = None
                                          THEN head.scheduled_at
                                          ELSE Earlier(head.scheduled_at,
                                                       NextDispatchRefreshAt(fresh))]]
                 ELSE [ctl |-> fresh, answer |-> Plain("Ready")]
            BY <1>5, <2>10 DEF Check, Verdict, fresh, marked
        <2> HIDE DEF head
        <2>13. CASE InflightFull(fresh)
            BY <1>1, <2>12, <2>13 DEF Plain
        <2>14. CASE ~InflightFull(fresh) /\ head.scheduled_at > now
            BY <2>5, <2>8, <2>9, <2>12, <2>14
        <2>15. CASE ~InflightFull(fresh) /\ ~(head.scheduled_at > now)
            BY <1>1, <2>1, <2>11, <2>12, <2>15 DEF Plain
        <2> QED
            BY <2>13, <2>14, <2>15
    <1> QED
        BY <1>3, <1>4, <1>5

LEMMA NewEpochType ==
    ASSUME NEW id, NEW c \in ControllerOf(id), NEW now \in Instant
    PROVE  NewEpoch(c, now) \in FeedbackEpoch
    BY ExpectedIsPositive DEF NewEpoch, FeedbackEpoch, ControllerOf

\* The head leaves the queue for the in-flight count.
LEMMA LaunchFacts ==
    ASSUME NEW id, NEW c \in ControllerOf(id), NEW now \in Instant, Queued(c) > 0
    PROVE  LET d == Launch(c, now) IN
           /\ d \in ControllerOf(id)
           /\ Paced(d)
           /\ Queued(d) = Queued(c) - 1
           /\ \A i \in 1 .. Queued(d) : d.pending[i].id = c.pending[i + 1].id
           /\ d.next_id = c.next_id
           /\ d.inflight = c.inflight + 1
    <1> DEFINE queue == Tail(c.pending)
               epoch == IF c.inflight = 0 THEN NewEpoch(c, now) ELSE c.feedback_epoch
               pacer == Commit(c.pacer, now)
               both == [admission |-> TRUE, dispatch |-> TRUE]
               left == [c EXCEPT !.pending = queue, !.feedback_epoch = epoch,
                                 !.inflight = @ + 1, !.changes = both, !.pacer = pacer]
               d == Launch(c, now)
    <1>1. c.pending \in Seq(Pending) /\ Len(c.pending) > 0
        BY DEF ControllerOf, Queued
    <1>2. /\ queue \in Seq(Pending) /\ Len(queue) = Queued(c) - 1
          /\ \A i \in 1 .. Len(queue) : queue[i] = c.pending[i + 1]
        BY <1>1 DEF Queued
    <1>3. epoch \in FeedbackEpoch \cup {None}
        BY NewEpochType DEF ControllerOf
    <1>4. pacer \in Pacer
        BY CommitType DEF ControllerOf
    <1>5. both \in Changes
        BY DEF Changes
    <1>6. d = RebuildVirtualQueue(left, now)
        BY DEF Launch
    <1> HIDE DEF queue, epoch, pacer, both, d
    <1>7. left \in ControllerOf(id)
        <2>1. queue \in Seq(Pending) /\ c.inflight + 1 \in Nat
            BY <1>2 DEF ControllerOf
        <2> QED
            BY <1>3, <1>4, <1>5, <2>1 DEF ControllerOf
    <1>8. /\ left.pending = queue /\ left.next_id = c.next_id
          /\ left.inflight = c.inflight + 1
        BY DEF ControllerOf
    <1> HIDE DEF left
    <1>9. d \in ControllerOf(id) /\ KeepsQueue(left, d) /\ Paced(d)
        BY <1>6, <1>7, RebuildFacts
    <1> QED
        BY <1>2, <1>8, <1>9 DEF KeepsQueue, Queued, d

\* A dispatch that is let through launches the head; any other is a check.
LEMMA OnDispatchedFacts ==
    ASSUME NEW id, NEW c \in ControllerOf(id), NEW r, NEW draw \in Draw,
           NEW now \in Instant, Paced(c)
    PROVE  LET result == OnDispatched(c, r, draw, now) IN
           /\ result.ctl \in ControllerOf(id)
           /\ Paced(result.ctl)
           /\ result.answer.tag # "Ready" => KeepsQueue(c, result.ctl)
           /\ result.answer.tag = "Ready" =>
                /\ Queued(c) > 0 /\ c.inflight < MaxInflight
                /\ Queued(result.ctl) = Queued(c) - 1
                /\ \A i \in 1 .. Queued(result.ctl) :
                      result.ctl.pending[i].id = c.pending[i + 1].id
                /\ result.ctl.next_id = c.next_id
                /\ result.ctl.inflight = c.inflight + 1
                /\ result.token \in [controller_id : {id}, id : 0 .. MaxId - 1,
                                     dispatched_at : Instant, was_paced : BOOLEAN]
                /\ result.token.id = c.pending[1].id
    <1> DEFINE checked == Check(c, r, draw, now)
    <1>1. /\ checked.ctl \in ControllerOf(id) /\ KeepsQueue(c, checked.ctl)
          /\ Paced(checked.ctl)
          /\ checked.answer.tag = "Ready" => Queued(c) > 0 /\ c.inflight < MaxInflight
        BY CheckFacts
    <1> HIDE DEF checked
    <1>2. OnDispatched(c, r, draw, now) =
            IF checked.answer.tag # "Ready"
            THEN [ctl |-> checked.ctl, answer |-> checked.answer, token |-> None]
            ELSE [ctl |-> Launch(checked.ctl, now), answer |-> checked.answer,
                  token |-> InFlightToken(checked.ctl, now)]
        BY DEF OnDispatched, Claim, checked
    <1>3. CASE checked.answer.tag # "Ready"
        BY <1>1, <1>2, <1>3
    <1>4. CASE checked.answer.tag = "Ready"
        <2> DEFINE d == Launch(checked.ctl, now)
                   token == InFlightToken(checked.ctl, now)
        <2>1. Queued(c) > 0 /\ Queued(checked.ctl) = Queued(c) /\ Queued(c) \in Nat
            BY <1>1, <1>4 DEF KeepsQueue, ControllerOf, Queued
        <2>2. /\ d \in ControllerOf(id) /\ Paced(d)
              /\ Queued(d) = Queued(checked.ctl) - 1
              /\ \A i \in 1 .. Queued(d) : d.pending[i].id = checked.ctl.pending[i + 1].id
              /\ d.next_id = checked.ctl.next_id
              /\ d.inflight = checked.ctl.inflight + 1
            BY <1>1, <2>1, LaunchFacts
        <2>3. checked.ctl.pending[1] \in Pending /\ checked.ctl.pending[1].id = c.pending[1].id
            BY <1>1, <2>1 DEF ControllerOf, Queued, KeepsQueue
        <2>4. /\ token \in [controller_id : {id}, id : 0 .. MaxId - 1,
                            dispatched_at : Instant, was_paced : BOOLEAN]
              /\ token.id = c.pending[1].id
            BY <1>1, <2>3 DEF InFlightToken, Pending, ControllerOf
        <2> HIDE DEF d, token
        <2>5. \A i \in 1 .. Queued(d) : d.pending[i].id = c.pending[i + 1].id
            <3>1. ASSUME NEW i \in 1 .. Queued(d)
                  PROVE  i + 1 \in 1 .. Queued(c)
                BY <2>1, <2>2
            <3> QED
                BY <1>1, <2>2, <3>1 DEF KeepsQueue
        <2>6. OnDispatched(c, r, draw, now) =
                [ctl |-> d, answer |-> checked.answer, token |-> token]
            BY <1>2, <1>4 DEF d, token
        <2> QED
            BY <1>1, <1>4, <2>1, <2>2, <2>4, <2>5, <2>6 DEF KeepsQueue
    <1> QED
        BY <1>3, <1>4

\* What the end of a request may do to the policies: a healthy sample moves the
\* limit only when an update is due, every change holds the next one back, and
\* only an answer is feedback while others are in flight.
Learns(c, e, completion, now) ==
    /\ \/ e.gradient = c.gradient
       \/ e.gradient.next_update_at = SaturatingAdd(now, UpdateInterval)
    /\ completion = "Success" /\ e.gradient # c.gradient =>
         c.gradient.next_update_at = None \/ c.gradient.next_update_at <= now
    /\ completion = "Abandoned" => e.latency = c.latency
    /\ e.feedback_epoch = IF c.inflight = 1 THEN None
                          ELSE IF completion = "Abandoned" THEN c.feedback_epoch
                          ELSE [last_feedback_at |-> now, expected_rtt |-> ExpectedOf(e.latency)]

LEMMA LimiterHolds ==
    ASSUME NEW limiter \in Limiter, NEW current, NEW reference, NEW inflight,
           NEW was_paced, NEW now \in Instant
    PROVE  /\ OnFailure(limiter, now).next_update_at = SaturatingAdd(now, UpdateInterval)
           /\ LET after == OnRtt(limiter, current, reference, inflight, was_paced, now) IN
              \/ after = limiter
              \/ /\ after.next_update_at = SaturatingAdd(now, UpdateInterval)
                 /\ limiter.next_update_at = None \/ limiter.next_update_at <= now
    BY DEF OnFailure, OnRtt, Limiter, Instant

\* A request that ends is taken off the count, the policies learn from it, and
\* the rate follows.
LEMMA FinishUpdates ==
    ASSUME NEW id, NEW c \in ControllerOf(id), NEW token, Owns(c, token),
           token.dispatched_at \in Instant, token.was_paced \in BOOLEAN,
           NEW now \in Instant, c.inflight > 0,
           NEW completion \in {"Success", "Failure", "Abandoned"}
    PROVE  \E e \in ControllerOf(id) :
              /\ e.pending = c.pending /\ e.pacer = c.pacer
              /\ e.next_id = c.next_id /\ e.inflight = c.inflight - 1
              /\ e.changes.dispatch
              /\ Learns(c, e, completion, now)
              /\ Finish(c, token, completion, now) = UpdateRate(e, now)
    <1> DEFINE d == Finish(c, token, completion, now)
    <1>0. c.inflight \in Nat \ {0} /\ c.inflight - 1 \in Nat
        BY DEF ControllerOf
    <1>1. CASE completion = "Abandoned"
        <2> DEFINE gradient == OnFailure(c.gradient, now)
                   epoch == IF c.inflight = 1 THEN None ELSE c.feedback_epoch
                   e == [c EXCEPT !.gradient = gradient, !.inflight = @ - 1,
                                  !.changes.dispatch = TRUE, !.feedback_epoch = epoch]
        <2>1. gradient \in Limiter
            BY OnFailureType DEF ControllerOf
        <2>2. epoch \in FeedbackEpoch \cup {None}
            BY DEF ControllerOf
        <2>3. d = UpdateRate(e, now)
            BY <1>1 DEF Finish, OnAbandoned
        <2> HIDE DEF gradient, epoch, d
        <2>4. /\ e \in ControllerOf(id)
              /\ e.pending = c.pending /\ e.pacer = c.pacer
              /\ e.next_id = c.next_id /\ e.inflight = c.inflight - 1
              /\ e.changes.dispatch
            BY <1>0, <2>1, <2>2 DEF ControllerOf, Changes
        <2>5. Learns(c, e, completion, now)
            <3>1. gradient.next_update_at = SaturatingAdd(now, UpdateInterval)
                BY LimiterHolds DEF gradient, ControllerOf
            <3>2. e.gradient = gradient /\ e.latency = c.latency /\ e.feedback_epoch = epoch
                BY DEF ControllerOf
            <3> QED
                BY <1>1, <3>1, <3>2 DEF Learns, epoch
        <2> QED
            BY <2>3, <2>4, <2>5 DEF d
    <1>2. CASE completion \in {"Success", "Failure"}
        <2> DEFINE success == completion = "Success"
                   latency == Since(now, token.dispatched_at)
                   observed == IF success THEN ObserveAt(c.latency, latency, now)
                               ELSE c.latency
                   gradient == IF success
                               THEN OnRtt(c.gradient, observed.short, Baseline(observed),
                                          c.inflight, token.was_paced, now)
                               ELSE OnFailure(c.gradient, now)
                   learned == [c EXCEPT !.latency = observed, !.gradient = gradient]
                   after == Ended(learned)
                   epoch == IF after.inflight > 0 THEN NewEpoch(after, now) ELSE None
                   e == [after EXCEPT !.feedback_epoch = epoch]
        <2>1. latency \in Nat
            BY DEF Since, Later, Instant
        <2>2. observed \in Estimator
            BY <2>1, ObserveType DEF ControllerOf
        <2>3. observed.short \in Nat /\ Baseline(observed) \in Nat
            BY <2>2, BaselineIsNat DEF Estimator
        <2>4. gradient \in Limiter
            BY <2>3, OnRttType, OnFailureType DEF ControllerOf
        <2>11. /\ \/ gradient = c.gradient
                  \/ gradient.next_update_at = SaturatingAdd(now, UpdateInterval)
               /\ completion = "Success" /\ gradient # c.gradient =>
                    c.gradient.next_update_at = None \/ c.gradient.next_update_at <= now
            <3>1. c.gradient \in Limiter
                BY DEF ControllerOf
            <3>2. CASE success
                <4>1. gradient = OnRtt(c.gradient, observed.short, Baseline(observed),
                                       c.inflight, token.was_paced, now)
                    BY <3>2
                <4> HIDE DEF gradient, observed
                <4> QED
                    BY <3>1, <4>1, LimiterHolds
            <3>3. CASE ~success
                <4>1. gradient = OnFailure(c.gradient, now)
                    BY <3>3
                <4> HIDE DEF gradient
                <4> QED
                    BY <3>1, <3>3, <4>1, LimiterHolds
            <3> QED
                BY <3>2, <3>3
        <2>5. d = UpdateRate(e, now)
            <3>1. CASE success
                BY <1>2, <3>1 DEF Finish, OnComplete, Learned, Responded
            <3>2. CASE ~success
                <4>1. learned = [c EXCEPT !.gradient = OnFailure(@, now)]
                    BY <3>2 DEF ControllerOf
                <4> QED
                    BY <1>2, <3>2, <4>1 DEF Finish, OnComplete, Responded
            <3> QED
                BY <3>1, <3>2
        <2> HIDE DEF latency, observed, gradient, d
        <2>6. /\ learned \in ControllerOf(id)
              /\ learned.pending = c.pending /\ learned.pacer = c.pacer
              /\ learned.next_id = c.next_id /\ learned.inflight = c.inflight
              /\ learned.gradient = gradient
            BY <2>2, <2>4 DEF ControllerOf
        <2> HIDE DEF learned
        <2>7. /\ after \in ControllerOf(id)
              /\ after.pending = c.pending /\ after.pacer = c.pacer
              /\ after.next_id = c.next_id /\ after.inflight = c.inflight - 1
              /\ after.changes.dispatch
              /\ after.gradient = gradient
            BY <1>0, <2>6 DEF Ended, ControllerOf, Changes
        <2> HIDE DEF after
        <2>8. epoch \in FeedbackEpoch \cup {None}
            BY <2>7, NewEpochType
        <2> HIDE DEF epoch
        <2>9. /\ e \in ControllerOf(id)
              /\ e.pending = c.pending /\ e.pacer = c.pacer
              /\ e.next_id = c.next_id /\ e.inflight = c.inflight - 1
              /\ e.changes.dispatch
            BY <2>7, <2>8 DEF ControllerOf
        <2>10. Learns(c, e, completion, now)
            <3>1. /\ e.gradient = gradient /\ e.latency = after.latency
                  /\ e.feedback_epoch = epoch
                BY <2>7 DEF ControllerOf
            <3>2. epoch = IF c.inflight = 1 THEN None
                          ELSE [last_feedback_at |-> now, expected_rtt |-> ExpectedOf(e.latency)]
                BY <1>0, <2>7, <3>1 DEF epoch, NewEpoch
            <3>3. completion # "Abandoned"
                BY <1>2
            <3> HIDE DEF e
            <3> QED
                BY <2>11, <3>1, <3>2, <3>3 DEF Learns
        <2> QED
            BY <2>5, <2>9, <2>10 DEF d
    <1> QED
        BY <1>1, <1>2

\* A request that ends leaves the queue alone and takes one off the count.
LEMMA FinishFacts ==
    ASSUME NEW id, NEW c \in ControllerOf(id), NEW token, Owns(c, token),
           token.dispatched_at \in Instant, token.was_paced \in BOOLEAN,
           NEW now \in Instant, c.inflight > 0, Paced(c),
           NEW completion \in {"Success", "Failure", "Abandoned"}
    PROVE  LET d == Finish(c, token, completion, now) IN
           /\ d \in ControllerOf(id)
           /\ Paced(d)
           /\ KeepsQueue([c EXCEPT !.inflight = @ - 1], d)
    <1> DEFINE counted == [c EXCEPT !.inflight = @ - 1]
               d == Finish(c, token, completion, now)
    <1>1. PICK e \in ControllerOf(id) :
             /\ e.pending = c.pending /\ e.pacer = c.pacer
             /\ e.next_id = c.next_id /\ e.inflight = c.inflight - 1
             /\ d = UpdateRate(e, now)
        BY FinishUpdates
    <1>2. Paced(e)
        BY <1>1, PacedDepends
    <1>3. d \in ControllerOf(id) /\ KeepsQueue(e, d) /\ Paced(d)
        BY <1>1, <1>2, UpdateRateFacts
    <1>4. KeepsQueue(counted, e)
        BY <1>1 DEF KeepsQueue, Queued, ControllerOf
    <1> QED
        BY <1>3, <1>4, KeepsQueueTransitive

LEMMA OnAdmissionFailureFacts ==
    ASSUME NEW id, NEW c \in ControllerOf(id), NEW now \in Instant, Paced(c)
    PROVE  LET d == OnAdmissionFailure(c, now) IN
           /\ d \in ControllerOf(id)
           /\ KeepsQueue(c, d)
           /\ Paced(d)
    <1> DEFINE e == [c EXCEPT !.gradient = OnFailure(@, now)]
    <1>1. OnFailure(c.gradient, now) \in Limiter
        BY OnFailureType DEF ControllerOf
    <1>2. e \in ControllerOf(id) /\ KeepsQueue(c, e)
        BY <1>1 DEF ControllerOf, KeepsQueue, Queued
    <1>3. Paced(e)
        BY PacedDepends DEF ControllerOf
    <1>4. OnAdmissionFailure(c, now) = UpdateRate(e, now)
        BY DEF OnAdmissionFailure
    <1> HIDE DEF e
    <1>5. UpdateRate(e, now) \in ControllerOf(id) /\ KeepsQueue(e, UpdateRate(e, now))
          /\ Paced(UpdateRate(e, now))
        BY <1>2, <1>3, UpdateRateFacts
    <1> QED
        BY <1>2, <1>4, <1>5, KeepsQueueTransitive
-------------------------------------------------------------------------------
(* Identities: the ids stand in order, so a method that takes one entry from   *)
(* the queue or adds one does just that to the set of ids.                     *)

Ordered(c) ==
    /\ \A i, j \in 1 .. Queued(c) : i < j => c.pending[i].id < c.pending[j].id
    /\ \A i \in 1 .. Queued(c) : c.pending[i].id < c.next_id

LEMMA IdsAreNumbers ==
    ASSUME NEW id, NEW c \in ControllerOf(id)
    PROVE  /\ Queued(c) \in Nat
           /\ \A i \in 1 .. Queued(c) : c.pending[i].id \in 0 .. MaxId - 1
    <1>1. c.pending \in Seq(Pending)
        BY DEF ControllerOf
    <1>2. \A i \in 1 .. Queued(c) : c.pending[i] \in Pending
        BY <1>1 DEF Queued
    <1> QED
        BY <1>1, <1>2 DEF Queued, Pending

LEMMA KeptIds ==
    ASSUME NEW c, NEW d, KeepsQueue(c, d)
    PROVE  /\ Ids(d) = Ids(c)
           /\ Ordered(c) => Ordered(d)
    BY DEF KeepsQueue, Ids, Ordered

LEMMA ReserveIds ==
    ASSUME NEW id, NEW c \in ControllerOf(id), NEW now \in Instant, Paced(c), Ordered(c),
           CanReserve(c)
    PROVE  LET d == Reserve(c, now) IN
           /\ d \in ControllerOf(id)
           /\ Paced(d) /\ Ordered(d)
           /\ c.next_id \in (0 .. MaxId - 1) \ Ids(c)
           /\ Ids(d) = Ids(c) \cup {c.next_id}
           /\ Queued(d) = Queued(c) + 1
           /\ d.inflight = c.inflight
    <1> DEFINE d == Reserve(c, now)
               n == Queued(c)
    <1>1. /\ n \in Nat /\ c.next_id \in 0 .. MaxId - 1
          /\ \A i \in 1 .. n : c.pending[i].id \in 0 .. MaxId - 1
        BY IdsAreNumbers, ControllerAssumption DEF CanReserve, ControllerOf
    <1>2. d.next_id = c.next_id + 1
        BY DEF Reserve, ControllerOf
    <1>3. d # c
        BY <1>1, <1>2
    <1>4. /\ d \in ControllerOf(id) /\ Paced(d) /\ Queued(d) = n + 1
          /\ \A i \in 1 .. n : d.pending[i].id = c.pending[i].id
          /\ d.pending[n + 1].id = c.next_id
          /\ d.inflight = c.inflight
        BY <1>3, ReserveFacts
    <1> HIDE DEF d
    <1>5. \A i \in 1 .. n + 1 : i \in 1 .. n \/ i = n + 1
        BY <1>1
    <1>6. Ids(d) = Ids(c) \cup {c.next_id}
        <2>1. \A i \in 1 .. n : i \in 1 .. n + 1
            BY <1>1
        <2>2. n + 1 \in 1 .. n + 1
            BY <1>1
        <2> QED
            BY <1>4, <1>5, <2>1, <2>2 DEF Ids
    <1>7. c.next_id \notin Ids(c)
        BY <1>1 DEF Ids, Ordered
    <1>8. ASSUME NEW i \in 1 .. n + 1, NEW j \in 1 .. n + 1, i < j
          PROVE  d.pending[i].id < d.pending[j].id
        <2>1. i \in 1 .. n
            BY <1>1, <1>8
        <2> QED
            BY <1>1, <1>4, <1>5, <1>8, <2>1 DEF Ordered
    <1>9. \A i \in 1 .. n + 1 : d.pending[i].id < d.next_id
        BY <1>1, <1>2, <1>4, <1>5 DEF Ordered
    <1> QED
        BY <1>1, <1>4, <1>6, <1>7, <1>8, <1>9 DEF Ordered, d

\* Whatever leaves out one position leaves out its id and keeps the order.
LEMMA LeavingOutIds ==
    ASSUME NEW id, NEW c \in ControllerOf(id), Ordered(c), NEW d, NEW p \in 1 .. Queued(c),
           Queued(d) = Queued(c) - 1, d.next_id = c.next_id,
           \A i \in 1 .. Queued(d) : d.pending[i].id = c.pending[IF i < p THEN i ELSE i + 1].id
    PROVE  Ordered(d) /\ Ids(d) = Ids(c) \ {c.pending[p].id}
    <1> DEFINE n == Queued(c)
               at == [i \in 1 .. n |-> c.pending[i].id]
    <1>1. n \in Nat /\ n > 0 /\ \A i \in 1 .. n : at[i] \in Nat
        BY IdsAreNumbers
    <1>2. \A i, j \in 1 .. n : i < j => at[i] < at[j]
        BY DEF Ordered
    <1>3. \A i \in 1 .. n : at[i] < c.next_id
        BY DEF Ordered
    <1>4. \A i \in 1 .. n - 1 : d.pending[i].id = at[IF i < p THEN i ELSE i + 1]
        <2>1. \A i \in 1 .. n - 1 : i \in 1 .. n /\ i + 1 \in 1 .. n
            BY <1>1
        <2> QED
            BY <2>1
    <1>5. Ids(c) = {at[i] : i \in 1 .. n} /\ c.pending[p].id = at[p]
        BY DEF Ids
    <1> HIDE DEF n, at
    <1>6. \A i \in 1 .. n - 1 : i \in 1 .. n /\ i + 1 \in 1 .. n
        BY <1>1
    <1>7. p \in 1 .. n /\ Queued(d) = n - 1
        BY DEF n
    <1>8. Ordered(d)
        <2>1. ASSUME NEW i \in 1 .. n - 1, NEW j \in 1 .. n - 1, i < j
              PROVE  d.pending[i].id < d.pending[j].id
            <3>1. PICK k \in 1 .. n, l \in 1 .. n :
                      /\ k = IF i < p THEN i ELSE i + 1
                      /\ l = IF j < p THEN j ELSE j + 1
                BY <1>6
            <3>2. k < l
                BY <1>7, <2>1, <3>1
            <3> QED
                BY <1>2, <1>4, <3>1, <3>2
        <2>2. ASSUME NEW i \in 1 .. n - 1
              PROVE  d.pending[i].id < d.next_id
            BY <1>3, <1>4, <1>6
        <2> QED
            BY <1>7, <2>1, <2>2 DEF Ordered
    <1>9. ASSUME NEW i \in 1 .. n - 1
          PROVE  \E k \in (1 .. n) \ {p} : d.pending[i].id = at[k]
        BY <1>1, <1>4, <1>7
    <1>10. ASSUME NEW k \in (1 .. n) \ {p}
           PROVE  \E i \in 1 .. n - 1 : d.pending[i].id = at[k]
        <2>1. CASE k < p
            <3>1. k \in 1 .. n - 1
                BY <1>1, <1>7, <2>1
            <3> QED
                BY <1>4, <2>1, <3>1
        <2>2. CASE k > p
            <3>1. k - 1 \in 1 .. n - 1 /\ ~(k - 1 < p) /\ (k - 1) + 1 = k
                BY <1>1, <1>7, <2>2
            <3> QED
                BY <1>4, <3>1
        <2> QED
            BY <1>7, <2>1, <2>2
    <1>11. \A k \in (1 .. n) \ {p} : at[k] # at[p]
        BY <1>1, <1>2, <1>7
    <1>12. Ids(d) = {at[k] : k \in (1 .. n) \ {p}}
        BY <1>7, <1>9, <1>10 DEF Ids
    <1> QED
        BY <1>5, <1>7, <1>8, <1>11, <1>12

\* A live reservation that is cancelled is the only one to go.
LEMMA CancelIds ==
    ASSUME NEW id, NEW c \in ControllerOf(id), NEW r, NEW now \in Instant, Paced(c), Ordered(c),
           Owns(c, r), r.id \in Ids(c)
    PROVE  LET d == Cancel(c, r, now) IN
           /\ d \in ControllerOf(id)
           /\ Paced(d) /\ Ordered(d)
           /\ Ids(d) = Ids(c) \ {r.id}
           /\ Queued(d) = Queued(c) - 1
           /\ d.inflight = c.inflight
    <1> DEFINE d == Cancel(c, r, now)
    <1>1. /\ d \in ControllerOf(id) /\ Paced(d) /\ d.next_id = c.next_id
          /\ d.inflight = c.inflight
          /\ \E p \in 1 .. Queued(c) :
                /\ c.pending[p].id = r.id
                /\ Queued(d) = Queued(c) - 1
                /\ \A i \in 1 .. Queued(d) :
                      d.pending[i].id = c.pending[IF i < p THEN i ELSE i + 1].id
        BY CancelFacts
    <1> HIDE DEF d
    <1>2. Ordered(d) /\ Ids(d) = Ids(c) \ {r.id} /\ Queued(d) = Queued(c) - 1
        BY <1>1, LeavingOutIds
    <1> QED
        BY <1>1, <1>2 DEF d

TokenOf(id) == [controller_id : {id}, id : 0 .. MaxId - 1,
                dispatched_at : Instant, was_paced : BOOLEAN]

\* How a claim with the guard r turns c into what it answers.
Claims(id, c, r, result) ==
    /\ result.ctl \in ControllerOf(id)
    /\ Paced(result.ctl) /\ Ordered(result.ctl)
    /\ result.answer.tag # "Ready" => KeepsQueue(c, result.ctl)
    /\ result.answer.tag = "Ready" =>
         /\ r.id \in Ids(c)
         /\ Ids(result.ctl) = Ids(c) \ {r.id}
         /\ Queued(result.ctl) = Queued(c) - 1
         /\ result.ctl.inflight = c.inflight + 1
         /\ result.token \in TokenOf(id)
         /\ result.token.id = r.id

\* Ready is said to the owner of the head only, and the dispatch that follows
\* takes its id and no other from the queue.
LEMMA DispatchIds ==
    ASSUME NEW id, NEW c \in ControllerOf(id), NEW r, NEW draw \in Draw,
           NEW now \in Instant, Paced(c), Ordered(c)
    PROVE  Claims(id, c, r, OnDispatched(c, r, draw, now))
    <1> DEFINE result == OnDispatched(c, r, draw, now)
               d == result.ctl
    <1>1. /\ d \in ControllerOf(id) /\ Paced(d)
          /\ result.answer.tag # "Ready" => KeepsQueue(c, d)
          /\ result.answer.tag = "Ready" =>
               /\ Queued(c) > 0
               /\ Queued(d) = Queued(c) - 1
               /\ \A i \in 1 .. Queued(d) : d.pending[i].id = c.pending[i + 1].id
               /\ d.next_id = c.next_id
               /\ d.inflight = c.inflight + 1
               /\ result.token \in TokenOf(id)
               /\ result.token.id = c.pending[1].id
        BY OnDispatchedFacts DEF TokenOf
    <1>2. result.answer.tag = "Ready" => r.id \in Ids(c) /\ HeadIs(c, r.id)
        BY DEF OnDispatched, Claim, Check, Plain
    <1>3. CASE result.answer.tag # "Ready"
        <2> HIDE DEF result
        <2> QED
            BY <1>1, <1>3, KeptIds DEF Claims, result
    <1>4. CASE result.answer.tag = "Ready"
        <2> HIDE DEF result
        <2>1. Queued(c) > 0 /\ c.pending[1].id = r.id /\ Queued(c) \in Nat
            BY <1>2, <1>4, IdsAreNumbers DEF HeadIs
        <2>2. 1 \in 1 .. Queued(c) /\ \A i \in 1 .. Queued(d) : (IF i < 1 THEN i ELSE i + 1) = i + 1
            BY <1>1, <1>4, <2>1
        <2>3. Ordered(d) /\ Ids(d) = Ids(c) \ {c.pending[1].id}
            BY <1>1, <1>4, <2>2, LeavingOutIds
        <2> QED
            BY <1>1, <1>2, <1>4, <2>1, <2>3 DEF Claims, result
    <1> QED
        BY <1>3, <1>4
-------------------------------------------------------------------------------
(* Owners: what a controller counts is what the guards of an adapter hold.  R  *)
(* are the owners of its reservations, id says which, D those of its requests  *)
(* in flight.                                                                  *)

Matches(c, R, id, D) ==
    /\ IsFiniteSet(R) /\ IsFiniteSet(D)
    /\ \A p, q \in R : id[p] = id[q] => p = q
    /\ Ids(c) = {id[p] : p \in R}
    /\ Queued(c) = Cardinality(R)
    /\ c.inflight = Cardinality(D)

\* A set with an element more, or one less.
LEMMA OneMore ==
    ASSUME NEW S, IsFiniteSet(S), NEW x
    PROVE  /\ Cardinality(S) \in Nat
           /\ IsFiniteSet(S \ {x}) /\ IsFiniteSet((S \ {x}) \cup {x})
           /\ x \in S => /\ (S \ {x}) \cup {x} = S
                         /\ Cardinality(S \ {x}) = Cardinality(S) - 1
           /\ x \notin S => /\ S \ {x} = S
                            /\ Cardinality((S \ {x}) \cup {x}) = Cardinality(S) + 1
    <1>1. Cardinality(S) \in Nat /\ IsFiniteSet(S \ {x})
        BY FS_CardinalityType, FS_RemoveElement
    <1>2. CASE x \in S
        <2>1. (S \ {x}) \cup {x} = S
            BY <1>2
        <2> QED
            BY <1>1, <1>2, <2>1, FS_RemoveElement
    <1>3. CASE x \notin S
        <2>1. S \ {x} = S
            BY <1>3
        <2> QED
            BY <1>1, <1>3, <2>1, FS_AddElement
    <1> QED
        BY <1>2, <1>3

In(x, S) == IF x \in S THEN 1 ELSE 0

LEMMA SizeMoves ==
    ASSUME NEW S, IsFiniteSet(S), NEW U, NEW x, U \ {x} = S \ {x}
    PROVE  /\ IsFiniteSet(U)
           /\ Cardinality(U) = (Cardinality(S) - In(x, S)) + In(x, U)
    <1>1. /\ Cardinality(S) \in Nat
          /\ IsFiniteSet(S \ {x}) /\ IsFiniteSet((S \ {x}) \cup {x})
          /\ x \in S => /\ (S \ {x}) \cup {x} = S
                        /\ Cardinality(S \ {x}) = Cardinality(S) - 1
          /\ x \notin S => /\ S \ {x} = S
                           /\ Cardinality((S \ {x}) \cup {x}) = Cardinality(S) + 1
        BY OneMore
    <1>2. CASE x \in U
        <2>1. U = (S \ {x}) \cup {x} /\ In(x, U) = 1
            BY <1>2 DEF In
        <2>2. CASE x \in S
            <3>1. U = S /\ In(x, S) = 1
                BY <1>1, <2>1, <2>2 DEF In
            <3> QED
                BY <1>1, <2>1, <3>1
        <2>3. CASE x \notin S
            <3>1. Cardinality(U) = Cardinality(S) + 1 /\ In(x, S) = 0
                BY <1>1, <2>1, <2>3 DEF In
            <3> QED
                BY <1>1, <2>1, <3>1
        <2> QED
            BY <2>2, <2>3
    <1>3. CASE x \notin U
        <2>1. U = S \ {x} /\ In(x, U) = 0
            BY <1>3 DEF In
        <2>2. CASE x \in S
            <3>1. Cardinality(U) = Cardinality(S) - 1 /\ In(x, S) = 1
                BY <1>1, <2>1, <2>2 DEF In
            <3> QED
                BY <1>1, <2>1, <3>1
        <2>3. CASE x \notin S
            <3>1. U = S /\ In(x, S) = 0
                BY <1>1, <2>1, <2>3 DEF In
            <3> QED
                BY <1>1, <2>1, <3>1
        <2> QED
            BY <2>2, <2>3
    <1> QED
        BY <1>2, <1>3

\* What a call leaves behind when the guard of one owner moves from (R, D) to
\* (S, E): an owner that joins holds the id that was next.
Moves(c, d, p, R, id, D, S, held, E) ==
    /\ p \in S => held = IF p \in R THEN id[p] ELSE c.next_id
    /\ Ids(d) = (Ids(c) \ (IF p \in R THEN {id[p]} ELSE {})) \cup (IF p \in S THEN {held} ELSE {})
    /\ Queued(d) = (Queued(c) - In(p, R)) + In(p, S)
    /\ d.inflight = (c.inflight - In(p, D)) + In(p, E)

\* The guards of an adapter match its controller after one owner moved.
LEMMA OneMoves ==
    ASSUME NEW c, NEW d, NEW p, NEW R, NEW D, NEW S, NEW E, NEW id, NEW ids,
           Matches(c, R, id, D), c.next_id \notin Ids(c),
           S \ {p} = R \ {p}, E \ {p} = D \ {p}, \A q \in R \ {p} : ids[q] = id[q],
           Moves(c, d, p, R, id, D, S, ids[p], E)
    PROVE  Matches(d, S, ids, E)
    <1>1. /\ IsFiniteSet(S) /\ IsFiniteSet(E)
          /\ Queued(d) = Cardinality(S) /\ d.inflight = Cardinality(E)
        BY SizeMoves DEF Matches, Moves
    <1>2. \A q \in S \ {p} : q \in R /\ ids[q] = id[q] /\ id[q] \in Ids(c)
        BY DEF Matches
    <1>3. ASSUME NEW q \in S \ {p}, p \in S PROVE ids[q] # ids[p]
        <2>1. q \in R /\ ids[q] = id[q] /\ id[q] \in Ids(c)
            BY <1>2
        <2>2. CASE p \in R
            <3>1. ids[p] = id[p]
                BY <1>3, <2>2 DEF Moves
            <3> QED
                BY <2>1, <2>2, <3>1, <1>3 DEF Matches
        <2>3. CASE p \notin R
            <3>1. ids[p] = c.next_id
                BY <1>3, <2>3 DEF Moves
            <3> QED
                BY <2>1, <3>1
        <2> QED
            BY <2>2, <2>3
    <1>4. \A q, r \in S : ids[q] = ids[r] => q = r
        <2> TAKE q, r \in S
        <2>1. CASE q = p \/ r = p
            BY <1>3, <2>1
        <2>2. CASE q # p /\ r # p
            BY <1>2, <2>2 DEF Matches
        <2> QED
            BY <2>1, <2>2
    <1>5. Ids(c) \ (IF p \in R THEN {id[p]} ELSE {}) = {ids[q] : q \in S \ {p}}
        <2>1. Ids(c) = {id[q] : q \in R}
            BY DEF Matches
        <2>2. \A q \in R \ {p} : p \in R => id[q] # id[p]
            BY DEF Matches
        <2>3. {id[q] : q \in R} \ (IF p \in R THEN {id[p]} ELSE {}) = {id[q] : q \in R \ {p}}
            BY <2>2
        <2>4. {id[q] : q \in R \ {p}} = {ids[q] : q \in S \ {p}}
            OBVIOUS
        <2> QED
            BY <2>1, <2>3, <2>4
    <1>6. Ids(d) = {ids[q] : q \in S}
        <2>1. Ids(d) = {ids[q] : q \in S \ {p}} \cup (IF p \in S THEN {ids[p]} ELSE {})
            BY <1>5 DEF Moves
        <2> QED
            BY <2>1
    <1> QED
        BY <1>1, <1>4, <1>6 DEF Matches
-------------------------------------------------------------------------------
(* Slots never lag behind the pacer: a rebuilt queue stands exactly where the  *)
(* pacer allows, an untouched one only gains on a later clock.                 *)

Prompt(c, now) == \A i \in 1 .. Queued(c) : c.pending[i].scheduled_at <= Slot(c.pacer, i, now)

LEMMA PromptDepends ==
    ASSUME NEW c, NEW d, NEW now, d.pending = c.pending, d.pacer = c.pacer, Prompt(c, now)
    PROVE  Prompt(d, now)
    BY DEF Prompt, Queued

LEMMA RebuildIsPrompt ==
    ASSUME NEW id, NEW c \in ControllerOf(id), NEW now \in Instant
    PROVE  Prompt(RebuildVirtualQueue(c, now), now)
    <1> DEFINE queue == [i \in 1 .. Queued(c) |->
                           [c.pending[i] EXCEPT !.scheduled_at = Slot(c.pacer, i, now)]]
               d == RebuildVirtualQueue(c, now)
    <1>1. Queued(d) = Queued(c)
        BY RebuildFacts DEF KeepsQueue
    <1>2. d = [c EXCEPT !.pending = queue]
        BY DEF RebuildVirtualQueue
    <1>3. d.pending = queue /\ d.pacer = c.pacer
        BY <1>2 DEF ControllerOf
    <1>4. ASSUME NEW i \in 1 .. Queued(c)
          PROVE  queue[i].scheduled_at = Slot(c.pacer, i, now) /\ Slot(c.pacer, i, now) \in Instant
        <2>1. c.pending[i] \in Pending /\ i \in Nat \ {0} /\ c.pacer \in Pacer
            BY DEF ControllerOf, Queued
        <2> QED
            BY <2>1, SlotFacts DEF Pending
    <1> HIDE DEF d, queue
    <1>5. \A i \in 1 .. Queued(d) : d.pending[i].scheduled_at <= Slot(d.pacer, i, now)
        BY <1>1, <1>3, <1>4 DEF Instant
    <1> QED
        BY <1>5 DEF Prompt, d

LEMMA UpdateRateIsPrompt ==
    ASSUME NEW id, NEW c \in ControllerOf(id), NEW now \in Instant, Prompt(c, now)
    PROVE  Prompt(UpdateRate(c, now), now)
    <1> DEFINE pacer == SetRate(c.pacer, EffectiveRate(c, now), now)
               updated == [c EXCEPT !.probe = Expire(@, now), !.pacer = pacer]
               rebuilt == RebuildVirtualQueue(updated, now)
               told == [rebuilt EXCEPT !.changes.dispatch = TRUE]
               d == UpdateRate(c, now)
    <1>1. pacer \in Pacer
        BY EffectiveRateType, SetRateType DEF ControllerOf
    <1>2. pacer.interval = c.pacer.interval => pacer = c.pacer
        BY SetRateSameInterval
    <1>3. Expire(c.probe, now) \in Probing
        BY ExpireType DEF ControllerOf
    <1>4. d = told \/ (d = updated /\ pacer.interval = c.pacer.interval)
        BY DEF UpdateRate, Follow, ControllerOf
    <1> HIDE DEF pacer, d
    <1>5. updated \in ControllerOf(id) /\ updated.pending = c.pending /\ updated.pacer = pacer
        BY <1>1, <1>3 DEF ControllerOf
    <1> HIDE DEF updated
    <1>6. Prompt(rebuilt, now) /\ rebuilt \in ControllerOf(id)
        BY <1>5, RebuildIsPrompt, RebuildFacts
    <1> HIDE DEF rebuilt
    <1>7. told.pending = rebuilt.pending /\ told.pacer = rebuilt.pacer
        BY <1>6 DEF ControllerOf
    <1>8. CASE d = told
        BY <1>6, <1>7, <1>8, PromptDepends DEF d
    <1>9. CASE d = updated /\ pacer.interval = c.pacer.interval
        BY <1>2, <1>5, <1>9, PromptDepends DEF d
    <1> QED
        BY <1>4, <1>8, <1>9

LEMMA RefreshIsPrompt ==
    ASSUME NEW id, NEW c \in ControllerOf(id), NEW draw \in Draw, NEW now \in Instant,
           Paced(c), Prompt(c, now)
    PROVE  Prompt(Refresh(c, draw, now), now)
    <1> DEFINE probed == Probed(c, draw, now)
               updated == UpdateRate(probed, now)
               d == Refresh(c, draw, now)
    <1>1. probed \in ControllerOf(id) /\ probed.pending = c.pending /\ probed.pacer = c.pacer
        <2>1. Expire(IF HasDemand(c) THEN MaybeStart(c.probe, draw, now) ELSE c.probe, now)
                \in Probing
            BY MaybeStartType, ExpireType DEF ControllerOf
        <2> QED
            BY <2>1 DEF Probed, ControllerOf
    <1> HIDE DEF probed
    <1>2. Prompt(probed, now) /\ Paced(probed)
        BY <1>1, PromptDepends, PacedDepends
    <1>3. Prompt(updated, now) /\ updated \in ControllerOf(id)
        BY <1>1, <1>2, UpdateRateIsPrompt, UpdateRateFacts
    <1>4. d = Announced(c, updated)
        BY DEF Refresh, probed
    <1> HIDE DEF updated, d
    <1>5. d.pending = updated.pending /\ d.pacer = updated.pacer
        BY <1>3, <1>4 DEF Announced, ControllerOf
    <1> QED
        BY <1>3, <1>5, PromptDepends DEF d

LEMMA ReserveIsPrompt ==
    ASSUME NEW id, NEW c \in ControllerOf(id), NEW now \in Instant, Prompt(c, now)
    PROVE  Prompt(Reserve(c, now), now)
    <1> DEFINE n == Queued(c)
               slot == NextVirtualSlot(c, now)
               last == [id |-> c.next_id, scheduled_at |-> slot, was_paced |-> FALSE]
               queue == Append(c.pending, last)
               d == Reserve(c, now)
    <1>1. CASE ~CanReserve(c)
        BY <1>1 DEF Reserve
    <1>2. CASE CanReserve(c)
        <2>1. /\ c.pending \in Seq(Pending) /\ n \in Nat /\ c.pacer \in Pacer
              /\ c.pacer.interval \in Nat
            BY DEF ControllerOf, Queued, Pacer
        <2>2. d = [c EXCEPT !.next_id = @ + 1, !.pending = queue]
            BY <1>2 DEF Reserve
        <2>3. last.scheduled_at = slot
            OBVIOUS
        <2>4. slot <= Slot(c.pacer, n + 1, now)
            <3>1. CASE n = 0
                <4>1. NextAt(c.pacer, now) \in Instant
                    BY <2>1, LaterInstant DEF NextAt, Pacer
                <4>2. slot = NextAt(c.pacer, now)
                    BY <3>1, <4>1 DEF NextVirtualSlot, NextAt, Later, Pacer, Instant
                <4>3. Slot(c.pacer, 1, now) = SaturatingAdd(NextAt(c.pacer, now), 0)
                    BY <2>1 DEF Slot
                <4>4. SaturatingAdd(NextAt(c.pacer, now), 0) = NextAt(c.pacer, now)
                    BY <4>1, ConfigAssumption DEF SaturatingAdd, Earlier, Instant
                <4>5. n + 1 = 1
                    BY <3>1
                <4> HIDE DEF n, slot
                <4> QED
                    BY <4>1, <4>2, <4>3, <4>4, <4>5 DEF Instant
            <3>2. CASE n # 0
                <4> DEFINE tail == c.pending[n].scheduled_at
                <4>1. n \in 1 .. Queued(c) /\ n \in Nat \ {0}
                    BY <2>1, <3>2
                <4>2. c.pending[n] \in Pending
                    BY <2>1, <4>1 DEF Queued
                <4>3. tail \in Instant /\ tail <= Slot(c.pacer, n, now)
                    BY <4>1, <4>2 DEF Pending, Prompt
                <4>4. /\ Slot(c.pacer, n, now) \in Instant
                      /\ Slot(c.pacer, n + 1, now) =
                           SaturatingAdd(Slot(c.pacer, n, now), c.pacer.interval)
                    BY <2>1, <4>1, SlotFacts
                <4>5. slot = Later(SaturatingAdd(tail, c.pacer.interval), now)
                    BY <3>2 DEF NextVirtualSlot
                <4>6. Slot(c.pacer, n, now) >= now
                    <5>1. NextAt(c.pacer, now) \in Instant /\ NextAt(c.pacer, now) >= now
                        BY <2>1, LaterInstant DEF NextAt, Pacer
                    <5>2. (n - 1) * c.pacer.interval \in Nat
                        BY <2>1, <4>1
                    <5> HIDE DEF n
                    <5> QED
                        BY <5>1, <5>2, SaturatingAddFacts DEF Slot, Instant
                <4> HIDE DEF n, slot, tail
                <4>7. /\ SaturatingAdd(tail, c.pacer.interval) <= Slot(c.pacer, n + 1, now)
                      /\ SaturatingAdd(tail, c.pacer.interval) \in Instant
                    BY <2>1, <4>3, <4>4, SaturatingAddMonotone, SaturatingAddFacts
                <4>8. /\ Slot(c.pacer, n + 1, now) >= Slot(c.pacer, n, now)
                      /\ Slot(c.pacer, n + 1, now) \in Instant
                    BY <2>1, <4>4, SaturatingAddFacts
                <4> QED
                    BY <4>4, <4>5, <4>6, <4>7, <4>8 DEF Later, Instant
            <3> QED
                BY <3>1, <3>2
        <2> HIDE DEF slot, last, d
        <2>5. /\ Len(queue) = n + 1
              /\ queue[n + 1] = last
              /\ \A i \in 1 .. n : queue[i] = c.pending[i]
            BY <2>1 DEF Queued
        <2> HIDE DEF queue
        <2>6. d.pending = queue /\ d.pacer = c.pacer
            BY <2>2 DEF ControllerOf
        <2>7. ASSUME NEW i \in 1 .. n + 1
              PROVE  queue[i].scheduled_at <= Slot(c.pacer, i, now)
            <3>1. CASE i = n + 1
                BY <2>3, <2>4, <2>5, <3>1
            <3>2. CASE i # n + 1
                <4>1. i \in 1 .. n
                    BY <2>1, <3>2
                <4> QED
                    BY <2>5, <4>1 DEF Prompt
            <3> QED
                BY <3>1, <3>2
        <2>8. Prompt(d, now)
            BY <2>5, <2>6, <2>7 DEF Prompt, Queued
        <2> QED
            BY <2>8 DEF d
    <1> QED
        BY <1>1, <1>2

LEMMA CancelIsPrompt ==
    ASSUME NEW id, NEW c \in ControllerOf(id), NEW r, NEW now \in Instant, Prompt(c, now)
    PROVE  Prompt(Cancel(c, r, now), now)
    <1>1. CASE ~Owns(c, r) \/ r.id \notin Ids(c)
        BY <1>1 DEF Cancel
    <1>2. CASE Owns(c, r) /\ r.id \in Ids(c)
        <2> DEFINE p == Position(c, r.id)
                   queue == RemoveAt(c.pending, p)
                   closed == [c EXCEPT !.pending = queue,
                                       !.changes = [admission |-> TRUE, dispatch |-> TRUE]]
        <2>1. p \in 1 .. Queued(c)
            BY <1>2 DEF Ids, Position
        <2>2. c.pending \in Seq(Pending)
            BY DEF ControllerOf
        <2> HIDE DEF p
        <2>3. queue \in Seq(Pending)
            BY <2>1, <2>2, RemoveAtFacts DEF Queued
        <2> HIDE DEF queue
        <2>4. closed \in ControllerOf(id)
            BY <2>3 DEF ControllerOf, Changes
        <2>5. Cancel(c, r, now) = RebuildVirtualQueue(closed, now)
            BY <1>2 DEF Cancel, queue, p
        <2> QED
            BY <2>4, <2>5, RebuildIsPrompt
    <1> QED
        BY <1>1, <1>2

LEMMA CheckIsPrompt ==
    ASSUME NEW id, NEW c \in ControllerOf(id), NEW r, NEW draw \in Draw, NEW now \in Instant,
           Paced(c), Prompt(c, now)
    PROVE  Prompt(Check(c, r, draw, now).ctl, now)
    <1> DEFINE fresh == Refresh(c, draw, now)
               marked == [fresh EXCEPT !.pending[1].was_paced = TRUE]
               d == Check(c, r, draw, now).ctl
    <1>1. d = c \/ d = fresh \/ (d = marked /\ HeadIs(c, r.id))
        BY DEF Check, Verdict
    <1>2. fresh \in ControllerOf(id) /\ KeepsQueue(c, fresh) /\ Prompt(fresh, now)
        BY RefreshFacts, RefreshIsPrompt
    <1> HIDE DEF fresh
    <1>3. ASSUME HeadIs(c, r.id) PROVE Prompt(marked, now)
        <2>1. Queued(c) > 0 /\ Queued(fresh) = Queued(c) /\ Queued(c) \in Nat
            BY <1>2, <1>3, IdsAreNumbers DEF HeadIs, KeepsQueue
        <2>2. fresh.pending \in Seq(Pending) /\ Len(fresh.pending) > 0
            BY <1>2, <2>1 DEF ControllerOf, Queued
        <2>3. \A i \in 1 .. Len(fresh.pending) : fresh.pending[i] \in Pending
            BY <2>2
        <2> DEFINE queue == [fresh.pending EXCEPT ![1] =
                               [fresh.pending[1] EXCEPT !.was_paced = TRUE]]
        <2>4. marked = [fresh EXCEPT !.pending = queue]
            BY <1>2 DEF ControllerOf
        <2>5. /\ Len(queue) = Len(fresh.pending)
              /\ \A i \in 1 .. Len(fresh.pending) :
                    queue[i] = IF i = 1 THEN [fresh.pending[1] EXCEPT !.was_paced = TRUE]
                               ELSE fresh.pending[i]
            BY <2>2
        <2> HIDE DEF queue, marked
        <2>6. marked.pending = queue /\ marked.pacer = fresh.pacer
            BY <1>2, <2>4 DEF ControllerOf
        <2>7. \A i \in 1 .. Len(fresh.pending) :
                  queue[i].scheduled_at = fresh.pending[i].scheduled_at
            BY <2>3, <2>5 DEF Pending
        <2> QED
            BY <1>2, <2>5, <2>6, <2>7 DEF Prompt, Queued
    <1> HIDE DEF d, marked
    <1> QED
        BY <1>1, <1>2, <1>3 DEF d

LEMMA LaunchIsPrompt ==
    ASSUME NEW id, NEW c \in ControllerOf(id), NEW now \in Instant, Queued(c) > 0
    PROVE  Prompt(Launch(c, now), now)
    <1> DEFINE queue == Tail(c.pending)
               epoch == IF c.inflight = 0 THEN NewEpoch(c, now) ELSE c.feedback_epoch
               pacer == Commit(c.pacer, now)
               both == [admission |-> TRUE, dispatch |-> TRUE]
               left == [c EXCEPT !.pending = queue, !.feedback_epoch = epoch,
                                 !.inflight = @ + 1, !.changes = both, !.pacer = pacer]
    <1>1. queue \in Seq(Pending) /\ c.inflight + 1 \in Nat
        BY DEF ControllerOf, Queued
    <1>2. epoch \in FeedbackEpoch \cup {None} /\ pacer \in Pacer /\ both \in Changes
        BY NewEpochType, CommitType DEF ControllerOf, Changes
    <1>3. Launch(c, now) = RebuildVirtualQueue(left, now)
        BY DEF Launch
    <1> HIDE DEF queue, epoch, pacer, both
    <1>4. left \in ControllerOf(id)
        BY <1>1, <1>2 DEF ControllerOf
    <1> QED
        BY <1>3, <1>4, RebuildIsPrompt

LEMMA DispatchIsPrompt ==
    ASSUME NEW id, NEW c \in ControllerOf(id), NEW r, NEW draw \in Draw, NEW now \in Instant,
           Paced(c), Prompt(c, now)
    PROVE  Prompt(OnDispatched(c, r, draw, now).ctl, now)
    <1> DEFINE checked == Check(c, r, draw, now)
               d == OnDispatched(c, r, draw, now).ctl
    <1>1. /\ checked.ctl \in ControllerOf(id) /\ KeepsQueue(c, checked.ctl)
          /\ checked.answer.tag = "Ready" => Queued(c) > 0
          /\ Prompt(checked.ctl, now)
        BY CheckFacts, CheckIsPrompt
    <1>2. d = IF checked.answer.tag # "Ready" THEN checked.ctl ELSE Launch(checked.ctl, now)
        BY DEF OnDispatched, Claim
    <1> HIDE DEF checked, d
    <1>3. checked.answer.tag = "Ready" => Queued(checked.ctl) > 0
        BY <1>1 DEF KeepsQueue
    <1>4. Prompt(d, now)
        BY <1>1, <1>2, <1>3, LaunchIsPrompt
    <1> QED
        BY <1>4 DEF d

LEMMA FinishIsPrompt ==
    ASSUME NEW id, NEW c \in ControllerOf(id), NEW token, Owns(c, token),
           token.dispatched_at \in Instant, token.was_paced \in BOOLEAN,
           NEW now \in Instant, c.inflight > 0, Prompt(c, now),
           NEW completion \in {"Success", "Failure", "Abandoned"}
    PROVE  Prompt(Finish(c, token, completion, now), now)
    <1>1. PICK e \in ControllerOf(id) :
             /\ e.pending = c.pending /\ e.pacer = c.pacer
             /\ Finish(c, token, completion, now) = UpdateRate(e, now)
        BY FinishUpdates
    <1>2. Prompt(e, now)
        BY <1>1, PromptDepends
    <1> QED
        BY <1>1, <1>2, UpdateRateIsPrompt

LEMMA OnAdmissionFailureIsPrompt ==
    ASSUME NEW id, NEW c \in ControllerOf(id), NEW now \in Instant, Prompt(c, now)
    PROVE  Prompt(OnAdmissionFailure(c, now), now)
    <1> DEFINE e == [c EXCEPT !.gradient = OnFailure(@, now)]
    <1>1. OnFailure(c.gradient, now) \in Limiter
        BY OnFailureType DEF ControllerOf
    <1>2. e \in ControllerOf(id) /\ e.pending = c.pending /\ e.pacer = c.pacer
        BY <1>1 DEF ControllerOf
    <1>3. OnAdmissionFailure(c, now) = UpdateRate(e, now)
        BY DEF OnAdmissionFailure
    <1> HIDE DEF e
    <1>4. Prompt(e, now)
        BY <1>2, PromptDepends
    <1> QED
        BY <1>2, <1>3, <1>4, UpdateRateIsPrompt

LEMMA LaterIsPrompt ==
    ASSUME NEW id, NEW c \in ControllerOf(id), NEW now \in Instant, NEW later \in Instant,
           now <= later, Prompt(c, now)
    PROVE  Prompt(c, later)
    <1> SUFFICES ASSUME NEW i \in 1 .. Queued(c)
                 PROVE  c.pending[i].scheduled_at <= Slot(c.pacer, i, later)
        BY DEF Prompt
    <1> DEFINE offset == (i - 1) * c.pacer.interval
    <1>1. c.pacer.tat \in Instant /\ c.pacer.interval \in Nat
        BY DEF ControllerOf, Pacer
    <1>2. /\ NextAt(c.pacer, now) \in Instant /\ NextAt(c.pacer, later) \in Instant
          /\ NextAt(c.pacer, now) <= NextAt(c.pacer, later)
        BY <1>1 DEF NextAt, Later, Instant
    <1>3. i - 1 \in Nat
        BY DEF Queued
    <1>4. offset \in Nat
        BY <1>1, <1>3
    <1>5. Slot(c.pacer, i, now) = SaturatingAdd(NextAt(c.pacer, now), offset)
        BY DEF Slot
    <1>6. Slot(c.pacer, i, later) = SaturatingAdd(NextAt(c.pacer, later), offset)
        BY DEF Slot
    <1> HIDE DEF offset
    <1>7. Slot(c.pacer, i, now) <= Slot(c.pacer, i, later)
        BY <1>2, <1>4, <1>5, <1>6, SaturatingAddMonotone
    <1>8. Slot(c.pacer, i, now) \in Instant /\ Slot(c.pacer, i, later) \in Instant
        BY <1>2, <1>4, <1>5, <1>6, SaturatingAddFacts
    <1>9. c.pending[i].scheduled_at \in Instant
        <2>1. c.pending[i] \in Pending
            BY DEF ControllerOf, Queued
        <2> QED
            BY <2>1 DEF Pending
    <1>10. c.pending[i].scheduled_at <= Slot(c.pacer, i, now)
        BY DEF Prompt
    <1> QED
        BY <1>7, <1>8, <1>9, <1>10 DEF Instant
-------------------------------------------------------------------------------
(* What the policies have learned: only the end of a request, a failure of the *)
(* transport and, for the clock of silence, a dispatch touch it.               *)

SameLearning(c, d) ==
    /\ d.latency = c.latency
    /\ d.gradient = c.gradient
    /\ d.feedback_epoch = c.feedback_epoch

LEMMA UpdateRateKeepsLearning ==
    ASSUME NEW id, NEW c \in ControllerOf(id), NEW now \in Instant
    PROVE  SameLearning(c, UpdateRate(c, now))
    <1> DEFINE pacer == SetRate(c.pacer, EffectiveRate(c, now), now)
               updated == [c EXCEPT !.probe = Expire(@, now), !.pacer = pacer]
               rebuilt == RebuildVirtualQueue(updated, now)
               told == [rebuilt EXCEPT !.changes.dispatch = TRUE]
               d == UpdateRate(c, now)
    <1>1. d = told \/ d = updated
        BY DEF UpdateRate, Follow, ControllerOf
    <1>2. pacer \in Pacer /\ Expire(c.probe, now) \in Probing
        BY EffectiveRateType, SetRateType, ExpireType DEF ControllerOf
    <1> HIDE DEF pacer, d
    <1>3. updated \in ControllerOf(id) /\ SameLearning(c, updated)
        BY <1>2 DEF ControllerOf, SameLearning
    <1> HIDE DEF updated
    <1>4. rebuilt = [updated EXCEPT !.pending = rebuilt.pending] /\ rebuilt \in ControllerOf(id)
        BY <1>3, RebuildFacts
    <1> HIDE DEF rebuilt
    <1>5. SameLearning(c, rebuilt)
        BY <1>3, <1>4 DEF ControllerOf, SameLearning
    <1>6. SameLearning(c, told)
        BY <1>4, <1>5 DEF ControllerOf, SameLearning
    <1> HIDE DEF told
    <1> QED
        BY <1>1, <1>3, <1>6 DEF d

LEMMA RefreshKeepsLearning ==
    ASSUME NEW id, NEW c \in ControllerOf(id), NEW draw \in Draw, NEW now \in Instant, Paced(c)
    PROVE  SameLearning(c, Refresh(c, draw, now))
    <1> DEFINE probed == Probed(c, draw, now)
               updated == UpdateRate(probed, now)
               d == Refresh(c, draw, now)
    <1>1. Expire(IF HasDemand(c) THEN MaybeStart(c.probe, draw, now) ELSE c.probe, now)
            \in Probing
        BY MaybeStartType, ExpireType DEF ControllerOf
    <1>2. /\ probed \in ControllerOf(id) /\ SameLearning(c, probed) /\ probed.pacer = c.pacer
          /\ probed.pending = c.pending
        BY <1>1 DEF Probed, ControllerOf, SameLearning
    <1> HIDE DEF probed
    <1>3. Paced(probed)
        BY <1>2, PacedDepends
    <1>4. updated \in ControllerOf(id) /\ SameLearning(probed, updated)
        BY <1>2, <1>3, UpdateRateFacts, UpdateRateKeepsLearning
    <1>5. d = Announced(c, updated)
        BY DEF Refresh, probed
    <1> HIDE DEF updated, d
    <1>6. SameLearning(updated, d)
        BY <1>4, <1>5 DEF Announced, ControllerOf, SameLearning
    <1> QED
        BY <1>2, <1>4, <1>6 DEF SameLearning, d

LEMMA CheckKeepsLearning ==
    ASSUME NEW id, NEW c \in ControllerOf(id), NEW r, NEW draw \in Draw, NEW now \in Instant,
           Paced(c)
    PROVE  SameLearning(c, Check(c, r, draw, now).ctl)
    <1> DEFINE fresh == Refresh(c, draw, now)
               marked == [fresh EXCEPT !.pending[1].was_paced = TRUE]
               d == Check(c, r, draw, now).ctl
    <1>1. d = c \/ d = fresh \/ d = marked
        BY DEF Check, Verdict
    <1>2. fresh \in ControllerOf(id) /\ SameLearning(c, fresh)
        BY RefreshFacts, RefreshKeepsLearning
    <1> HIDE DEF fresh, d
    <1>3. SameLearning(c, marked)
        BY <1>2 DEF ControllerOf, SameLearning
    <1> HIDE DEF marked
    <1>4. SameLearning(c, d)
        BY <1>1, <1>2, <1>3 DEF SameLearning
    <1> QED
        BY <1>4 DEF d

LEMMA ReserveKeepsLearning ==
    ASSUME NEW id, NEW c \in ControllerOf(id), NEW now
    PROVE  SameLearning(c, Reserve(c, now))
    <1> DEFINE queue == Append(c.pending, [id |-> c.next_id,
                                           scheduled_at |-> NextVirtualSlot(c, now),
                                           was_paced |-> FALSE])
               d == Reserve(c, now)
    <1>1. d = c \/ d = [c EXCEPT !.next_id = @ + 1, !.pending = queue]
        BY DEF Reserve
    <1> HIDE DEF queue, d
    <1>2. SameLearning(c, d)
        BY <1>1 DEF ControllerOf, SameLearning
    <1> QED
        BY <1>2 DEF d

LEMMA CancelKeepsLearning ==
    ASSUME NEW id, NEW c \in ControllerOf(id), NEW r, NEW now
    PROVE  SameLearning(c, Cancel(c, r, now))
    <1> DEFINE queue == RemoveAt(c.pending, Position(c, r.id))
               closed == [c EXCEPT !.pending = queue,
                                   !.changes = [admission |-> TRUE, dispatch |-> TRUE]]
               rebuilt == [i \in 1 .. Queued(closed) |->
                             [closed.pending[i] EXCEPT !.scheduled_at = Slot(closed.pacer, i, now)]]
               d == Cancel(c, r, now)
    <1>1. d = c \/ d = [closed EXCEPT !.pending = rebuilt]
        BY DEF Cancel, RebuildVirtualQueue
    <1> HIDE DEF queue, rebuilt, d
    <1>2. SameLearning(c, d)
        BY <1>1 DEF ControllerOf, SameLearning
    <1> QED
        BY <1>2 DEF d

\* A dispatch starts the clock of silence when nothing was in flight.
LEMMA LaunchLearns ==
    ASSUME NEW id, NEW c \in ControllerOf(id), NEW now \in Instant
    PROVE  LET d == Launch(c, now) IN
           /\ d.latency = c.latency
           /\ d.gradient = c.gradient
           /\ d.feedback_epoch = IF c.inflight = 0 THEN NewEpoch(c, now) ELSE c.feedback_epoch
    <1> DEFINE queue == Tail(c.pending)
               epoch == IF c.inflight = 0 THEN NewEpoch(c, now) ELSE c.feedback_epoch
               pacer == Commit(c.pacer, now)
               both == [admission |-> TRUE, dispatch |-> TRUE]
               left == [c EXCEPT !.pending = queue, !.feedback_epoch = epoch,
                                 !.inflight = @ + 1, !.changes = both, !.pacer = pacer]
               rebuilt == [i \in 1 .. Queued(left) |->
                             [left.pending[i] EXCEPT !.scheduled_at = Slot(left.pacer, i, now)]]
               d == Launch(c, now)
    <1>1. d = [left EXCEPT !.pending = rebuilt]
        BY DEF Launch, RebuildVirtualQueue
    <1> HIDE DEF queue, epoch, pacer, both, rebuilt, d
    <1>2. d.latency = c.latency /\ d.gradient = c.gradient /\ d.feedback_epoch = epoch
        BY <1>1 DEF ControllerOf
    <1> QED
        BY <1>2 DEF d, epoch

LEMMA DispatchLearns ==
    ASSUME NEW id, NEW c \in ControllerOf(id), NEW r, NEW draw \in Draw, NEW now \in Instant,
           Paced(c)
    PROVE  LET result == OnDispatched(c, r, draw, now)
               d == result.ctl
           IN /\ d.latency = c.latency
              /\ d.gradient = c.gradient
              /\ d.feedback_epoch = IF result.answer.tag = "Ready" /\ c.inflight = 0
                                    THEN NewEpoch(d, now) ELSE c.feedback_epoch
    <1> DEFINE checked == Check(c, r, draw, now)
               result == OnDispatched(c, r, draw, now)
    <1>1. /\ checked.ctl \in ControllerOf(id) /\ KeepsQueue(c, checked.ctl)
          /\ SameLearning(c, checked.ctl)
        BY CheckFacts, CheckKeepsLearning
    <1>2. /\ result.ctl = IF checked.answer.tag # "Ready" THEN checked.ctl
                          ELSE Launch(checked.ctl, now)
          /\ result.answer = checked.answer
        BY DEF OnDispatched, Claim
    <1> HIDE DEF checked, result
    <1>3. checked.ctl.inflight = c.inflight
        BY <1>1 DEF KeepsQueue
    <1>4. LET d == Launch(checked.ctl, now) IN
          /\ d.latency = c.latency
          /\ d.gradient = c.gradient
          /\ d.feedback_epoch = IF c.inflight = 0 THEN NewEpoch(d, now) ELSE c.feedback_epoch
        BY <1>1, <1>3, LaunchLearns DEF SameLearning, NewEpoch
    <1> QED
        BY <1>1, <1>2, <1>4 DEF SameLearning, result

LEMMA FinishLearns ==
    ASSUME NEW id, NEW c \in ControllerOf(id), NEW token, Owns(c, token),
           token.dispatched_at \in Instant, token.was_paced \in BOOLEAN,
           NEW now \in Instant, c.inflight > 0,
           NEW completion \in {"Success", "Failure", "Abandoned"}
    PROVE  Learns(c, Finish(c, token, completion, now), completion, now)
    <1>1. PICK e \in ControllerOf(id) :
             /\ Learns(c, e, completion, now)
             /\ Finish(c, token, completion, now) = UpdateRate(e, now)
        BY FinishUpdates
    <1>2. SameLearning(e, UpdateRate(e, now))
        BY UpdateRateKeepsLearning
    <1> DEFINE d == UpdateRate(e, now)
    <1> HIDE DEF d
    <1>3. Learns(c, d, completion, now)
        BY <1>1, <1>2 DEF Learns, SameLearning, d
    <1> QED
        BY <1>1, <1>3 DEF d

LEMMA OnAdmissionFailureLearns ==
    ASSUME NEW id, NEW c \in ControllerOf(id), NEW now \in Instant
    PROVE  LET d == OnAdmissionFailure(c, now) IN
           /\ d.latency = c.latency
           /\ d.feedback_epoch = c.feedback_epoch
           /\ d.gradient.next_update_at = SaturatingAdd(now, UpdateInterval)
    <1> DEFINE gradient == OnFailure(c.gradient, now)
               e == [c EXCEPT !.gradient = gradient]
    <1>1. gradient \in Limiter /\ gradient.next_update_at = SaturatingAdd(now, UpdateInterval)
        BY OnFailureType, LimiterHolds DEF ControllerOf
    <1>2. OnAdmissionFailure(c, now) = UpdateRate(e, now)
        BY DEF OnAdmissionFailure
    <1> HIDE DEF gradient
    <1>3. /\ e \in ControllerOf(id) /\ e.latency = c.latency
          /\ e.feedback_epoch = c.feedback_epoch /\ e.gradient = gradient
        BY <1>1 DEF ControllerOf
    <1> HIDE DEF e
    <1>4. SameLearning(e, UpdateRate(e, now))
        BY <1>3, UpdateRateKeepsLearning
    <1> QED
        BY <1>1, <1>2, <1>3, <1>4 DEF SameLearning
-------------------------------------------------------------------------------
(* Whatever a method of the controller changes, it announces what a sleeper    *)
(* would miss: a new head, a head that falls due sooner, a place in the queue. *)

\* What a caller that slept through the call has to be told.
Announces(c, d, now) ==
    /\ (/\ Queued(c) > 0 /\ Queued(d) > 0
        /\ \/ d.pending[1].id # c.pending[1].id
           \/ Later(now, HeadDue(d)) < Later(now, HeadDue(c)))
       => d.changes.dispatch
    /\ ~MaySchedule(c) /\ MaySchedule(d) => d.changes.admission

\* The queue is as it was, and whatever moved a slot says so.
Quiet(c, d) ==
    /\ KeepsQueue(c, d)
    /\ d.latency = c.latency
    /\ d.pending = c.pending \/ d.changes.dispatch
    /\ c.changes.dispatch => d.changes.dispatch

LEMMA RefreshAtType ==
    ASSUME NEW id, NEW c \in ControllerOf(id)
    PROVE  NextDispatchRefreshAt(c) \in Instant \cup {None}
    <1>1. c.probe \in Probing
        BY DEF ControllerOf
    <1>2. c.probe.active \in ActiveProbe \cup {None} /\ c.probe.next_probe_at \in Instant \cup {None}
        BY <1>1 DEF Probing
    <1>3. c.probe.active # None => c.probe.active.until \in Instant
        BY <1>2 DEF ActiveProbe
    <1> QED
        BY <1>2, <1>3 DEF NextDispatchRefreshAt

LEMMA HeadDueType ==
    ASSUME NEW id, NEW c \in ControllerOf(id), Queued(c) > 0
    PROVE  /\ HeadDue(c) \in Nat
           /\ c.pending[1].scheduled_at \in Instant
    <1>1. c.pending[1].scheduled_at \in Instant
        <2>1. c.pending \in Seq(Pending)
            BY DEF ControllerOf
        <2>2. c.pending[1] \in Pending
            BY <2>1 DEF Queued
        <2> QED
            BY <2>2 DEF Pending
    <1>2. Never \in Nat
        BY ConfigAssumption DEF Never
    <1> QED
        BY <1>1, <1>2, RefreshAtType, ConfigAssumption DEF HeadDue, Earlier, Instant

\* When the head falls due depends on its slot, the cap and the next decision.
LEMMA HeadDueDepends ==
    ASSUME NEW c, NEW d, d.inflight = c.inflight,
           d.pending[1].scheduled_at = c.pending[1].scheduled_at,
           NextDispatchRefreshAt(d) = NextDispatchRefreshAt(c)
    PROVE  HeadDue(d) = HeadDue(c)
    BY DEF HeadDue, InflightFull

LEMMA FollowIsQuiet ==
    ASSUME NEW id, NEW c \in ControllerOf(id), NEW pacer \in Pacer, NEW now \in Instant,
           pacer.interval = c.pacer.interval => pacer = c.pacer, Paced(c)
    PROVE  LET d == Follow(c, pacer, now) IN
           Quiet(c, d) /\ d.probe = c.probe
    <1> DEFINE updated == [c EXCEPT !.pacer = pacer]
               rebuilt == RebuildVirtualQueue(updated, now)
               told == [rebuilt EXCEPT !.changes.dispatch = TRUE]
               d == Follow(c, pacer, now)
    <1>1. KeepsQueue(c, d)
        BY FollowFacts
    <1>2. d = told \/ d = updated
        BY DEF Follow
    <1>3. /\ updated.latency = c.latency /\ updated.probe = c.probe
          /\ updated.pending = c.pending /\ updated.changes = c.changes
        BY DEF ControllerOf
    <1>4. updated \in ControllerOf(id)
        BY DEF ControllerOf
    <1> HIDE DEF updated
    <1>5. rebuilt = [updated EXCEPT !.pending = rebuilt.pending] /\ rebuilt \in ControllerOf(id)
        BY <1>4, RebuildFacts
    <1> HIDE DEF rebuilt
    <1>6. rebuilt.latency = c.latency /\ rebuilt.probe = c.probe
        BY <1>3, <1>4, <1>5 DEF ControllerOf
    <1>7. told.latency = c.latency /\ told.probe = c.probe /\ told.changes.dispatch
        BY <1>5, <1>6 DEF ControllerOf, Changes
    <1> HIDE DEF told, d
    <1>8. d.latency = c.latency /\ d.probe = c.probe
        BY <1>2, <1>3, <1>7
    <1>9. d.pending = c.pending \/ d.changes.dispatch
        BY <1>2, <1>3, <1>7
    <1>10. c.changes.dispatch => d.changes.dispatch
        BY <1>2, <1>3, <1>7
    <1> QED
        BY <1>1, <1>8, <1>9, <1>10 DEF Quiet, d

LEMMA UpdateRateIsQuiet ==
    ASSUME NEW id, NEW c \in ControllerOf(id), NEW now \in Instant, Paced(c)
    PROVE  LET d == UpdateRate(c, now) IN
           Quiet(c, d) /\ d.probe = Expire(c.probe, now)
    <1> DEFINE pacer == SetRate(c.pacer, EffectiveRate(c, now), now)
               expired == [c EXCEPT !.probe = Expire(@, now)]
    <1>1. pacer \in Pacer
        BY EffectiveRateType, SetRateType DEF ControllerOf
    <1>2. pacer.interval = c.pacer.interval => pacer = c.pacer
        BY SetRateSameInterval
    <1> HIDE DEF pacer
    <1>3. Expire(c.probe, now) \in Probing
        BY ExpireType DEF ControllerOf
    <1>4. /\ expired \in ControllerOf(id) /\ KeepsQueue(c, expired)
          /\ expired.pacer = c.pacer /\ expired.pending = c.pending
          /\ expired.latency = c.latency /\ expired.changes = c.changes
          /\ expired.probe = Expire(c.probe, now)
        BY <1>3 DEF ControllerOf, KeepsQueue, Queued
    <1>5. Paced(expired)
        BY <1>4, PacedDepends
    <1>6. UpdateRate(c, now) = Follow(expired, pacer, now)
        BY DEF UpdateRate, pacer
    <1> HIDE DEF expired
    <1>7. /\ Quiet(expired, Follow(expired, pacer, now))
          /\ Follow(expired, pacer, now).probe = expired.probe
        BY <1>1, <1>2, <1>4, <1>5, FollowIsQuiet
    <1>8. KeepsQueue(c, Follow(expired, pacer, now))
        BY <1>4, <1>7, KeepsQueueTransitive DEF Quiet
    <1> QED
        BY <1>4, <1>6, <1>7, <1>8 DEF Quiet

\* Nothing is missed while the queue is the same and the head falls due when it
\* did, or did so already.
LEMMA SameDueAnnounces ==
    ASSUME NEW id, NEW c \in ControllerOf(id), NEW d \in ControllerOf(id),
           NEW now \in Instant, KeepsQueue(c, d),
           Queued(c) > 0 => \/ d.changes.dispatch
                            \/ HeadDue(d) = HeadDue(c)
                            \/ HeadDue(c) <= now
    PROVE  Announces(c, d, now)
    <1>1. Queued(d) = Queued(c) /\ Queued(c) \in Nat
        BY IdsAreNumbers DEF KeepsQueue
    <1>2. Queued(c) > 0 => d.pending[1].id = c.pending[1].id
        BY <1>1 DEF KeepsQueue
    <1>3. MaySchedule(c) = MaySchedule(d)
        BY <1>1 DEF MaySchedule
    <1>4. ASSUME Queued(c) > 0
          PROVE  d.changes.dispatch \/ ~(Later(now, HeadDue(d)) < Later(now, HeadDue(c)))
        <2>1. HeadDue(c) \in Int /\ HeadDue(d) \in Int /\ now \in Int
            BY <1>1, <1>4, HeadDueType DEF Instant
        <2> QED
            BY <1>4, <2>1 DEF Later
    <1> QED
        BY <1>2, <1>3, <1>4 DEF Announces
-------------------------------------------------------------------------------
(* One lemma per method.                                                       *)

\* A refresh announces the decision it moves and the slots it moves.
LEMMA RefreshDue ==
    ASSUME NEW id, NEW c \in ControllerOf(id), NEW draw \in Draw, NEW now \in Instant,
           Paced(c), Queued(c) > 0
    PROVE  LET d == Refresh(c, draw, now) IN
           d.changes.dispatch \/ (d.pending = c.pending /\ HeadDue(d) = HeadDue(c))
    <1> DEFINE probed == Probed(c, draw, now)
               updated == UpdateRate(probed, now)
               moved == NextDispatchRefreshAt(c) # NextDispatchRefreshAt(updated)
               d == Refresh(c, draw, now)
    <1>1. /\ probed \in ControllerOf(id) /\ Paced(probed)
          /\ probed.pending = c.pending /\ probed.inflight = c.inflight
        <2>1. Expire(IF HasDemand(c) THEN MaybeStart(c.probe, draw, now) ELSE c.probe, now)
                \in Probing
            BY MaybeStartType, ExpireType DEF ControllerOf
        <2>2. /\ probed \in ControllerOf(id) /\ probed.pending = c.pending
              /\ probed.pacer = c.pacer /\ probed.inflight = c.inflight
            BY <2>1 DEF Probed, ControllerOf
        <2> QED
            BY <2>2, PacedDepends
    <1> HIDE DEF probed
    <1>2. Quiet(probed, updated) /\ updated \in ControllerOf(id)
        BY <1>1, UpdateRateIsQuiet, UpdateRateFacts
    <1>3. d = [updated EXCEPT !.changes.dispatch = @ \/ moved]
        BY DEF Refresh, Announced, probed
    <1> HIDE DEF updated
    <1>4. /\ d.pending = updated.pending /\ d.inflight = updated.inflight
          /\ d.probe = updated.probe /\ d.latency = updated.latency
          /\ d.changes.dispatch = (updated.changes.dispatch \/ moved)
        BY <1>2, <1>3 DEF ControllerOf, Changes
    <1>5. NextDispatchRefreshAt(d) = NextDispatchRefreshAt(updated)
        BY <1>4 DEF NextDispatchRefreshAt, HasDemand, Queued
    <1> HIDE DEF d
    <1>6. CASE updated.changes.dispatch \/ moved
        BY <1>4, <1>6 DEF d
    <1>7. CASE ~(updated.changes.dispatch \/ moved)
        <2>1. d.pending = c.pending /\ d.inflight = c.inflight
            BY <1>1, <1>2, <1>4, <1>7 DEF Quiet, KeepsQueue
        <2>2. HeadDue(d) = HeadDue(c)
            BY <1>5, <1>7, <2>1, HeadDueDepends
        <2> QED
            BY <2>1, <2>2 DEF d
    <1> QED
        BY <1>6, <1>7

LEMMA RefreshAnnounces ==
    ASSUME NEW id, NEW c \in ControllerOf(id), NEW draw \in Draw, NEW now \in Instant,
           NEW at \in Instant, Paced(c)
    PROVE  Announces(c, Refresh(c, draw, at), now)
    BY RefreshFacts, RefreshDue, SameDueAnnounces

\* What a caller that checks is told is what it has to be woken for later: a
\* head told to wait leaves the controller due when it was told.
LEMMA CheckAnnounces ==
    ASSUME NEW id, NEW c \in ControllerOf(id), NEW r, NEW draw \in Draw,
           NEW now \in Instant, NEW at \in Instant, Paced(c)
    PROVE  LET checked == Check(c, r, draw, at)
               answer == checked.answer
           IN /\ Announces(c, checked.ctl, now)
              /\ answer.at \in Instant \cup {None}
              /\ answer.tag # "Ready" /\ r.id \in Ids(c) /\ Owns(c, r) =>
                   \/ /\ answer.at = None
                      /\ ~HeadIs(checked.ctl, r.id) \/ InflightFull(checked.ctl)
                   \/ /\ answer.at = HeadDue(checked.ctl)
                      /\ HeadIs(checked.ctl, r.id)
    <1> DEFINE fresh == Refresh(c, draw, at)
               head == fresh.pending[1]
               marked == [fresh EXCEPT !.pending[1].was_paced = TRUE]
               checked == Check(c, r, draw, at)
               refresh_at == NextDispatchRefreshAt(fresh)
               wake_at == IF refresh_at = None THEN head.scheduled_at
                          ELSE Earlier(head.scheduled_at, refresh_at)
    <1>1. CASE ~Owns(c, r) \/ r.id \notin Ids(c)
        <2>1. checked = [ctl |-> c, answer |-> Plain("Cancelled")]
            BY <1>1 DEF Check
        <2>2. Announces(c, c, now)
            BY SameDueAnnounces DEF KeepsQueue
        <2> QED
            BY <1>1, <2>1, <2>2 DEF Plain
    <1>2. CASE Owns(c, r) /\ r.id \in Ids(c) /\ ~HeadIs(c, r.id)
        <2>1. checked = [ctl |-> c, answer |-> Plain("WaitForPrevious")]
            BY <1>2 DEF Check
        <2>2. Announces(c, c, now)
            BY SameDueAnnounces DEF KeepsQueue
        <2> QED
            BY <1>2, <2>1, <2>2 DEF Plain
    <1>3. CASE Owns(c, r) /\ r.id \in Ids(c) /\ HeadIs(c, r.id)
        <2>1. checked = Verdict(fresh, at)
            BY <1>3 DEF Check
        <2>2. fresh \in ControllerOf(id) /\ KeepsQueue(c, fresh) /\ Announces(c, fresh, now)
            BY RefreshFacts, RefreshAnnounces
        <2>3. Queued(c) > 0 /\ Queued(fresh) = Queued(c) /\ Queued(c) \in Nat
            BY <1>3, <2>2, IdsAreNumbers DEF HeadIs, KeepsQueue
        <2>4. head.id = r.id
            BY <1>3, <2>2, <2>3 DEF HeadIs, KeepsQueue
        <2>5. head.scheduled_at \in Instant /\ refresh_at \in Instant \cup {None}
            BY <2>2, <2>3, HeadDueType, RefreshAtType
        <2>6. checked =
                 IF InflightFull(fresh)
                 THEN [ctl |-> fresh, answer |-> Plain("InflightLimit")]
                 ELSE IF head.scheduled_at > at
                 THEN [ctl |-> marked, answer |-> [tag |-> "WaitUntil", at |-> wake_at]]
                 ELSE [ctl |-> fresh, answer |-> Plain("Ready")]
            BY <2>1 DEF Verdict
        <2>7. wake_at \in Instant
            BY <2>5, ConfigAssumption DEF Earlier, Instant
        <2>8. ~InflightFull(fresh) => HeadDue(fresh) = wake_at
            BY DEF HeadDue
        <2>9. /\ Queued(marked) = Queued(fresh)
              /\ marked.pending[1].id = head.id
              /\ marked.pending[1].scheduled_at = head.scheduled_at
              /\ marked.inflight = fresh.inflight /\ marked.probe = fresh.probe
              /\ marked.latency = fresh.latency /\ marked.changes = fresh.changes
            <3>1. fresh.pending \in Seq(Pending) /\ Len(fresh.pending) > 0
                BY <2>2, <2>3 DEF ControllerOf, Queued
            <3>2. fresh.pending[1] \in Pending
                BY <3>1
            <3>3. marked = [fresh EXCEPT !.pending =
                              [fresh.pending EXCEPT ![1] =
                                 [fresh.pending[1] EXCEPT !.was_paced = TRUE]]]
                BY <2>2, <3>1 DEF ControllerOf
            <3>4. marked.pending = [fresh.pending EXCEPT ![1] =
                                      [fresh.pending[1] EXCEPT !.was_paced = TRUE]]
                BY <2>2, <3>3 DEF ControllerOf
            <3>5. /\ marked.pending[1] = [fresh.pending[1] EXCEPT !.was_paced = TRUE]
                  /\ Len(marked.pending) = Len(fresh.pending)
                BY <3>1, <3>4
            <3>6. /\ marked.inflight = fresh.inflight /\ marked.probe = fresh.probe
                  /\ marked.latency = fresh.latency /\ marked.changes = fresh.changes
                BY <2>2, <3>3 DEF ControllerOf
            <3> QED
                BY <3>2, <3>5, <3>6 DEF Queued, Pending
        <2> HIDE DEF fresh, head, marked, refresh_at, wake_at
        <2>10. NextDispatchRefreshAt(marked) = NextDispatchRefreshAt(fresh)
            BY <2>9 DEF NextDispatchRefreshAt, HasDemand
        <2>11. HeadDue(marked) = HeadDue(fresh) /\ InflightFull(marked) = InflightFull(fresh)
            BY <2>9, <2>10, HeadDueDepends DEF head, InflightFull
        <2>12. Announces(c, marked, now)
            BY <2>2, <2>9, <2>11 DEF Announces, MaySchedule, head
        <2>13. HeadIs(fresh, r.id) /\ HeadIs(marked, r.id)
            BY <2>3, <2>4, <2>9 DEF HeadIs, head
        <2>14. CASE InflightFull(fresh)
            BY <2>2, <2>6, <2>14 DEF Plain
        <2>15. CASE ~InflightFull(fresh) /\ head.scheduled_at > at
            BY <2>6, <2>7, <2>8, <2>11, <2>12, <2>13, <2>15
        <2>16. CASE ~InflightFull(fresh) /\ ~(head.scheduled_at > at)
            BY <2>2, <2>6, <2>16 DEF Plain
        <2> QED
            BY <2>14, <2>15, <2>16
    <1> QED
        BY <1>1, <1>2, <1>3

\* A reservation joins behind the others and changes nothing for the head.
LEMMA ReserveAnnounces ==
    ASSUME NEW id, NEW c \in ControllerOf(id), NEW now \in Instant, NEW at \in Instant, Paced(c)
    PROVE  Announces(c, Reserve(c, at), now)
    <1> DEFINE d == Reserve(c, at)
    <1>1. CASE ~CanReserve(c)
        <2>1. d = c
            BY <1>1 DEF Reserve
        <2> QED
            BY <2>1, SameDueAnnounces DEF KeepsQueue
    <1>2. CASE CanReserve(c)
        <2> DEFINE last == [id |-> c.next_id, scheduled_at |-> NextVirtualSlot(c, at),
                            was_paced |-> FALSE]
                   queue == Append(c.pending, last)
        <2>1. d = [c EXCEPT !.next_id = @ + 1, !.pending = queue]
            BY <1>2 DEF Reserve
        <2>2. c.pending \in Seq(Pending)
            BY DEF ControllerOf
        <2> HIDE DEF last
        <2>3. /\ Len(queue) = Len(c.pending) + 1 /\ Len(c.pending) \in Nat
              /\ Len(c.pending) > 0 => queue[1] = c.pending[1]
            BY <2>2
        <2> HIDE DEF queue, d
        <2>4. /\ d.pending = queue /\ d.inflight = c.inflight
              /\ d.probe = c.probe /\ d.latency = c.latency
            BY <2>1 DEF ControllerOf
        <2>5. ~MaySchedule(c) => ~MaySchedule(d)
            BY <2>3, <2>4, ConfigAssumption DEF MaySchedule, Queued
        <2>6. ASSUME Queued(c) > 0
              PROVE  d.pending[1] = c.pending[1] /\ HeadDue(d) = HeadDue(c)
            <3>1. NextDispatchRefreshAt(d) = NextDispatchRefreshAt(c)
                BY <2>3, <2>4, <2>6 DEF NextDispatchRefreshAt, HasDemand, Queued
            <3>2. d.pending[1] = c.pending[1]
                BY <2>3, <2>4, <2>6 DEF Queued
            <3> QED
                BY <2>4, <3>1, <3>2, HeadDueDepends
        <2>7. Queued(c) > 0 => ~(Later(now, HeadDue(d)) < Later(now, HeadDue(c)))
            BY <2>6, HeadDueType DEF Later, Instant
        <2> QED
            BY <2>5, <2>6, <2>7 DEF Announces, d
    <1> QED
        BY <1>1, <1>2

\* A cancellation that removes something announces everything.
LEMMA CancelAnnounces ==
    ASSUME NEW id, NEW c \in ControllerOf(id), NEW r, NEW now \in Instant, NEW at \in Instant
    PROVE  LET d == Cancel(c, r, at) IN
           /\ Announces(c, d, now)
           /\ Owns(c, r) /\ r.id \in Ids(c) => d.changes.dispatch
    <1>1. CASE ~Owns(c, r) \/ r.id \notin Ids(c)
        <2>1. Cancel(c, r, at) = c
            BY <1>1 DEF Cancel
        <2> QED
            BY <1>1, <2>1, SameDueAnnounces DEF KeepsQueue
    <1>2. CASE Owns(c, r) /\ r.id \in Ids(c)
        <2> DEFINE d == Cancel(c, r, at)
                   both == [admission |-> TRUE, dispatch |-> TRUE]
        <2>1. d.changes = both
            BY <1>2 DEF Cancel, RebuildVirtualQueue, ControllerOf
        <2> QED
            BY <2>1 DEF Announces
    <1> QED
        BY <1>1, <1>2

\* So does a dispatch; one that is refused is a check.
LEMMA DispatchAnnounces ==
    ASSUME NEW id, NEW c \in ControllerOf(id), NEW r, NEW draw \in Draw,
           NEW now \in Instant, NEW at \in Instant, Paced(c)
    PROVE  LET result == OnDispatched(c, r, draw, at) IN
           /\ Announces(c, result.ctl, now)
           /\ result.answer.tag = "Ready" => result.ctl.changes.dispatch
    <1> DEFINE checked == Check(c, r, draw, at)
               result == OnDispatched(c, r, draw, at)
    <1>1. checked.ctl \in ControllerOf(id) /\ Announces(c, checked.ctl, now)
        BY CheckFacts, CheckAnnounces
    <1> HIDE DEF checked
    <1>2. result =
            IF checked.answer.tag # "Ready"
            THEN [ctl |-> checked.ctl, answer |-> checked.answer, token |-> None]
            ELSE [ctl |-> Launch(checked.ctl, at), answer |-> checked.answer,
                  token |-> InFlightToken(checked.ctl, at)]
        BY DEF OnDispatched, Claim, checked
    <1>3. Launch(checked.ctl, at).changes = [admission |-> TRUE, dispatch |-> TRUE]
        BY <1>1 DEF Launch, RebuildVirtualQueue, ControllerOf
    <1>4. CASE checked.answer.tag # "Ready"
        BY <1>1, <1>2, <1>4
    <1>5. CASE checked.answer.tag = "Ready"
        BY <1>2, <1>3, <1>5 DEF Announces
    <1> QED
        BY <1>4, <1>5

\* Every end of a request in flight is announced.
LEMMA FinishAnnounces ==
    ASSUME NEW id, NEW c \in ControllerOf(id), NEW token, Owns(c, token),
           token.dispatched_at \in Instant, token.was_paced \in BOOLEAN,
           NEW now \in Instant, NEW at \in Instant, c.inflight > 0, Paced(c),
           NEW completion \in {"Success", "Failure", "Abandoned"}
    PROVE  LET d == Finish(c, token, completion, at) IN
           d.changes.dispatch /\ Announces(c, d, now)
    <1> DEFINE d == Finish(c, token, completion, at)
    <1>1. PICK e \in ControllerOf(id) :
             /\ e.pending = c.pending /\ e.pacer = c.pacer
             /\ e.changes.dispatch
             /\ d = UpdateRate(e, at)
        BY FinishUpdates
    <1> HIDE DEF d
    <1>2. Paced(e)
        BY <1>1, PacedDepends
    <1>3. Quiet(e, d)
        BY <1>1, <1>2, UpdateRateIsQuiet
    <1>4. d.changes.dispatch /\ Queued(d) = Queued(c)
        BY <1>1, <1>3 DEF Quiet, KeepsQueue, Queued
    <1> QED
        BY <1>4 DEF Announces, MaySchedule, d

\* A failure of the transport may end a probe and uncover the decision behind
\* it, which has then been due all along.
LEMMA OnAdmissionFailureAnnounces ==
    ASSUME NEW id, NEW c \in ControllerOf(id), NEW now \in Instant, Paced(c)
    PROVE  Announces(c, OnAdmissionFailure(c, now), now)
    <1> DEFINE e == [c EXCEPT !.gradient = OnFailure(@, now)]
               d == OnAdmissionFailure(c, now)
    <1>1. OnFailure(c.gradient, now) \in Limiter
        BY OnFailureType DEF ControllerOf
    <1>2. /\ e \in ControllerOf(id) /\ e.pending = c.pending /\ e.pacer = c.pacer
          /\ e.probe = c.probe /\ e.latency = c.latency /\ e.inflight = c.inflight
        BY <1>1 DEF ControllerOf
    <1>3. d = UpdateRate(e, now)
        BY DEF OnAdmissionFailure
    <1> HIDE DEF e, d
    <1>4. Paced(e)
        BY <1>2, PacedDepends
    <1>5. Quiet(e, d) /\ d.probe = Expire(c.probe, now)
        BY <1>2, <1>3, <1>4, UpdateRateIsQuiet
    <1>6. d \in ControllerOf(id) /\ KeepsQueue(c, d)
        BY OnAdmissionFailureFacts DEF d
    <1>7. ASSUME Queued(c) > 0, ~d.changes.dispatch
          PROVE  HeadDue(d) = HeadDue(c) \/ HeadDue(c) <= now
        <2>1. d.pending = c.pending /\ d.inflight = c.inflight /\ d.latency = c.latency
            BY <1>2, <1>5, <1>7 DEF Quiet, KeepsQueue
        <2>2. CASE d.probe = c.probe
            <3>1. NextDispatchRefreshAt(d) = NextDispatchRefreshAt(c)
                BY <2>1, <2>2 DEF NextDispatchRefreshAt, HasDemand, Queued
            <3> QED
                BY <2>1, <3>1, HeadDueDepends
        <2>3. CASE d.probe # c.probe
            <3>1. c.probe.active # None /\ c.probe.active.until <= now
                BY <1>5, <2>3 DEF Expire
            <3>2. NextDispatchRefreshAt(c) <= now /\ NextDispatchRefreshAt(c) # None
                BY <3>1, RefreshAtType, ConfigAssumption DEF NextDispatchRefreshAt, ControllerOf,
                   Probing, ActiveProbe, Instant
            <3>3. CASE InflightFull(c)
                BY <2>1, <3>3 DEF HeadDue, InflightFull
            <3>4. CASE ~InflightFull(c)
                BY <1>7, <3>2, <3>4, HeadDueType, RefreshAtType DEF HeadDue, Earlier, Instant
            <3> QED
                BY <3>3, <3>4
        <2> QED
            BY <2>2, <2>3
    <1> QED
        BY <1>6, <1>7, SameDueAnnounces DEF d

\* Handing the changes over changes nothing else.
LEMMA TakeChangesFacts ==
    ASSUME NEW id, NEW c \in ControllerOf(id)
    PROVE  LET d == TakeChanges(c) IN
           /\ d \in ControllerOf(id)
           /\ KeepsQueue(c, d)
           /\ d.inflight = c.inflight /\ d.pending = c.pending
           /\ Paced(c) => Paced(d)
           /\ HeadDue(d) = HeadDue(c)
    <1> DEFINE d == TakeChanges(c)
    <1>1. d = [c EXCEPT !.changes = NoChanges] /\ NoChanges \in Changes
        BY DEF TakeChanges, NoChanges, Changes
    <1> HIDE DEF d
    <1>2. /\ d \in ControllerOf(id)
          /\ d.inflight = c.inflight /\ d.pending = c.pending /\ d.next_id = c.next_id
          /\ d.pacer = c.pacer /\ d.probe = c.probe /\ d.latency = c.latency
        BY <1>1 DEF ControllerOf
    <1>3. NextDispatchRefreshAt(d) = NextDispatchRefreshAt(c)
        BY <1>2 DEF NextDispatchRefreshAt, HasDemand, Queued
    <1>4. HeadDue(d) = HeadDue(c)
        BY <1>2, <1>3, HeadDueDepends
    <1>5. Paced(c) => Paced(d)
        BY <1>2, PacedDepends
    <1>6. KeepsQueue(c, d)
        BY <1>2 DEF KeepsQueue, Queued
    <1> QED
        BY <1>2, <1>4, <1>5, <1>6 DEF d
-------------------------------------------------------------------------------
(* Sleepers.                                                                   *)

\* An announcement of what changed before is not taken back.
LEMMA AnnouncesTransitive ==
    ASSUME NEW id, NEW b \in ControllerOf(id), NEW c \in ControllerOf(id),
           NEW d \in ControllerOf(id), NEW now \in Instant,
           Announces(b, c, now), Announces(c, d, now), Queued(b) > 0 => Queued(c) > 0,
           c.changes.dispatch => d.changes.dispatch, c.changes.admission => d.changes.admission
    PROVE  Announces(b, d, now)
    <1>1. ASSUME Queued(b) > 0, Queued(d) > 0, d.pending[1].id # b.pending[1].id
          PROVE  d.changes.dispatch
        BY <1>1 DEF Announces
    <1>2. ASSUME Queued(b) > 0, Queued(d) > 0, Later(now, HeadDue(d)) < Later(now, HeadDue(b))
          PROVE  d.changes.dispatch
        <2>1. Queued(c) > 0
            BY <1>2
        <2>2. HeadDue(b) \in Int /\ HeadDue(c) \in Int /\ HeadDue(d) \in Int /\ now \in Int
            BY <1>2, <2>1, HeadDueType DEF Instant
        <2>3. \/ Later(now, HeadDue(d)) < Later(now, HeadDue(c))
              \/ Later(now, HeadDue(c)) < Later(now, HeadDue(b))
            BY <1>2, <2>2 DEF Later
        <2> QED
            BY <1>2, <2>1, <2>3 DEF Announces
    <1>3. ~MaySchedule(b) /\ MaySchedule(d) => d.changes.admission
        BY DEF Announces
    <1> QED
        BY <1>1, <1>2, <1>3 DEF Announces

\* The head is the one with the least id.
LEMMA HeadIsLeast ==
    ASSUME NEW id, NEW c \in ControllerOf(id), Ordered(c), NEW i
    PROVE  HeadIs(c, i) <=> i \in Ids(c) /\ \A j \in Ids(c) : i <= j
    <1> DEFINE n == Queued(c)
    <1>1. n \in Nat /\ \A k \in 1 .. n : c.pending[k].id \in Nat
        BY IdsAreNumbers
    <1>2. ASSUME HeadIs(c, i) PROVE i \in Ids(c) /\ \A j \in Ids(c) : i <= j
        <2>1. n > 0 /\ 1 \in 1 .. n /\ c.pending[1].id = i
            BY <1>1, <1>2 DEF HeadIs
        <2>2. \A k \in 1 .. n : i <= c.pending[k].id
            <3> TAKE k \in 1 .. n
            <3>1. k = 1 \/ 1 < k
                OBVIOUS
            <3> QED
                BY <1>1, <2>1, <3>1 DEF Ordered
        <2> QED
            BY <2>1, <2>2 DEF Ids
    <1>3. ASSUME i \in Ids(c), \A j \in Ids(c) : i <= j PROVE HeadIs(c, i)
        <2>1. PICK k \in 1 .. n : c.pending[k].id = i
            BY <1>3 DEF Ids
        <2>2. 1 \in 1 .. n /\ n > 0
            BY <1>1
        <2>3. i <= c.pending[1].id
            BY <1>3, <2>2 DEF Ids
        <2>4. k = 1
            BY <1>1, <2>1, <2>2, <2>3 DEF Ordered
        <2> QED
            BY <2>1, <2>2, <2>4 DEF HeadIs
    <1> QED
        BY <1>2, <1>3

\* What a sleeper that looked at the controller relies on: only the head is given
\* a deadline, and it stays the head; until a wakeup is on its way, whoever has
\* none is not the head or finds the flight full.
Waits(c, at, i, deadline, quiet) ==
    /\ deadline # None => HeadIs(c, i)
    /\ quiet => IF deadline = None THEN ~HeadIs(c, i) \/ InflightFull(c)
                ELSE deadline <= Later(at, HeadDue(c))

\* It may go on relying on it after a call that announced what it changed.
LEMMA WaitsKept ==
    ASSUME NEW id, NEW c \in ControllerOf(id), NEW d \in ControllerOf(id),
           Ordered(c), Ordered(d), NEW at \in Instant, NEW i,
           NEW deadline \in Instant \cup {None},
           NEW quiet \in BOOLEAN, NEW still \in BOOLEAN,
           Waits(c, at, i, deadline, quiet), Announces(c, d, at),
           i \in Ids(c), i \in Ids(d), Ids(d) \subseteq Ids(c) \cup {c.next_id},
           still => quiet /\ ~d.changes.dispatch /\ d.inflight = c.inflight
    PROVE  Waits(d, at, i, deadline, still)
    <1>1. Queued(c) > 0 /\ Queued(d) > 0 /\ Queued(c) \in Nat /\ Queued(d) \in Nat
        BY IdsAreNumbers DEF Ids
    <1>2. HeadIs(c, i) => HeadIs(d, i)
        <2>1. \A j \in Ids(c) : j < c.next_id
            BY DEF Ids, Ordered
        <2>2. ASSUME HeadIs(c, i), NEW j \in Ids(d) PROVE i <= j
            <3>1. \A k \in Ids(c) : i <= k
                BY <2>2, HeadIsLeast
            <3>2. i \in Int
                <4>1. \A k \in Ids(c) : k \in 0 .. MaxId - 1
                    BY IdsAreNumbers DEF Ids
                <4> QED
                    BY <4>1
            <3>3. c.next_id \in Int
                BY ControllerAssumption DEF ControllerOf
            <3> QED
                BY <2>1, <3>1, <3>2, <3>3
        <2> QED
            BY <2>2, HeadIsLeast
    <1>3. still => d.pending[1].id = c.pending[1].id
        BY <1>1 DEF Announces
    <1>4. still => (HeadIs(d, i) => HeadIs(c, i)) /\ InflightFull(d) = InflightFull(c)
        BY <1>1, <1>3 DEF HeadIs, InflightFull
    <1>5. still => ~(Later(at, HeadDue(d)) < Later(at, HeadDue(c)))
        BY <1>1 DEF Announces
    <1>6. Later(at, HeadDue(d)) \in Int /\ Later(at, HeadDue(c)) \in Int
        BY <1>1, HeadDueType DEF Later, Instant
    <1>7. deadline # None => deadline \in Int
        BY DEF Instant
    <1> QED
        BY <1>2, <1>4, <1>5, <1>6, <1>7 DEF Waits

\* It may go on relying on it while time passes.
LEMMA WaitsOn ==
    ASSUME NEW id, NEW c \in ControllerOf(id), NEW at \in Instant, NEW later \in Instant,
           at <= later, NEW i, NEW deadline \in Instant \cup {None}, NEW quiet \in BOOLEAN,
           Waits(c, at, i, deadline, quiet)
    PROVE  Waits(c, later, i, deadline, quiet)
    <1>1. CASE deadline = None
        BY <1>1 DEF Waits
    <1>2. CASE deadline # None
        <2>1. HeadIs(c, i)
            BY <1>2 DEF Waits
        <2>2. HeadDue(c) \in Int
            BY <2>1, HeadDueType DEF HeadIs
        <2>3. /\ Later(at, HeadDue(c)) <= Later(later, HeadDue(c))
              /\ Later(at, HeadDue(c)) \in Int /\ Later(later, HeadDue(c)) \in Int
            BY <2>2 DEF Later, Instant
        <2>4. deadline \in Int
            BY <1>2 DEF Instant
        <2> QED
            BY <1>2, <2>1, <2>3, <2>4 DEF Waits
    <1> QED
        BY <1>1, <1>2

\* A check that does not answer Ready answers what a sleeper may rely on.
LEMMA CheckWaits ==
    ASSUME NEW id, NEW c \in ControllerOf(id), NEW r, NEW draw \in Draw,
           NEW now \in Instant, NEW at \in Instant, Paced(c), Owns(c, r), r.id \in Ids(c),
           NEW quiet \in BOOLEAN, Check(c, r, draw, at).answer.tag # "Ready"
    PROVE  LET checked == Check(c, r, draw, at) IN
           Waits(checked.ctl, now, r.id, checked.answer.at, quiet)
    <1> DEFINE checked == Check(c, r, draw, at)
               d == checked.ctl
    <1>1. d \in ControllerOf(id)
        BY CheckFacts
    <1>2. \/ /\ checked.answer.at = None
             /\ ~HeadIs(d, r.id) \/ InflightFull(d)
          \/ checked.answer.at = HeadDue(d) /\ HeadIs(d, r.id)
        BY CheckAnnounces
    <1> HIDE DEF checked
    <1>3. HeadIs(d, r.id) => HeadDue(d) \in Int /\ HeadDue(d) # None
        BY <1>1, HeadDueType, ConfigAssumption DEF HeadIs
    <1>4. CASE checked.answer.at = None
        <2>1. ~HeadIs(d, r.id) \/ InflightFull(d)
            BY <1>2, <1>3, <1>4
        <2> QED
            BY <1>4, <2>1 DEF Waits, checked
    <1>5. CASE checked.answer.at # None
        <2>1. checked.answer.at = HeadDue(d) /\ HeadIs(d, r.id)
            BY <1>2, <1>5
        <2>2. HeadDue(d) <= Later(now, HeadDue(d))
            BY <1>3, <2>1 DEF Later, Instant
        <2> QED
            BY <1>5, <2>1, <2>2 DEF Waits, checked
    <1> QED
        BY <1>4, <1>5

\* What a check leaves of its effects concerns the head only: whoever else waits
\* at the controller may go on doing so although they are dropped.
LEMMA CheckSparesOthers ==
    ASSUME NEW id, NEW c \in ControllerOf(id), NEW r, NEW draw \in Draw,
           NEW now \in Instant, NEW at \in Instant, Paced(c), Owns(c, r), r.id \in Ids(c),
           NEW i, i # r.id, NEW deadline \in Instant \cup {None}, NEW quiet \in BOOLEAN,
           Waits(c, now, i, deadline, quiet)
    PROVE  Waits(Check(c, r, draw, at).ctl, now, i, deadline, quiet)
    <1> DEFINE d == Check(c, r, draw, at).ctl
    <1>1. d \in ControllerOf(id) /\ KeepsQueue(c, d)
        BY CheckFacts
    <1>2. ~HeadIs(c, r.id) => d = c
        BY DEF Check
    <1> HIDE DEF d
    <1>3. HeadIs(d, i) = HeadIs(c, i) /\ InflightFull(d) = InflightFull(c)
        BY <1>1, IdsAreNumbers DEF HeadIs, KeepsQueue, InflightFull
    <1>4. CASE deadline = None
        BY <1>3, <1>4 DEF Waits, d
    <1>5. CASE deadline # None
        <2>1. HeadIs(c, i)
            BY <1>5 DEF Waits
        <2>2. d = c
            BY <1>2, <2>1 DEF HeadIs
        <2> QED
            BY <2>2 DEF d
    <1> QED
        BY <1>4, <1>5
-------------------------------------------------------------------------------
(* A refresh settles everything that is due.                                   *)

\* No probe is over, and the next decision, when one is wanted, is to come; the
\* last instant has no later one.
Settled(probe, wanted, now) ==
    /\ probe \in Probing
    /\ probe.active # None => probe.active.until > now
    /\ probe.active = None /\ wanted =>
         /\ probe.next_probe_at # None
         /\ probe.next_probe_at > now \/ (now = MaxInstant /\ probe.next_probe_at = now)

LEMMA ExpireSettles ==
    ASSUME NEW probe \in Probing, NEW now \in Instant
    PROVE  LET after == Expire(probe, now) IN
           /\ after \in Probing
           /\ after.next_probe_at = probe.next_probe_at
           /\ after.active # None => after = probe /\ after.active.until > now
           /\ probe.active = None => after = probe
    <1>1. probe.active # None => probe.active.until \in Instant
        BY DEF Probing, ActiveProbe
    <1>2. Expire(probe, now) \in Probing
        BY ExpireType
    <1> QED
        BY <1>1, <1>2 DEF Expire, Probing, Instant

LEMMA MaybeStartSettles ==
    ASSUME NEW probe \in Probing, NEW draw \in Draw, NEW now \in Instant
    PROVE  Settled(Expire(MaybeStart(probe, draw, now), now), TRUE, now)
    <1> DEFINE current == Expire(probe, now)
               after == MaybeStart(probe, draw, now)
               final == Expire(after, now)
               kind == IF draw.kind = "none" THEN None
                       ELSE [kind |-> draw.kind, until |-> SaturatingAdd(now, ProbeDuration)]
               next == SaturatingAdd(now, draw.interval)
    <1>1. /\ current \in Probing
          /\ current.active # None => current.active.until > now
        BY ExpireSettles
    <1>2. after \in Probing
        BY MaybeStartType
    <1>3. /\ final \in Probing /\ final.next_probe_at = after.next_probe_at
          /\ final.active # None => final = after /\ final.active.until > now
          /\ after.active = None => final = after
        BY <1>2, ExpireSettles
    <1>4. draw.interval \in Nat \ {0}
        BY ProbeAssumption DEF Draw
    <1>5. /\ next \in Instant
          /\ next > now \/ (now = MaxInstant /\ next = now)
        <2>1. next \in Instant /\ next >= now /\ (next > now \/ next = MaxInstant)
            BY <1>4, SaturatingAddFacts
        <2> HIDE DEF next
        <2> QED
            BY <2>1, ConfigAssumption DEF Instant
    <1>6. \/ after = current /\ (\/ current.active # None
                                 \/ current.next_probe_at # None /\ current.next_probe_at > now)
          \/ after = [active |-> kind, next_probe_at |-> next]
        <2>1. current.next_probe_at \in Instant \cup {None}
            BY <1>1 DEF Probing
        <2> HIDE DEF current, next
        <2> QED
            BY <2>1 DEF MaybeStart, current, next, Instant
    <1> HIDE DEF current, after, final, kind, next
    <1>7. final.active = None =>
            /\ final.next_probe_at # None
            /\ final.next_probe_at > now \/ (now = MaxInstant /\ final.next_probe_at = now)
        <2>1. CASE after = current /\ current.active # None
            <3>1. final = after
                BY <1>1, <1>2, <2>1 DEF final, Expire, Probing, ActiveProbe, Instant
            <3> QED
                BY <2>1, <3>1
        <2>2. CASE after = current /\ current.next_probe_at # None /\ current.next_probe_at > now
            BY <1>3, <2>2
        <2>3. CASE after = [active |-> kind, next_probe_at |-> next]
            BY <1>3, <1>5, <2>3, ConfigAssumption DEF Instant
        <2> QED
            BY <1>6, <2>1, <2>2, <2>3
    <1>8. Settled(final, TRUE, now)
        BY <1>3, <1>7 DEF Settled
    <1> QED
        BY <1>8 DEF final, after

\* What is settled, a second look at the same instant leaves as it is.
LEMMA SettledStays ==
    ASSUME NEW probe, NEW draw \in Draw, NEW now \in Instant, NEW wanted \in BOOLEAN,
           Settled(probe, wanted, now)
    PROVE  /\ Expire(probe, now) = probe
           /\ wanted => Expire(MaybeStart(probe, draw, now), now) = probe
    <1>1. probe \in Probing /\ probe.next_probe_at \in Instant \cup {None}
        BY DEF Settled, Probing
    <1>2. Expire(probe, now) = probe
        BY DEF Settled, Expire, Instant, Probing, ActiveProbe
    <1>3. ASSUME wanted PROVE Expire(MaybeStart(probe, draw, now), now) = probe
        <2>1. CASE probe.active # None
            BY <1>2, <2>1 DEF MaybeStart
        <2>2. CASE probe.active = None /\ probe.next_probe_at > now
            <3>1. probe.next_probe_at # None
                BY <1>3, <2>2 DEF Settled
            <3>2. MaybeStart(probe, draw, now) = probe
                BY <1>2, <2>2, <3>1 DEF MaybeStart
            <3> QED
                BY <1>2, <3>2
        <2>3. CASE probe.active = None /\ now = MaxInstant /\ probe.next_probe_at = now
            <3> DEFINE after == MaybeStart(probe, draw, now)
            <3>1. now # None /\ ~(now > now)
                BY ConfigAssumption DEF Instant
            <3>2. SaturatingAdd(now, draw.interval) = now /\ SaturatingAdd(now, ProbeDuration) = now
                <4>1. draw.interval \in Nat /\ ProbeDuration \in Nat
                    BY ProbeAssumption DEF Draw
                <4> QED
                    BY <2>3, <4>1, ConfigAssumption DEF SaturatingAdd, Earlier, Instant
            <3>3. after = [active |-> IF draw.kind = "none" THEN None
                                      ELSE [kind |-> draw.kind, until |-> now],
                           next_probe_at |-> now]
                BY <1>2, <2>3, <3>1, <3>2 DEF MaybeStart
            <3> HIDE DEF after
            <3>4. after.next_probe_at = now /\ (after.active # None => after.active.until = now)
                BY <3>3
            <3>5. Expire(after, now) = [active |-> None, next_probe_at |-> now]
                BY <3>1, <3>3, <3>4 DEF Expire, Instant
            <3>6. probe = [active |-> None, next_probe_at |-> now]
                BY <1>1, <2>3 DEF Probing
            <3> QED
                BY <3>5, <3>6 DEF after
        <2> QED
            BY <1>3, <2>1, <2>2, <2>3 DEF Settled
    <1> QED
        BY <1>2, <1>3

\* The head of a rebuilt queue stands at the first slot.
LEMMA RebuiltHead ==
    ASSUME NEW id, NEW c \in ControllerOf(id), NEW now \in Instant
    PROVE  LET d == RebuildVirtualQueue(c, now) IN
           Queued(d) > 0 => ~(d.pending[1].scheduled_at < NextAt(c.pacer, now))
    <1> DEFINE queue == [i \in 1 .. Queued(c) |->
                           [c.pending[i] EXCEPT !.scheduled_at = Slot(c.pacer, i, now)]]
               d == RebuildVirtualQueue(c, now)
    <1> SUFFICES ASSUME Queued(d) > 0
                 PROVE  ~(d.pending[1].scheduled_at < NextAt(c.pacer, now))
        OBVIOUS
    <1>1. Queued(d) = Queued(c) /\ Queued(c) \in Nat
        BY RebuildFacts, IdsAreNumbers DEF KeepsQueue
    <1>2. d = [c EXCEPT !.pending = queue]
        BY DEF RebuildVirtualQueue
    <1>3. d.pending = queue
        BY <1>2 DEF ControllerOf
    <1>4. c.pending[1] \in Pending /\ c.pacer \in Pacer /\ 1 \in 1 .. Queued(c)
        BY <1>1 DEF ControllerOf, Queued
    <1>5. queue[1].scheduled_at = Slot(c.pacer, 1, now)
        BY <1>4 DEF Pending
    <1>6. NextAt(c.pacer, now) \in Instant
        BY <1>4, LaterInstant DEF NextAt, Pacer
    <1>7. (1 - 1) * c.pacer.interval = 0
        BY <1>4 DEF Pacer
    <1>8. Slot(c.pacer, 1, now) = NextAt(c.pacer, now)
        BY <1>6, <1>7, ConfigAssumption DEF Slot, SaturatingAdd, Earlier, Instant
    <1> HIDE DEF queue, d
    <1> QED
        BY <1>3, <1>5, <1>6, <1>8 DEF Instant

\* After a refresh the probe is settled, the pacer has the rate of the moment
\* and the head is not behind it.
LEMMA RefreshIsSettled ==
    ASSUME NEW id, NEW c \in ControllerOf(id), NEW draw \in Draw, NEW now \in Instant, Paced(c)
    PROVE  LET d == Refresh(c, draw, now) IN
           /\ d \in ControllerOf(id)
           /\ Settled(d.probe, HasDemand(d), now)
           /\ d.pacer.interval = RateToInterval(EffectiveRate(d, now))
           /\ Queued(d) > 0 => ~(d.pending[1].scheduled_at < NextAt(d.pacer, now))
    <1> DEFINE probed == Probed(c, draw, now)
               rate == EffectiveRate(probed, now)
               pacer == SetRate(probed.pacer, rate, now)
               expired == [probed EXCEPT !.probe = Expire(@, now)]
               updated == Follow(expired, pacer, now)
               d == Refresh(c, draw, now)
               wanted == HasDemand(c)
    <1>0. wanted \in BOOLEAN
        BY DEF HasDemand, ControllerOf, Estimator
    <1>1. Settled(probed.probe, wanted, now)
        <2>1. probed.probe = Expire(IF wanted THEN MaybeStart(c.probe, draw, now) ELSE c.probe, now)
            BY DEF Probed, ControllerOf
        <2>2. c.probe \in Probing
            BY DEF ControllerOf
        <2> HIDE DEF wanted, probed
        <2>3. CASE wanted
            BY <2>1, <2>2, <2>3, MaybeStartSettles DEF Settled
        <2>4. CASE ~wanted
            BY <2>1, <2>2, <2>4, ExpireSettles DEF Settled
        <2> QED
            BY <2>3, <2>4
    <1>2. /\ probed \in ControllerOf(id) /\ probed.pending = c.pending
          /\ probed.latency = c.latency /\ probed.inflight = c.inflight
          /\ probed.pacer = c.pacer
        <2>1. Expire(IF HasDemand(c) THEN MaybeStart(c.probe, draw, now) ELSE c.probe, now)
                \in Probing
            BY MaybeStartType, ExpireType DEF ControllerOf
        <2> QED
            BY <2>1 DEF Probed, ControllerOf
    <1>3. d = Announced(c, updated)
        BY DEF Refresh, UpdateRate, ControllerOf
    <1> HIDE DEF probed, wanted
    <1>4. Expire(probed.probe, now) = probed.probe
        BY <1>0, <1>1, SettledStays DEF Settled
    <1>5. expired = probed
        BY <1>2, <1>4 DEF ControllerOf
    <1>6. pacer \in Pacer /\ pacer.interval = RateToInterval(rate)
        <2>1. probed.pacer \in Pacer /\ rate \in Rate
            BY <1>2, EffectiveRateType DEF ControllerOf
        <2> HIDE DEF rate
        <2>2. pacer \in Pacer
            BY <2>1, SetRateType
        <2>3. pacer.interval = RateToInterval(rate)
            BY <2>1 DEF SetRate, Pacer
        <2> QED
            BY <2>2, <2>3
    <1>7. pacer.interval = probed.pacer.interval => pacer = probed.pacer
        BY SetRateSameInterval
    <1> HIDE DEF rate, pacer, expired
    <1>8. Paced(probed)
        BY <1>2, PacedDepends
    <1>9. /\ updated \in ControllerOf(id) /\ Quiet(probed, updated)
          /\ updated.probe = probed.probe /\ KeepsQueue(probed, updated)
        BY <1>2, <1>5, <1>6, <1>7, <1>8, FollowFacts, FollowIsQuiet
    <1>10. /\ updated.pacer = pacer
           /\ updated.gradient = probed.gradient
           /\ updated.feedback_epoch = probed.feedback_epoch
           /\ Queued(updated) > 0 => ~(updated.pending[1].scheduled_at < NextAt(pacer, now))
        <2> DEFINE taken == [probed EXCEPT !.pacer = pacer]
                   rebuilt == RebuildVirtualQueue(taken, now)
                   told == [rebuilt EXCEPT !.changes.dispatch = TRUE]
                   behind == Queued(probed) > 0 /\ probed.pending[1].scheduled_at < NextAt(pacer, now)
        <2>1. updated = IF pacer.interval # probed.pacer.interval \/ behind THEN told ELSE taken
            BY <1>5 DEF Follow
        <2>2. /\ taken \in ControllerOf(id) /\ taken.pending = probed.pending
              /\ taken.pacer = pacer /\ taken.gradient = probed.gradient
              /\ taken.feedback_epoch = probed.feedback_epoch
            BY <1>2, <1>6 DEF ControllerOf
        <2> HIDE DEF taken
        <2>3. /\ rebuilt \in ControllerOf(id) /\ KeepsQueue(taken, rebuilt)
              /\ rebuilt = [taken EXCEPT !.pending = rebuilt.pending]
            BY <2>2, RebuildFacts
        <2>4. Queued(rebuilt) > 0 => ~(rebuilt.pending[1].scheduled_at < NextAt(pacer, now))
            BY <1>6, <2>2, <2>3, RebuiltHead
        <2> HIDE DEF rebuilt
        <2>5. /\ rebuilt.pacer = pacer /\ rebuilt.gradient = probed.gradient
              /\ rebuilt.feedback_epoch = probed.feedback_epoch
            BY <2>2, <2>3 DEF ControllerOf
        <2>6. /\ told.pacer = rebuilt.pacer /\ told.gradient = rebuilt.gradient
              /\ told.feedback_epoch = rebuilt.feedback_epoch /\ told.pending = rebuilt.pending
            BY <2>3 DEF ControllerOf
        <2> HIDE DEF told, updated
        <2>7. CASE updated = told
            BY <2>4, <2>5, <2>6, <2>7 DEF Queued
        <2>8. CASE updated = taken /\ ~behind
            BY <2>2, <2>8 DEF Queued
        <2> QED
            BY <2>1, <2>7, <2>8
    <1> HIDE DEF updated, d
    <1>11. /\ d.pending = updated.pending /\ d.pacer = updated.pacer /\ d.probe = updated.probe
           /\ d.latency = updated.latency /\ d.inflight = updated.inflight
           /\ d.gradient = updated.gradient /\ d.feedback_epoch = updated.feedback_epoch
        BY <1>3, <1>9 DEF Announced, ControllerOf
    <1>12. HasDemand(d) = wanted
        BY <1>2, <1>9, <1>11 DEF HasDemand, Queued, KeepsQueue, Quiet, wanted
    <1>13. EffectiveRate(d, now) = rate
        BY <1>9, <1>10, <1>11 DEF EffectiveRate, BaseRate, Quiet, rate
    <1>14. d \in ControllerOf(id)
        BY RefreshFacts DEF d
    <1>15. Settled(d.probe, HasDemand(d), now)
        BY <1>1, <1>9, <1>11, <1>12
    <1>16. Queued(d) > 0 => ~(d.pending[1].scheduled_at < NextAt(d.pacer, now))
        BY <1>10, <1>11 DEF Queued
    <1> QED
        BY <1>6, <1>10, <1>11, <1>13, <1>14, <1>15, <1>16 DEF d

LEMMA SameField ==
    ASSUME NEW S, NEW T, NEW f \in [admission : S, dispatch : T], NEW value,
           value = f.dispatch
    PROVE  [f EXCEPT !.dispatch = value] = f
    OBVIOUS

\* A second refresh at the same instant is no refresh at all.
LEMMA RefreshSettled ==
    ASSUME NEW id, NEW c \in ControllerOf(id), NEW draw \in Draw, NEW now \in Instant,
           Settled(c.probe, HasDemand(c), now),
           c.pacer.interval = RateToInterval(EffectiveRate(c, now)),
           Queued(c) > 0 => ~(c.pending[1].scheduled_at < NextAt(c.pacer, now))
    PROVE  Refresh(c, draw, now) = c
    <1>1. HasDemand(c) \in BOOLEAN
        BY DEF HasDemand, ControllerOf, Estimator
    <1>2. /\ Expire(c.probe, now) = c.probe
          /\ HasDemand(c) => Expire(MaybeStart(c.probe, draw, now), now) = c.probe
        BY <1>1, SettledStays
    <1>3. [c EXCEPT !.probe = c.probe] = c /\ [c EXCEPT !.pacer = c.pacer] = c
        BY DEF ControllerOf
    <1>4. Probed(c, draw, now) = c
        <2>1. Probed(c, draw, now) =
                [c EXCEPT !.probe = Expire(IF HasDemand(c) THEN MaybeStart(c.probe, draw, now)
                                           ELSE c.probe, now)]
            BY DEF Probed, ControllerOf
        <2>2. Expire(IF HasDemand(c) THEN MaybeStart(c.probe, draw, now) ELSE c.probe, now) = c.probe
            BY <1>2
        <2> QED
            BY <1>3, <2>1, <2>2
    <1>5. SetRate(c.pacer, EffectiveRate(c, now), now) = c.pacer
        BY DEF SetRate
    <1>6. UpdateRate(c, now) = c
        <2>1. [c EXCEPT !.probe = Expire(@, now)] = c
            BY <1>2, <1>3 DEF ControllerOf
        <2>2. UpdateRate(c, now) = Follow(c, c.pacer, now)
            BY <1>5, <2>1 DEF UpdateRate
        <2>3. Follow(c, c.pacer, now) = [c EXCEPT !.pacer = c.pacer]
            BY DEF Follow
        <2> QED
            BY <1>3, <2>2, <2>3
    <1>7. Refresh(c, draw, now) = Announced(c, c)
        BY <1>4, <1>6 DEF Refresh
    <1>8. Announced(c, c) = c
        <2> DEFINE raised == c.changes.dispatch \/ FALSE
        <2>1. Announced(c, c) = [c EXCEPT !.changes = [c.changes EXCEPT !.dispatch = raised]]
            BY DEF Announced, ControllerOf
        <2>2. [c.changes EXCEPT !.dispatch = raised] = c.changes
            <3>1. c.changes \in [admission : BOOLEAN, dispatch : BOOLEAN]
                BY DEF ControllerOf, Changes
            <3>2. raised = c.changes.dispatch
                BY <3>1
            <3> HIDE DEF raised
            <3> QED
                BY <3>1, <3>2, SameField
        <2>3. [c EXCEPT !.changes = c.changes] = c
            BY DEF ControllerOf
        <2> QED
            BY <2>1, <2>2, <2>3
    <1> QED
        BY <1>7, <1>8

\* A head that is told to wait is told an instant to come.
LEMMA WaitsForLater ==
    ASSUME NEW id, NEW c \in ControllerOf(id), NEW r, NEW draw \in Draw, NEW now \in Instant,
           Paced(c), Check(c, r, draw, now).answer.tag = "WaitUntil"
    PROVE  Check(c, r, draw, now).answer.at > now
    <1> DEFINE fresh == Refresh(c, draw, now)
               slot == fresh.pending[1].scheduled_at
               refresh_at == NextDispatchRefreshAt(fresh)
               wake_at == IF refresh_at = None THEN slot ELSE Earlier(slot, refresh_at)
    <1>1. /\ HeadIs(c, r.id) /\ slot > now
          /\ Check(c, r, draw, now).answer.at = wake_at
        BY DEF Check, Verdict, Plain
    <1>2. /\ fresh \in ControllerOf(id) /\ KeepsQueue(c, fresh)
          /\ Settled(fresh.probe, HasDemand(fresh), now)
        BY RefreshFacts, RefreshIsSettled
    <1> HIDE DEF fresh
    <1>3. Queued(fresh) > 0
        BY <1>1, <1>2 DEF HeadIs, KeepsQueue
    <1>4. slot \in Instant /\ refresh_at \in Instant \cup {None}
        BY <1>2, <1>3, HeadDueType, RefreshAtType
    <1>5. now # MaxInstant
        BY <1>1, <1>4, ConfigAssumption DEF Instant
    <1>6. refresh_at # None => refresh_at > now
        BY <1>2, <1>5 DEF NextDispatchRefreshAt, Settled
    <1> HIDE DEF slot, refresh_at
    <1>7. wake_at > now
        BY <1>1, <1>4, <1>6 DEF Earlier, Instant
    <1> QED
        BY <1>1, <1>7
-------------------------------------------------------------------------------
(* What a look at the head leaves behind, a second look finds as it is.        *)

\* Nothing of the controller is due at `now` but, maybe, its head.
AtRest(c, now) ==
    /\ Settled(c.probe, HasDemand(c), now)
    /\ c.pacer.interval = RateToInterval(EffectiveRate(c, now))
    /\ Queued(c) > 0 => ~(c.pending[1].scheduled_at < NextAt(c.pacer, now))

\* The head has to wait: for a request to end or for its slot.
HeadWaits(c, now) == InflightFull(c) \/ c.pending[1].scheduled_at > now

\* Being told to wait does not disturb the rest.
LEMMA MarkedRests ==
    ASSUME NEW id, NEW c \in ControllerOf(id), NEW now \in Instant, Queued(c) > 0, AtRest(c, now)
    PROVE  LET d == [c EXCEPT !.pending[1].was_paced = TRUE] IN
           /\ AtRest(d, now)
           /\ Queued(d) > 0
           /\ d.pending[1].scheduled_at = c.pending[1].scheduled_at
           /\ InflightFull(d) = InflightFull(c)
           /\ NextDispatchRefreshAt(d) = NextDispatchRefreshAt(c)
    <1> DEFINE queue == [c.pending EXCEPT ![1].was_paced = TRUE]
               d == [c EXCEPT !.pending[1].was_paced = TRUE]
    <1>1. c.pending \in Seq(Pending) /\ 1 \in 1 .. Len(c.pending) /\ c.pending[1] \in Pending
        BY DEF ControllerOf, Queued
    <1>2. Len(queue) = Len(c.pending) /\ queue[1].scheduled_at = c.pending[1].scheduled_at
        BY <1>1 DEF Pending
    <1>3. d = [c EXCEPT !.pending = queue]
        BY DEF ControllerOf
    <1> HIDE DEF queue
    <1>4. /\ d.pending = queue /\ d.probe = c.probe /\ d.latency = c.latency
          /\ d.inflight = c.inflight /\ d.pacer = c.pacer /\ d.gradient = c.gradient
          /\ d.feedback_epoch = c.feedback_epoch
        BY <1>3 DEF ControllerOf
    <1> HIDE DEF d
    <1>5. Queued(d) = Queued(c)
        BY <1>2, <1>4 DEF Queued
    <1>6. HasDemand(d) = HasDemand(c)
        BY <1>4, <1>5 DEF HasDemand
    <1>7. EffectiveRate(d, now) = EffectiveRate(c, now)
        BY <1>4 DEF EffectiveRate, BaseRate
    <1>8. AtRest(d, now)
        BY <1>2, <1>4, <1>5, <1>6, <1>7 DEF AtRest
    <1>9. NextDispatchRefreshAt(d) = NextDispatchRefreshAt(c)
        BY <1>4, <1>6 DEF NextDispatchRefreshAt
    <1>10. InflightFull(d) = InflightFull(c)
        BY <1>4 DEF InflightFull
    <1> QED
        BY <1>2, <1>4, <1>5, <1>8, <1>9, <1>10 DEF d

\* A waiting head falls due later than now, unless there is no later instant.
LEMMA WaitingIsDueLater ==
    ASSUME NEW id, NEW c \in ControllerOf(id), NEW now \in Instant, Queued(c) > 0,
           AtRest(c, now), HeadWaits(c, now)
    PROVE  HeadDue(c) > now /\ (~InflightFull(c) => HeadDue(c) \in Instant)
    <1> DEFINE slot == c.pending[1].scheduled_at
               refresh_at == NextDispatchRefreshAt(c)
    <1>1. slot \in Instant /\ refresh_at \in Instant \cup {None}
        BY HeadDueType, RefreshAtType
    <1>2. CASE InflightFull(c)
        BY <1>2, ConfigAssumption DEF HeadDue, Never, Instant
    <1>3. CASE ~InflightFull(c)
        <2>1. slot > now
            BY <1>3 DEF HeadWaits
        <2>2. now # MaxInstant
            BY <1>1, <2>1, ConfigAssumption DEF Instant
        <2>3. refresh_at # None => refresh_at > now
            BY <2>2 DEF AtRest, Settled, NextDispatchRefreshAt
        <2>4. HeadDue(c) = IF refresh_at = None THEN slot ELSE Earlier(slot, refresh_at)
            BY <1>3 DEF HeadDue
        <2> HIDE DEF slot, refresh_at
        <2> QED
            BY <1>1, <2>1, <2>3, <2>4 DEF Earlier
    <1> QED
        BY <1>2, <1>3

\* The owner of the head is told the truth: it waits, or it may go; and what it is
\* told leaves the controller at rest.
LEMMA CheckRests ==
    ASSUME NEW id, NEW c \in ControllerOf(id), NEW r, NEW draw \in Draw, NEW now \in Instant,
           Paced(c), Owns(c, r), HeadIs(c, r.id)
    PROVE  LET checked == Check(c, r, draw, now)
               d == checked.ctl
           IN /\ Queued(d) > 0
              /\ AtRest(d, now)
              /\ checked.answer.tag # "Ready" => HeadWaits(d, now)
              /\ checked.answer.tag = "Ready" => ~HeadWaits(d, now)
              /\ \/ checked.answer.tag \in {"Ready", "InflightLimit"}
                 \/ /\ checked.answer.tag = "WaitUntil"
                    /\ checked.answer.at \in Instant
                    /\ checked.answer.at > now
    <1> DEFINE fresh == Refresh(c, draw, now)
               marked == [fresh EXCEPT !.pending[1].was_paced = TRUE]
               slot == fresh.pending[1].scheduled_at
               refresh_at == NextDispatchRefreshAt(fresh)
               wake_at == IF refresh_at = None THEN slot ELSE Earlier(slot, refresh_at)
               checked == Check(c, r, draw, now)
    <1>1. /\ fresh \in ControllerOf(id) /\ KeepsQueue(c, fresh)
          /\ AtRest(fresh, now)
        BY RefreshFacts, RefreshIsSettled DEF AtRest
    <1>2. checked = Verdict(fresh, now)
        <2>1. r.id \in Ids(c)
            BY IdsAreNumbers DEF HeadIs, Ids
        <2> QED
            BY <2>1 DEF Check
    <1> HIDE DEF fresh, checked
    <1>3. Queued(fresh) > 0
        BY <1>1 DEF KeepsQueue, HeadIs
    <1>4. CASE InflightFull(fresh)
        <2>1. checked.ctl = fresh /\ checked.answer.tag = "InflightLimit"
            BY <1>2, <1>4 DEF Verdict, Plain
        <2> QED
            BY <1>1, <1>3, <1>4, <2>1 DEF HeadWaits, checked
    <1>5. CASE ~InflightFull(fresh) /\ slot > now
        <2>1. /\ checked.ctl = marked /\ checked.answer.tag = "WaitUntil"
              /\ checked.answer.at = wake_at
            BY <1>2, <1>5 DEF Verdict
        <2>2. /\ AtRest(marked, now) /\ Queued(marked) > 0
              /\ marked.pending[1].scheduled_at = slot
            BY <1>1, <1>3, MarkedRests
        <2>3. wake_at = HeadDue(fresh)
            BY <1>5 DEF HeadDue
        <2>4. wake_at > now /\ wake_at \in Instant
            BY <1>1, <1>3, <1>5, <2>3, WaitingIsDueLater DEF HeadWaits
        <2> HIDE DEF marked, wake_at, slot
        <2>5. HeadWaits(marked, now)
            BY <1>5, <2>2 DEF HeadWaits
        <2> QED
            BY <2>1, <2>2, <2>4, <2>5 DEF checked
    <1>6. CASE ~InflightFull(fresh) /\ ~(slot > now)
        <2>1. checked.ctl = fresh /\ checked.answer.tag = "Ready"
            BY <1>2, <1>6 DEF Verdict, Plain
        <2> QED
            BY <1>1, <1>3, <1>6, <2>1 DEF HeadWaits, checked
    <1> QED
        BY <1>4, <1>5, <1>6

\* At rest the answer is read off the controller.
LEMMA AnswerAtRest ==
    ASSUME NEW id, NEW c \in ControllerOf(id), NEW r, NEW draw \in Draw, NEW now \in Instant,
           Paced(c), Owns(c, r), HeadIs(c, r.id), AtRest(c, now)
    PROVE  Check(c, r, draw, now).answer.tag = "Ready" <=> ~HeadWaits(c, now)
    <1>1. Refresh(c, draw, now) = c
        BY RefreshSettled DEF AtRest
    <1>2. r.id \in Ids(c)
        BY IdsAreNumbers DEF HeadIs, Ids
    <1>3. Check(c, r, draw, now) = Verdict(c, now)
        BY <1>1, <1>2 DEF Check
    <1> QED
        BY <1>3 DEF Verdict, Plain, HeadWaits

\* Who is told Ready and dispatches at the same instant is let go: the second look
\* that the dispatch takes finds the head as ready as the first.
LEMMA ReadyIsClaimed ==
    ASSUME NEW id, NEW c \in ControllerOf(id), NEW r, NEW draw \in Draw, NEW again \in Draw,
           NEW now \in Instant, Paced(c), Owns(c, r), HeadIs(c, r.id),
           Check(c, r, draw, now).answer.tag = "Ready"
    PROVE  OnDispatched(Check(c, r, draw, now).ctl, r, again, now).answer.tag = "Ready"
    <1> DEFINE d == Check(c, r, draw, now).ctl
    <1>1. AtRest(d, now) /\ ~HeadWaits(d, now)
        BY CheckRests
    <1>2. d \in ControllerOf(id) /\ Paced(d) /\ KeepsQueue(c, d)
        BY CheckFacts
    <1> HIDE DEF d
    <1>3. Owns(d, r) /\ HeadIs(d, r.id)
        BY <1>2, IdsAreNumbers DEF Owns, HeadIs, KeepsQueue, ControllerOf
    <1>4. Check(d, r, again, now).answer.tag = "Ready"
        BY <1>1, <1>2, <1>3, AnswerAtRest
    <1> QED
        BY <1>4 DEF OnDispatched, Claim, d

\* A response takes one off the count and leaves the queue alone, however long the
\* caller says it took.
LEMMA OnCompleteFacts ==
    ASSUME NEW id, NEW c \in ControllerOf(id), NEW token, Owns(c, token),
           token.was_paced \in BOOLEAN, NEW latency \in Nat, NEW now \in Instant,
           c.inflight > 0, Paced(c)
    PROVE  LET d == OnComplete(c, token, TRUE, latency, now) IN
           /\ d \in ControllerOf(id)
           /\ Paced(d)
           /\ KeepsQueue([c EXCEPT !.inflight = @ - 1], d)
    <1> DEFINE observed == ObserveAt(c.latency, latency, now)
               gradient == OnRtt(c.gradient, observed.short, Baseline(observed), c.inflight,
                                 token.was_paced, now)
               learned == [c EXCEPT !.latency = observed, !.gradient = gradient]
               after == Ended(learned)
               epoch == IF after.inflight > 0 THEN NewEpoch(after, now) ELSE None
               e == [after EXCEPT !.feedback_epoch = epoch]
               counted == [c EXCEPT !.inflight = @ - 1]
               d == OnComplete(c, token, TRUE, latency, now)
    <1>1. observed \in Estimator
        BY ObserveType DEF ControllerOf
    <1>2. observed.short \in Nat /\ Baseline(observed) \in Nat
        BY <1>1, BaselineIsNat DEF Estimator
    <1>3. gradient \in Limiter
        BY <1>2, OnRttType DEF ControllerOf
    <1>4. d = UpdateRate(e, now)
        BY DEF OnComplete, Learned, Responded
    <1> HIDE DEF observed, gradient, d
    <1>5. /\ learned \in ControllerOf(id)
          /\ learned.pending = c.pending /\ learned.pacer = c.pacer
          /\ learned.next_id = c.next_id /\ learned.inflight = c.inflight
        BY <1>1, <1>3 DEF ControllerOf
    <1> HIDE DEF learned
    <1>6. c.inflight \in Nat \ {0} /\ c.inflight - 1 \in Nat
        BY DEF ControllerOf
    <1>7. /\ after \in ControllerOf(id)
          /\ after.pending = c.pending /\ after.pacer = c.pacer
          /\ after.next_id = c.next_id /\ after.inflight = c.inflight - 1
        BY <1>5, <1>6 DEF Ended, ControllerOf, Changes
    <1> HIDE DEF after
    <1>8. epoch \in FeedbackEpoch \cup {None}
        BY <1>7, NewEpochType
    <1> HIDE DEF epoch
    <1>9. /\ e \in ControllerOf(id)
          /\ e.pending = c.pending /\ e.pacer = c.pacer
          /\ e.next_id = c.next_id /\ e.inflight = c.inflight - 1
        BY <1>7, <1>8 DEF ControllerOf
    <1> HIDE DEF e
    <1>10. Paced(e)
        BY <1>9, PacedDepends
    <1>11. d \in ControllerOf(id) /\ KeepsQueue(e, d) /\ Paced(d)
        BY <1>4, <1>9, <1>10, UpdateRateFacts
    <1>12. KeepsQueue(counted, e)
        BY <1>9 DEF KeepsQueue, Queued, ControllerOf
    <1> QED
        BY <1>11, <1>12, KeepsQueueTransitive DEF d
-------------------------------------------------------------------------------
(* The pace.  Nothing but evidence makes it quicker, because every change of   *)
(* what it is computed from meanwhile only slows it down.                      *)

\* The interval that the policies ask for at an instant, with the probe that the
\* controller knows of.
Pace(c, at) ==
    RateToInterval(Decayed(PerturbedRate(c.probe, BaseRate(c)), c.feedback_epoch, at))

\* The policies of d ask for no more than those of c.
AsksNoMore(c, d) ==
    /\ d.latency = c.latency
    /\ d.gradient.concurrency <= c.gradient.concurrency
    /\ d.feedback_epoch = c.feedback_epoch \/ c.feedback_epoch = None

\* A method leaves the pace alone or sets it to what the policies ask for.
KeepsPace(c, d) == d.pacer.interval = c.pacer.interval /\ d.probe = c.probe
SetsPace(d, now) == d.pacer.interval = Pace(d, now)

LEMMA BaseRateType ==
    ASSUME NEW id, NEW c \in ControllerOf(id)
    PROVE  BaseRate(c) \in Rate /\ PerturbedRate(c.probe, BaseRate(c)) \in Rate
    <1>1. ExpectedOf(c.latency) \in Nat \ {0}
        BY ExpectedIsPositive DEF ControllerOf
    <1>2. c.gradient.concurrency \in Nat \ {0}
        BY DEF ControllerOf, Limiter, MinLimit, MaxLimit
    <1>3. BaseRate(c) \in Rate
        BY <1>1, <1>2 DEF BaseRate, Rate, ONE
    <1> QED
        BY <1>3, PerturbedRateType DEF ControllerOf

LEMMA PaceIsNat ==
    ASSUME NEW id, NEW c \in ControllerOf(id), NEW now \in Instant
    PROVE  Pace(c, now) \in Nat
    <1> DEFINE rate == Decayed(PerturbedRate(c.probe, BaseRate(c)), c.feedback_epoch, now)
    <1>1. rate \in Rate
        BY BaseRateType, DecayedType DEF ControllerOf
    <1>2. Pace(c, now) = RateToInterval(rate)
        BY DEF Pace
    <1> HIDE DEF rate
    <1> QED
        BY <1>1, <1>2, NearestIsNat DEF RateToInterval, Rate, Later

\* While no probe starts or ends, a lower limit and a longer silence only ask
\* for a longer interval.
LEMMA PaceSlows ==
    ASSUME NEW id, NEW c \in ControllerOf(id), NEW d \in ControllerOf(id),
           NEW now \in Instant, NEW later \in Instant, now <= later,
           AsksNoMore(c, d), d.probe.active = c.probe.active
    PROVE  Pace(c, now) <= Pace(d, later)
    <1> DEFINE a == PerturbedRate(d.probe, BaseRate(d))
               b == PerturbedRate(c.probe, BaseRate(c))
               x == Decayed(a, d.feedback_epoch, later)
               y == Decayed(b, c.feedback_epoch, now)
    <1>1. /\ BaseRate(c) \in Rate /\ BaseRate(d) \in Rate /\ a \in Rate /\ b \in Rate
          /\ c.probe \in Probing
          /\ c.feedback_epoch \in FeedbackEpoch \cup {None}
          /\ d.feedback_epoch \in FeedbackEpoch \cup {None}
        BY BaseRateType DEF ControllerOf
    <1>2. NoFaster(BaseRate(d), BaseRate(c))
        <2> DEFINE m == d.gradient.concurrency  n == c.gradient.concurrency
                   e == ExpectedOf(c.latency)
        <2>1. m \in Nat /\ n \in Nat /\ m <= n
            BY DEF ControllerOf, Limiter, MinLimit, MaxLimit, AsksNoMore
        <2>2. e \in Nat \ {0}
            BY ExpectedIsPositive DEF ControllerOf
        <2>3. /\ BaseRate(d) = [num |-> m, den |-> 100 * e]
              /\ BaseRate(c) = [num |-> n, den |-> 100 * e]
            BY DEF BaseRate, AsksNoMore, ONE
        <2> HIDE DEF m, n, e
        <2>4. m * (100 * e) <= n * (100 * e)
            BY <2>1, <2>2, CrossMultiply
        <2> QED
            BY <2>3, <2>4 DEF NoFaster
    <1>3. a = PerturbedRate(c.probe, BaseRate(d))
        BY DEF PerturbedRate
    <1>4. NoFaster(a, b)
        BY <1>1, <1>2, <1>3, PerturbedKeepsOrder
    <1>5. Pace(c, now) = RateToInterval(y) /\ Pace(d, later) = RateToInterval(x)
        BY DEF Pace
    <1>6. x \in Rate /\ y \in Rate
        BY <1>1, DecayedType
    <1>7. NoFaster(x, y)
        <2>1. CASE d.feedback_epoch = c.feedback_epoch
            <3>1. x = Decayed(a, c.feedback_epoch, later)
                BY <2>1
            <3> HIDE DEF a, b, x
            <3> QED
                BY <1>1, <1>4, <3>1, DecayedKeepsOrder
        <2>2. CASE c.feedback_epoch = None
            <3>1. y = b
                BY <2>2 DEF Decayed
            <3>2. NoFaster(x, a)
                BY <1>1, DecayedSlows
            <3> HIDE DEF a, b, x, y
            <3> QED
                BY <1>1, <1>4, <1>6, <3>1, <3>2, NoFasterTransitive
        <2> QED
            BY <2>1, <2>2 DEF AsksNoMore
    <1> HIDE DEF x, y
    <1> QED
        BY <1>5, <1>6, <1>7, SlowerRateLongerInterval

\* What a method does to a pace that trails what the policies ask for.
LEMMA PaceTrails ==
    ASSUME NEW id, NEW c \in ControllerOf(id), NEW d \in ControllerOf(id), NEW now \in Instant,
           c.pacer.interval <= Pace(c, now), AsksNoMore(c, d),
           KeepsPace(c, d) \/ SetsPace(d, now)
    PROVE  /\ d.pacer.interval <= Pace(d, now)
           /\ d.probe.active = c.probe.active => c.pacer.interval <= d.pacer.interval
    <1>1. /\ Pace(c, now) \in Nat /\ Pace(d, now) \in Nat
          /\ c.pacer.interval \in Nat /\ d.pacer.interval \in Nat
        BY PaceIsNat DEF ControllerOf, Pacer
    <1>2. d.probe.active = c.probe.active => Pace(c, now) <= Pace(d, now)
        BY PaceSlows DEF Instant
    <1> QED
        BY <1>1, <1>2 DEF KeepsPace, SetsPace

LEMMA UpdateRateSetsPace ==
    ASSUME NEW id, NEW c \in ControllerOf(id), NEW now \in Instant
    PROVE  LET d == UpdateRate(c, now) IN SetsPace(d, now) /\ SameLearning(c, d)
    <1> DEFINE rate == EffectiveRate(c, now)
               pacer == SetRate(c.pacer, rate, now)
               updated == [c EXCEPT !.probe = Expire(@, now), !.pacer = pacer]
               rebuilt == RebuildVirtualQueue(updated, now)
               told == [rebuilt EXCEPT !.changes.dispatch = TRUE]
               d == UpdateRate(c, now)
    <1>1. d = told \/ d = updated
        BY DEF UpdateRate, Follow, ControllerOf
    <1>2. rate = Decayed(PerturbedRate(Expire(c.probe, now), BaseRate(c)), c.feedback_epoch, now)
        BY DEF EffectiveRate
    <1>3. Expire(c.probe, now) \in Probing /\ rate \in Rate
        BY EffectiveRateType, ExpireType DEF ControllerOf
    <1> HIDE DEF rate
    <1>4. pacer \in Pacer /\ pacer.interval = RateToInterval(rate)
        BY <1>3, SetRateType DEF SetRate, ControllerOf
    <1> HIDE DEF pacer, d
    <1>5. /\ updated \in ControllerOf(id) /\ updated.pacer = pacer
          /\ updated.probe = Expire(c.probe, now)
        BY <1>3, <1>4 DEF ControllerOf
    <1> HIDE DEF updated
    <1>6. rebuilt = [updated EXCEPT !.pending = rebuilt.pending] /\ rebuilt \in ControllerOf(id)
        BY <1>5, RebuildFacts
    <1> HIDE DEF rebuilt
    <1>7. rebuilt.pacer = pacer /\ rebuilt.probe = Expire(c.probe, now)
        BY <1>5, <1>6 DEF ControllerOf
    <1>8. told.pacer = pacer /\ told.probe = Expire(c.probe, now)
        BY <1>6, <1>7 DEF ControllerOf
    <1> HIDE DEF told
    <1>9. d.pacer = pacer /\ d.probe = Expire(c.probe, now)
        BY <1>1, <1>5, <1>8
    <1>10. SameLearning(c, d)
        BY UpdateRateKeepsLearning DEF d
    <1>11. Pace(d, now) = RateToInterval(rate)
        BY <1>2, <1>9, <1>10 DEF Pace, BaseRate, SameLearning
    <1> QED
        BY <1>4, <1>9, <1>10, <1>11 DEF SetsPace, d

LEMMA RefreshSetsPace ==
    ASSUME NEW id, NEW c \in ControllerOf(id), NEW draw \in Draw, NEW now \in Instant, Paced(c)
    PROVE  SetsPace(Refresh(c, draw, now), now)
    <1> DEFINE d == Refresh(c, draw, now)
    <1>1. /\ d \in ControllerOf(id)
          /\ Settled(d.probe, HasDemand(d), now)
          /\ d.pacer.interval = RateToInterval(EffectiveRate(d, now))
        BY RefreshIsSettled
    <1>2. HasDemand(d) \in BOOLEAN
        BY <1>1 DEF HasDemand, ControllerOf, Estimator
    <1> HIDE DEF d
    <1>3. Expire(d.probe, now) = d.probe
        <2>1. d.probe \in Probing
            BY <1>1 DEF ControllerOf
        <2> QED
            BY <1>1, <1>2, <2>1, SettledStays DEF Settled
    <1>4. EffectiveRate(d, now)
            = Decayed(PerturbedRate(d.probe, BaseRate(d)), d.feedback_epoch, now)
        BY <1>3 DEF EffectiveRate
    <1> QED
        BY <1>1, <1>4 DEF SetsPace, Pace, d

LEMMA OnFailureLowers ==
    ASSUME NEW limiter \in Limiter, NEW now
    PROVE  OnFailure(limiter, now).concurrency <= limiter.concurrency
    <1> DEFINE n == limiter.concurrency
    <1>1. n \in Nat /\ n >= 25 /\ n <= MaxLimit /\ MaxLimit \in Nat /\ MaxLimit >= 25
        BY ConfigAssumption DEF Limiter, MinLimit, MaxLimit, ONE
    <1> HIDE DEF n
    <1>2. (2 * (7 * n) + 10) \div (2 * 10) <= n
        BY <1>1
    <1>3. (2 * (7 * n) + 10) \div (2 * 10) \in Nat
        BY <1>1
    <1>4. ClampLimit((2 * (7 * n) + 10) \div (2 * 10)) <= n
        BY <1>1, <1>2, <1>3 DEF ClampLimit, Clamp, Later, Earlier, MinLimit
    <1> QED
        BY <1>4 DEF OnFailure, Nearest, n

\* Checking looks at the head of a controller that has been refreshed.
LEMMA CheckPaces ==
    ASSUME NEW id, NEW c \in ControllerOf(id), NEW r, NEW draw \in Draw, NEW now \in Instant,
           Paced(c)
    PROVE  LET d == Check(c, r, draw, now).ctl IN
           /\ d \in ControllerOf(id)
           /\ SameLearning(c, d)
           /\ (KeepsPace(c, d) \/ SetsPace(d, now))
    <1> DEFINE fresh == Refresh(c, draw, now)
               marked == [fresh EXCEPT !.pending[1].was_paced = TRUE]
               d == Check(c, r, draw, now).ctl
    <1>1. d = c \/ d = fresh \/ d = marked
        BY DEF Check, Verdict
    <1>2. d \in ControllerOf(id) /\ SameLearning(c, d)
        BY CheckFacts, CheckKeepsLearning
    <1>3. fresh \in ControllerOf(id) /\ SetsPace(fresh, now)
        BY RefreshFacts, RefreshSetsPace
    <1> HIDE DEF fresh, d
    <1>4. /\ marked.pacer = fresh.pacer /\ marked.probe = fresh.probe
          /\ marked.latency = fresh.latency /\ marked.gradient = fresh.gradient
          /\ marked.feedback_epoch = fresh.feedback_epoch
        BY <1>3 DEF ControllerOf
    <1>5. SetsPace(marked, now)
        BY <1>3, <1>4 DEF SetsPace, Pace, BaseRate
    <1> QED
        BY <1>1, <1>2, <1>3, <1>5 DEF KeepsPace, d

LEMMA LaunchKeepsPace ==
    ASSUME NEW id, NEW c \in ControllerOf(id), NEW now \in Instant, Queued(c) > 0
    PROVE  KeepsPace(c, Launch(c, now))
    <1> DEFINE queue == Tail(c.pending)
               epoch == IF c.inflight = 0 THEN NewEpoch(c, now) ELSE c.feedback_epoch
               pacer == Commit(c.pacer, now)
               both == [admission |-> TRUE, dispatch |-> TRUE]
               left == [c EXCEPT !.pending = queue, !.feedback_epoch = epoch,
                                 !.inflight = @ + 1, !.changes = both, !.pacer = pacer]
               rebuilt == [i \in 1 .. Queued(left) |->
                             [left.pending[i] EXCEPT !.scheduled_at = Slot(left.pacer, i, now)]]
               d == Launch(c, now)
    <1>1. d = [left EXCEPT !.pending = rebuilt]
        BY DEF Launch, RebuildVirtualQueue
    <1>2. pacer.interval = c.pacer.interval
        BY DEF Commit, ControllerOf, Pacer
    <1> HIDE DEF queue, epoch, pacer, both, rebuilt, d
    <1>3. d.pacer = pacer /\ d.probe = c.probe
        BY <1>1 DEF ControllerOf
    <1> QED
        BY <1>2, <1>3 DEF KeepsPace, d

LEMMA DispatchPaces ==
    ASSUME NEW id, NEW c \in ControllerOf(id), NEW r, NEW draw \in Draw, NEW now \in Instant,
           Paced(c), c.inflight = 0 => c.feedback_epoch = None,
           c.pacer.interval <= Pace(c, now)
    PROVE  LET d == OnDispatched(c, r, draw, now).ctl IN
           /\ d.pacer.interval <= Pace(d, now)
           /\ d.probe.active = c.probe.active => c.pacer.interval <= d.pacer.interval
    <1> DEFINE checked == Check(c, r, draw, now)
               k == checked.ctl
               d == OnDispatched(c, r, draw, now).ctl
    <1>1. /\ k \in ControllerOf(id) /\ SameLearning(c, k) /\ KeepsQueue(c, k)
          /\ (KeepsPace(c, k) \/ SetsPace(k, now))
        BY CheckPaces, CheckFacts
    <1>2. checked.answer.tag = "Ready" => Queued(k) > 0
        BY <1>1, CheckFacts DEF KeepsQueue
    <1>3. d = IF checked.answer.tag # "Ready" THEN k ELSE Launch(k, now)
        BY DEF OnDispatched, Claim
    <1> HIDE DEF checked, d
    <1>4. AsksNoMore(c, k)
        BY <1>1 DEF AsksNoMore, SameLearning, ControllerOf, Limiter, MinLimit, MaxLimit
    <1>5. /\ k.pacer.interval <= Pace(k, now)
          /\ k.probe.active = c.probe.active => c.pacer.interval <= k.pacer.interval
        BY <1>1, <1>4, PaceTrails
    <1>6. CASE checked.answer.tag # "Ready"
        BY <1>3, <1>5, <1>6 DEF d
    <1>7. CASE checked.answer.tag = "Ready"
        <2>1. d = Launch(k, now) /\ Queued(k) > 0
            BY <1>2, <1>3, <1>7
        <2>2. /\ d \in ControllerOf(id) /\ d.latency = k.latency /\ d.gradient = k.gradient
              /\ d.feedback_epoch = IF k.inflight = 0 THEN NewEpoch(k, now) ELSE k.feedback_epoch
            BY <1>1, <2>1, LaunchFacts, LaunchLearns
        <2>3. k.inflight = 0 => k.feedback_epoch = None
            BY <1>1 DEF KeepsQueue, SameLearning
        <2>4. KeepsPace(k, d)
            BY <1>1, <2>1, LaunchKeepsPace
        <2>5. AsksNoMore(k, d)
            BY <1>1, <2>2, <2>3 DEF AsksNoMore, ControllerOf, Limiter, MinLimit, MaxLimit
        <2>6. d.pacer.interval <= Pace(d, now)
            BY <1>1, <1>5, <2>2, <2>4, <2>5, PaceTrails
        <2> QED
            BY <1>5, <2>4, <2>6 DEF KeepsPace, d
    <1> QED
        BY <1>6, <1>7

\* Reserving and cancelling touch neither the pace nor what it is computed from.
LEMMA ReserveKeepsPace ==
    ASSUME NEW id, NEW c \in ControllerOf(id), NEW now
    PROVE  KeepsPace(c, Reserve(c, now))
    <1> DEFINE queue == Append(c.pending, [id |-> c.next_id,
                                           scheduled_at |-> NextVirtualSlot(c, now),
                                           was_paced |-> FALSE])
               d == Reserve(c, now)
    <1>1. d = c \/ d = [c EXCEPT !.next_id = @ + 1, !.pending = queue]
        BY DEF Reserve
    <1> HIDE DEF queue, d
    <1>2. KeepsPace(c, d)
        BY <1>1 DEF ControllerOf, KeepsPace
    <1> QED
        BY <1>2 DEF d

LEMMA CancelKeepsPace ==
    ASSUME NEW id, NEW c \in ControllerOf(id), NEW r, NEW now
    PROVE  KeepsPace(c, Cancel(c, r, now))
    <1> DEFINE queue == RemoveAt(c.pending, Position(c, r.id))
               closed == [c EXCEPT !.pending = queue,
                                   !.changes = [admission |-> TRUE, dispatch |-> TRUE]]
               rebuilt == [i \in 1 .. Queued(closed) |->
                             [closed.pending[i] EXCEPT !.scheduled_at = Slot(closed.pacer, i, now)]]
               d == Cancel(c, r, now)
    <1>1. d = c \/ d = [closed EXCEPT !.pending = rebuilt]
        BY DEF Cancel, RebuildVirtualQueue
    <1> HIDE DEF queue, rebuilt, d
    <1>2. KeepsPace(c, d)
        BY <1>1 DEF ControllerOf, KeepsPace
    <1> QED
        BY <1>2 DEF d

\* Learning the same is asking for the same.
LEMMA SameLearningAsksNoMore ==
    ASSUME NEW id, NEW c \in ControllerOf(id), NEW d, SameLearning(c, d)
    PROVE  AsksNoMore(c, d)
    BY DEF AsksNoMore, SameLearning, ControllerOf, Limiter, MinLimit, MaxLimit

\* The end of a request sets the pace; a request given up while others are in
\* flight only lowers what the policies ask for.
LEMMA FinishPaces ==
    ASSUME NEW id, NEW c \in ControllerOf(id), NEW token, Owns(c, token),
           token.dispatched_at \in Instant, token.was_paced \in BOOLEAN,
           NEW now \in Instant, c.inflight > 0,
           NEW completion \in {"Success", "Failure", "Abandoned"}
    PROVE  LET d == Finish(c, token, completion, now) IN
           /\ SetsPace(d, now)
           /\ completion = "Abandoned" /\ c.inflight # 1 => AsksNoMore(c, d)
    <1> DEFINE d == Finish(c, token, completion, now)
    <1>1. SetsPace(d, now)
        <2>1. PICK e \in ControllerOf(id) : d = UpdateRate(e, now)
            BY FinishUpdates
        <2> HIDE DEF d
        <2> QED
            BY <2>1, UpdateRateSetsPace
    <1>2. ASSUME completion = "Abandoned", c.inflight # 1
          PROVE  AsksNoMore(c, d)
        <2> DEFINE gradient == OnFailure(c.gradient, now)
                   epoch == IF c.inflight = 1 THEN None ELSE c.feedback_epoch
                   e == [c EXCEPT !.gradient = gradient, !.inflight = @ - 1,
                                  !.changes.dispatch = TRUE, !.feedback_epoch = epoch]
        <2>1. gradient \in Limiter /\ gradient.concurrency <= c.gradient.concurrency
            BY OnFailureType, OnFailureLowers DEF ControllerOf
        <2>2. d = UpdateRate(e, now)
            BY <1>2 DEF Finish, OnAbandoned
        <2>3. epoch = c.feedback_epoch
            BY <1>2
        <2>4. c.inflight - 1 \in Nat
            BY DEF ControllerOf
        <2> HIDE DEF gradient, epoch, d
        <2>5. /\ e \in ControllerOf(id) /\ e.latency = c.latency /\ e.gradient = gradient
              /\ e.feedback_epoch = c.feedback_epoch
            BY <2>1, <2>3, <2>4 DEF ControllerOf, Changes
        <2> HIDE DEF e
        <2>6. SameLearning(e, d)
            BY <2>2, <2>5, UpdateRateKeepsLearning
        <2> QED
            BY <2>1, <2>5, <2>6 DEF AsksNoMore, SameLearning
    <1> QED
        BY <1>1, <1>2

LEMMA OnAdmissionFailurePaces ==
    ASSUME NEW id, NEW c \in ControllerOf(id), NEW now \in Instant
    PROVE  LET d == OnAdmissionFailure(c, now) IN SetsPace(d, now) /\ AsksNoMore(c, d)
    <1> DEFINE gradient == OnFailure(c.gradient, now)
               e == [c EXCEPT !.gradient = gradient]
               d == OnAdmissionFailure(c, now)
    <1>1. gradient \in Limiter /\ gradient.concurrency <= c.gradient.concurrency
        BY OnFailureType, OnFailureLowers DEF ControllerOf
    <1>2. d = UpdateRate(e, now)
        BY DEF OnAdmissionFailure
    <1> HIDE DEF gradient, d
    <1>3. /\ e \in ControllerOf(id) /\ e.latency = c.latency /\ e.gradient = gradient
          /\ e.feedback_epoch = c.feedback_epoch
        BY <1>1 DEF ControllerOf
    <1> HIDE DEF e
    <1>4. SetsPace(d, now) /\ SameLearning(e, d)
        BY <1>2, <1>3, UpdateRateSetsPace
    <1>5. AsksNoMore(c, d)
        BY <1>1, <1>3, <1>4 DEF AsksNoMore, SameLearning
    <1> QED
        BY <1>4, <1>5 DEF d

\* The first pace is what the policies ask for before they have learnt anything.
LEMMA FirstPace ==
    ASSUME NEW id, NEW now
    PROVE  SetsPace(NewController(id, now), now)
    <1> DEFINE c == NewController(id, now)
               rate == [num |-> InitialLimit, den |-> ONE * ExpectedRtt]
    <1>1. /\ c.pacer = NewPacer(rate, now) /\ c.latency = NewEstimator
          /\ c.gradient = NewLimiter /\ c.probe = NewProbe /\ c.feedback_epoch = None
        BY DEF NewController
    <1>2. BaseRate(c) = rate
        BY <1>1, ConfigAssumption, LatencyAssumption DEF BaseRate, NewLimiter, NewEstimator, ExpectedOf, Later, Instant
    <1>3. Decayed(PerturbedRate(c.probe, BaseRate(c)), c.feedback_epoch, now) = rate
        BY <1>1, <1>2 DEF PerturbedRate, Decayed, NewProbe
    <1>4. c.pacer.interval = RateToInterval(rate)
        BY <1>1 DEF NewPacer
    <1> QED
        BY <1>3, <1>4 DEF SetsPace, Pace
=============================================================================
