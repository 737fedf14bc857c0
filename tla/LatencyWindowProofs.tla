-------------------------- MODULE LatencyWindowProofs --------------------------
(* The ring of buckets remembers what the baseline needs, for every number of  *)
(* buckets, every duration and every sequence of samples, silences and stale   *)
(* clocks: the baseline is the minimum of the recent samples.                  *)
EXTENDS LatencyWindow, ControllerProofs

\* How many buckets ago the ring wrote bucket b, when it writes bucket c now.
Age(c, b) == IF b <= c THEN c - b ELSE c - b + BaselineBuckets

Held(l) == {b \in Bucket : l.buckets[b] # None}

\* The instant at which the turn of bucket b began.
Begin(l, b) == l.started - Age(l.bucket, b) * BucketDuration

\* Whatever a bucket holds was heard, and not before its turn began.
Recorded(l, known) ==
    \A b \in Held(l) : \E h \in known : h.rtt = l.buckets[b] /\ h.at >= Begin(l, b)

\* A bucket whose turn had not ended answers for the observation.
Covers(l, h) ==
    \E b \in Held(l) : l.buckets[b] <= h.rtt /\ h.at < Begin(l, b) + BucketDuration

Outdated(h, reached) == reached - h.at > (BaselineBuckets - 1) * BucketDuration

\* Every observation has a bucket that answers for it, or is older than all but
\* one bucket of the window.
Covered(l, known, reached) == \A h \in known : Covers(l, h) \/ Outdated(h, reached)

\* The latest observation fell into the turn of the current bucket.
Current(l, reached) == l.started <= reached /\ reached < l.started + BucketDuration

Lowest(l) ==
    /\ \E b \in Held(l) : l.baseline = l.buckets[b]
    /\ \A b \in Held(l) : l.baseline <= l.buckets[b]

Observation == [at : Instant, rtt : Nat]

\* The observations of the window that ends at the latest one.
InWindow(known, reached) ==
    /\ \A h \in known : h.at <= reached /\ reached - h.at < Window /\ h.rtt >= MinRtt
    /\ known # {} => \E h \in known : h.at = reached

\* The inductive invariant.  What the ring holds is tied to what was heard in
\* both directions: nothing is invented, nothing recent is missed.
IInv ==
    /\ latency \in Estimator
    /\ now \in Instant
    /\ heard \in SUBSET Observation
    /\ InWindow(heard, Reached)
    /\ heard = {} <=> latency.started = None
    /\ Recorded(latency, heard)
    /\ Covered(latency, heard, Reached)
    /\ heard # {} => Current(latency, Reached) /\ Lowest(latency)
-------------------------------------------------------------------------------
(* Arithmetic of the ring.                                                     *)

\* How many whole buckets fit into a duration.
LEMMA WholeBuckets ==
    ASSUME NEW x \in Nat, NEW steps, steps = x \div BucketDuration
    PROVE  /\ steps \in Nat
           /\ BucketDuration * steps <= x
           /\ x < BucketDuration * steps + BucketDuration
    BY LatencyAssumption

\* One turn around the ring at most.
LEMMA RingStep ==
    ASSUME NEW x \in 0 .. 2 * BaselineBuckets - 1
    PROVE  x % BaselineBuckets = IF x < BaselineBuckets THEN x ELSE x - BaselineBuckets
    BY LatencyAssumption

\* A longer time holds as many buckets at least.
LEMMA BucketsGrow ==
    ASSUME NEW a \in Int, NEW b \in Int, a <= b
    PROVE  a * BucketDuration <= b * BucketDuration
    <1>1. (b - a) * BucketDuration >= 0
        BY LatencyAssumption
    <1> QED
        BY <1>1, LatencyAssumption

LEMMA AgeFacts ==
    ASSUME NEW b \in Bucket, NEW c \in Bucket
    PROVE  /\ Age(c, b) \in 0 .. BaselineBuckets - 1
           /\ Age(c, b) = 0 <=> b = c
    BY LatencyAssumption DEF Age, Bucket

\* The buckets the ring passes in its next steps are the oldest ones.
LEMMA PassedAreOldest ==
    ASSUME NEW b \in Bucket, NEW c \in Bucket, NEW steps \in 0 .. BaselineBuckets - 1
    PROVE  b \in {(c + k) % BaselineBuckets : k \in 1 .. steps}
             <=> Age(c, b) + steps >= BaselineBuckets
    <1>1. \A k \in 1 .. steps : (c + k) % BaselineBuckets =
                IF c + k < BaselineBuckets THEN c + k ELSE c + k - BaselineBuckets
        BY RingStep, LatencyAssumption DEF Bucket
    <1>2. ASSUME NEW k \in 1 .. steps, b = (c + k) % BaselineBuckets
          PROVE  Age(c, b) + steps >= BaselineBuckets
        BY <1>1, <1>2, LatencyAssumption DEF Age, Bucket
    <1>3. ASSUME Age(c, b) + steps >= BaselineBuckets
          PROVE  \E k \in 1 .. steps : b = (c + k) % BaselineBuckets
        <2> DEFINE k == BaselineBuckets - Age(c, b)
        <2>1. k \in 1 .. steps
            BY <1>3, AgeFacts, LatencyAssumption
        <2>2. b = IF c + k < BaselineBuckets THEN c + k ELSE c + k - BaselineBuckets
            BY LatencyAssumption DEF Age, Bucket
        <2> HIDE DEF k
        <2> QED
            BY <1>1, <2>1, <2>2
    <1> QED
        BY <1>2, <1>3

\* The others grow older by the steps the ring takes.
LEMMA OthersGrowOlder ==
    ASSUME NEW b \in Bucket, NEW c \in Bucket, NEW steps \in 0 .. BaselineBuckets - 1,
           Age(c, b) + steps < BaselineBuckets
    PROVE  /\ (c + steps) % BaselineBuckets \in Bucket
           /\ Age((c + steps) % BaselineBuckets, b) = Age(c, b) + steps
    <1>1. (c + steps) % BaselineBuckets =
             IF c + steps < BaselineBuckets THEN c + steps ELSE c + steps - BaselineBuckets
        BY RingStep, LatencyAssumption DEF Bucket
    <1> QED
        BY <1>1, LatencyAssumption DEF Age, Bucket
-------------------------------------------------------------------------------
(* The window moves.                                                           *)

\* The whole buckets since the current one began.
Steps(l, at) == Since(at, l.started) \div BucketDuration

LEMMA StepsFacts ==
    ASSUME NEW l \in Estimator, l.started # None, NEW at \in Instant
    PROVE  /\ l.started \in Instant /\ l.started \in Nat /\ at \in Nat
           /\ Steps(l, at) \in Nat
           /\ BucketDuration * Steps(l, at) \in Nat
           /\ BucketDuration * Steps(l, at) <= Since(at, l.started)
           /\ Since(at, l.started) < BucketDuration * Steps(l, at) + BucketDuration
    <1>1. l.started \in Instant /\ l.started \in Nat /\ at \in Nat
        BY ConfigAssumption DEF Estimator, Instant
    <1> DEFINE x == Since(at, l.started)
               steps == x \div BucketDuration
    <1>2. x \in Nat
        BY <1>1, SinceIsNat
    <1> HIDE DEF x
    <1>3. /\ steps \in Nat
          /\ BucketDuration * steps <= x
          /\ x < BucketDuration * steps + BucketDuration
        BY <1>2, WholeBuckets
    <1>4. Steps(l, at) = steps
        BY DEF Steps, x
    <1> HIDE DEF steps
    <1>5. BucketDuration * steps \in Nat
        BY <1>3, LatencyAssumption
    <1> QED
        BY <1>1, <1>3, <1>4, <1>5 DEF x

\* Within the window only the passed buckets are emptied.
LEMMA WindowMoves ==
    ASSUME NEW l \in Estimator, l.started # None, NEW at \in Instant, NEW m,
           m = AdvanceBaselineWindow(l, at), Steps(l, at) < BaselineBuckets
    PROVE  /\ m \in Estimator
           /\ m.bucket = (l.bucket + Steps(l, at)) % BaselineBuckets
           /\ m.started = l.started + BucketDuration * Steps(l, at)
           /\ \A b \in Bucket : m.buckets[b] =
                 IF Age(l.bucket, b) + Steps(l, at) < BaselineBuckets THEN l.buckets[b] ELSE None
    <1> DEFINE steps == Steps(l, at)
               passed == {(l.bucket + k) % BaselineBuckets : k \in 1 .. steps}
               buckets == [b \in Bucket |-> IF b \in passed THEN None ELSE l.buckets[b]]
               started == SaturatingAdd(l.started, BucketDuration * steps)
    <1>1. l.started \in Instant /\ l.bucket \in Bucket
        BY DEF Estimator
    <1>2. Steps(l, at) \in Nat
        BY StepsFacts
    <1>3. steps \in 0 .. BaselineBuckets - 1 /\ BucketDuration * steps <= Since(at, l.started)
        BY <1>2, StepsFacts, LatencyAssumption
    <1>4. BucketDuration * steps \in Nat
        BY StepsFacts
    <1>5. started = l.started + BucketDuration * steps
        BY <1>1, <1>3, <1>4, ConfigAssumption DEF Since, Later, SaturatingAdd, Earlier, Instant
    <1>6. \A b \in Bucket : b \in passed <=> Age(l.bucket, b) + steps >= BaselineBuckets
        BY <1>1, <1>3, PassedAreOldest
    <1>7. \A b \in Bucket : Age(l.bucket, b) \in Nat
        BY <1>1, AgeFacts
    <1> HIDE DEF steps, passed, started
    <1>8. m = [l EXCEPT !.buckets = buckets,
                        !.bucket = (l.bucket + steps) % BaselineBuckets,
                        !.started = started]
        BY <1>3, LatencyAssumption DEF AdvanceBaselineWindow, Steps, steps, passed, started
    <1>9. \A b \in Bucket : buckets[b] =
             IF Age(l.bucket, b) + steps < BaselineBuckets THEN l.buckets[b] ELSE None
        BY <1>3, <1>6, <1>7, LatencyAssumption
    <1> HIDE DEF buckets
    <1>10. /\ m.buckets = buckets
           /\ m.bucket = (l.bucket + steps) % BaselineBuckets
           /\ m.started = started
        BY <1>8 DEF Estimator
    <1> QED
        BY <1>5, <1>9, <1>10, AdvanceType DEF steps

\* After a window of silence nothing is left.
LEMMA WindowRestarts ==
    ASSUME NEW l \in Estimator, l.started # None, NEW at \in Instant, NEW m,
           m = AdvanceBaselineWindow(l, at),
           Steps(l, at) >= BaselineBuckets
    PROVE  m \in Estimator /\ m.started = at /\ Held(m) = {}
    <1>1. m = [l EXCEPT !.buckets = EmptyBuckets, !.bucket = 0, !.started = at,
                        !.baseline = None]
        BY DEF AdvanceBaselineWindow, Steps
    <1>2. m.started = at /\ m.buckets = EmptyBuckets
        BY <1>1 DEF Estimator
    <1> QED
        BY <1>2, AdvanceType DEF Held, EmptyBuckets

\* What the estimator has to know of what was heard, but for the baseline.
Remembers(l, known, reached) ==
    /\ Recorded(l, known)
    /\ Covered(l, known, reached)
    /\ Current(l, reached)

Fresh(known, reached) == {h \in known : reached - h.at < Window}

\* Moving on and growing older by the same number of buckets cancel out.
LEMMA MovesCancel ==
    ASSUME NEW at \in Int, NEW age \in Int, NEW steps \in Int
    PROVE  (at + BucketDuration * steps) - (age + steps) * BucketDuration
             = at - age * BucketDuration
    <1>1. (age + steps) * BucketDuration = age * BucketDuration + BucketDuration * steps
        BY LatencyAssumption
    <1>2. age * BucketDuration \in Int /\ BucketDuration * steps \in Int
        BY LatencyAssumption
    <1> QED
        BY <1>1, <1>2

\* A bucket that is not passed keeps its turn.
LEMMA TurnStays ==
    ASSUME NEW l \in Estimator, l.started # None, NEW at \in Instant, NEW m,
           m = AdvanceBaselineWindow(l, at), Steps(l, at) < BaselineBuckets,
           NEW b \in Bucket, Age(l.bucket, b) + Steps(l, at) < BaselineBuckets
    PROVE  Begin(m, b) = Begin(l, b)
    <1>1. l.started \in Instant /\ l.bucket \in Bucket
        BY DEF Estimator
    <1>2. at \in Nat /\ l.started \in Nat /\ Steps(l, at) \in Nat
        BY StepsFacts
    <1>3. Steps(l, at) \in 0 .. BaselineBuckets - 1
        BY <1>2, LatencyAssumption
    <1> DEFINE steps == Steps(l, at)
               age == Age(l.bucket, b)
    <1>4. /\ m.bucket = (l.bucket + steps) % BaselineBuckets
          /\ m.started = l.started + BucketDuration * steps
        BY WindowMoves
    <1>5. Age(m.bucket, b) = age + steps
        BY <1>1, <1>3, <1>4, OthersGrowOlder
    <1>6. age \in Int /\ steps \in Int
        BY <1>1, <1>3, AgeFacts, LatencyAssumption
    <1> HIDE DEF steps, age
    <1>7. Begin(m, b) = m.started - (age + steps) * BucketDuration
        BY <1>5, Zenon DEF Begin
    <1>8. (l.started + BucketDuration * steps) - (age + steps) * BucketDuration
             = l.started - age * BucketDuration
        BY <1>2, <1>6, MovesCancel
    <1>9. Begin(l, b) = l.started - age * BucketDuration
        BY DEF Begin, age
    <1>10. m.started = l.started + BucketDuration * steps
        BY <1>4
    <1> QED
        BY <1>7, <1>8, <1>9, <1>10, Zenon

\* A clock within the window, or an older one: the latest observation stays in
\* the turn of the current bucket, and no bucket that is kept loses its witness.
LEMMA MovingRemembers ==
    ASSUME NEW l \in Estimator, l.started # None, NEW at \in Instant, NEW m,
           m = AdvanceBaselineWindow(l, at), Steps(l, at) < BaselineBuckets,
           NEW known \in SUBSET Observation, NEW reached \in Instant,
           Remembers(l, known, reached), NEW r, r = Later(at, reached)
    PROVE  Remembers(m, Fresh(known, r), r)
    <1> DEFINE steps == Steps(l, at)
               moved == BucketDuration * steps
               whole == (BaselineBuckets - 1) * BucketDuration
    <1>1. /\ l.started \in Nat /\ l.bucket \in Bucket
          /\ at \in Nat /\ reached \in Nat /\ r \in Nat
        BY ConfigAssumption DEF Estimator, Instant, Later
    <1>0. /\ Steps(l, at) \in Nat
          /\ BucketDuration * Steps(l, at) <= Since(at, l.started)
          /\ Since(at, l.started) < BucketDuration * Steps(l, at) + BucketDuration
        BY StepsFacts
    <1>2. /\ steps \in 0 .. BaselineBuckets - 1
          /\ moved <= Since(at, l.started)
          /\ Since(at, l.started) < moved + BucketDuration
        BY <1>0, LatencyAssumption
    <1>3. /\ m.started = l.started + moved
          /\ m.bucket \in Bucket
          /\ \A b \in Bucket : m.buckets[b] =
                IF Age(l.bucket, b) + steps < BaselineBuckets THEN l.buckets[b] ELSE None
        BY WindowMoves DEF Estimator
    <1>4. \A b \in Bucket : Age(l.bucket, b) + steps < BaselineBuckets =>
             Begin(m, b) = Begin(l, b)
        BY TurnStays
    <1>5. moved \in Nat /\ whole \in Nat /\ Window = whole + BucketDuration
        BY <1>2, LatencyAssumption DEF Window
    <1>6. \A b \in Bucket : Age(l.bucket, b) \in 0 .. BaselineBuckets - 1
                         /\ Age(m.bucket, b) \in 0 .. BaselineBuckets - 1
        BY <1>1, <1>3, AgeFacts
    <1>7. \A b \in Bucket : Age(m.bucket, b) * BucketDuration <= whole
                         /\ Age(m.bucket, b) * BucketDuration \in Nat
        BY <1>6, BucketsGrow, LatencyAssumption
    <1>8. \A b \in Bucket : Age(l.bucket, b) + steps >= BaselineBuckets =>
             /\ Age(l.bucket, b) * BucketDuration + moved >= whole + BucketDuration
             /\ Age(l.bucket, b) * BucketDuration \in Nat
        <2>1. TAKE b \in Bucket
        <2>2. HAVE Age(l.bucket, b) + steps >= BaselineBuckets
        <2> DEFINE age == Age(l.bucket, b)
        <2>3. age \in Nat /\ steps \in Nat
            BY <1>2, <1>6, LatencyAssumption
        <2> HIDE DEF age, steps
        <2>4. BaselineBuckets * BucketDuration <= (age + steps) * BucketDuration
            BY <2>2, <2>3, BucketsGrow, LatencyAssumption DEF age, steps
        <2> QED
            BY <2>3, <2>4, LatencyAssumption DEF age
    <1> HIDE DEF moved, whole, steps
    <1>9. Current(m, r)
        BY <1>1, <1>2, <1>3, <1>5, LatencyAssumption
        DEF Remembers, Current, Since, Later
    <1>10. Recorded(m, Fresh(known, r))
        <2> SUFFICES ASSUME NEW b \in Held(m)
                     PROVE  \E h \in Fresh(known, r) :
                               h.rtt = m.buckets[b] /\ h.at >= Begin(m, b)
            BY DEF Recorded
        <2>1. /\ b \in Bucket /\ b \in Held(l)
              /\ m.buckets[b] = l.buckets[b]
              /\ Begin(m, b) = Begin(l, b)
            BY <1>3, <1>4 DEF Held
        <2>2. PICK h \in known : h.rtt = l.buckets[b] /\ h.at >= Begin(l, b)
            BY <2>1 DEF Remembers, Recorded
        <2>3. h.at \in Nat
            BY ConfigAssumption DEF Observation, Instant
        <2>4. h.at >= m.started - whole
            BY <1>1, <1>3, <1>5, <1>7, <2>1, <2>2, <2>3 DEF Begin
        <2>5. r - h.at < Window
            BY <1>1, <1>3, <1>5, <1>9, <2>3, <2>4, LatencyAssumption DEF Current
        <2> QED
            BY <2>1, <2>2, <2>5 DEF Fresh
    <1>11. Covered(m, Fresh(known, r), r)
        <2> SUFFICES ASSUME NEW h \in known PROVE Covers(m, h) \/ Outdated(h, r)
            BY DEF Covered, Fresh
        <2>1. h.at \in Nat
            BY ConfigAssumption DEF Observation, Instant
        <2>2. CASE Outdated(h, reached)
            BY <1>1, <1>5, <2>1, <2>2 DEF Outdated, Later, whole
        <2>3. CASE Covers(l, h)
            <3>1. PICK b \in Held(l) : l.buckets[b] <= h.rtt
                                    /\ h.at < Begin(l, b) + BucketDuration
                BY <2>3 DEF Covers
            <3>2. b \in Bucket
                BY DEF Held
            <3>3. CASE Age(l.bucket, b) + steps < BaselineBuckets
                <4>1. b \in Held(m) /\ m.buckets[b] = l.buckets[b] /\ Begin(m, b) = Begin(l, b)
                    BY <1>3, <1>4, <3>2, <3>3 DEF Held
                <4> QED
                    BY <3>1, <4>1 DEF Covers
            <3>4. CASE ~(Age(l.bucket, b) + steps < BaselineBuckets)
                <4>1. Age(l.bucket, b) + steps >= BaselineBuckets
                    BY <1>2, <1>6, <3>2, <3>4, LatencyAssumption
                <4>2. /\ Age(l.bucket, b) * BucketDuration + moved >= whole + BucketDuration
                      /\ Age(l.bucket, b) * BucketDuration \in Nat
                    BY <1>8, <3>2, <4>1
                <4>3. r >= l.started + moved
                    BY <1>3, <1>9 DEF Current
                <4>4. r - h.at > whole
                    BY <1>1, <1>5, <2>1, <3>1, <4>2, <4>3, LatencyAssumption DEF Begin
                <4> QED
                    BY <4>4 DEF Outdated, whole
            <3> QED
                BY <3>3, <3>4
        <2> QED
            BY <2>2, <2>3 DEF Remembers, Covered
    <1> QED
        BY <1>9, <1>10, <1>11 DEF Remembers

\* After a window of silence whatever was heard is older than it.
LEMMA RestartRemembers ==
    ASSUME NEW l \in Estimator, l.started # None, NEW at \in Instant, NEW m,
           m = AdvanceBaselineWindow(l, at), Steps(l, at) >= BaselineBuckets,
           NEW known \in SUBSET Observation, NEW reached \in Instant,
           Remembers(l, known, reached), InWindow(known, reached),
           NEW r, r = Later(at, reached)
    PROVE  Remembers(m, Fresh(known, r), r)
    <1> DEFINE whole == (BaselineBuckets - 1) * BucketDuration
    <1>1. l.started \in Nat /\ at \in Nat /\ reached \in Nat
        BY ConfigAssumption DEF Estimator, Instant
    <1>2. /\ Steps(l, at) \in Nat
          /\ BucketDuration * Steps(l, at) <= Since(at, l.started)
        BY StepsFacts
    <1>3. BaselineBuckets * BucketDuration <= BucketDuration * Steps(l, at)
        BY <1>2, BucketsGrow, LatencyAssumption
    <1>4. /\ whole \in Nat
          /\ BaselineBuckets * BucketDuration = whole + BucketDuration
        BY LatencyAssumption
    <1>5. whole + BucketDuration <= Since(at, l.started)
        <2> DEFINE moved == BucketDuration * Steps(l, at)
        <2>1. /\ BaselineBuckets * BucketDuration <= moved
              /\ moved <= Since(at, l.started)
              /\ moved \in Nat /\ Since(at, l.started) \in Nat
            BY <1>1, <1>2, <1>3, SinceIsNat, StepsFacts
        <2> HIDE DEF moved, whole
        <2> QED
            BY <1>4, <2>1, LatencyAssumption
    <1> HIDE DEF whole
    <1>6. at >= l.started + whole + BucketDuration
        BY <1>1, <1>4, <1>5, LatencyAssumption DEF Since, Later
    <1>7. reached < l.started + BucketDuration
        BY DEF Remembers, Current
    <1>8. r = at /\ at - reached > whole
        BY <1>1, <1>4, <1>6, <1>7, LatencyAssumption DEF Later
    <1>9. m.started = at /\ Held(m) = {}
        BY WindowRestarts
    <1>10. Current(m, r)
        BY <1>1, <1>8, <1>9, LatencyAssumption DEF Current
    <1>11. ASSUME NEW h \in known PROVE Outdated(h, r)
        <2>1. h.at \in Nat /\ h.at <= reached
            BY ConfigAssumption DEF Observation, Instant, InWindow
        <2> QED
            BY <1>1, <1>4, <1>8, <2>1 DEF Outdated, whole
    <1> QED
        BY <1>9, <1>10, <1>11 DEF Remembers, Recorded, Covered, Fresh
-------------------------------------------------------------------------------
(* An observation is recorded.                                                 *)

\* Only the current bucket changes, and the baseline is the lowest of all.
LEMMA ObservationFacts ==
    ASSUME NEW l \in Estimator, NEW sample \in Nat, NEW at \in Instant,
           NEW m, m = AdvanceBaselineWindow(l, at),
           NEW n, n = ObserveAt(l, sample, at), NEW value, value = Later(sample, MinRtt)
    PROVE  /\ n \in Estimator
           /\ n.bucket = m.bucket /\ n.started = m.started
           /\ \A b \in Bucket : b # m.bucket => n.buckets[b] = m.buckets[b]
           /\ n.buckets[m.bucket] = IF m.buckets[m.bucket] = None THEN value
                                    ELSE Earlier(m.buckets[m.bucket], value)
           /\ n.baseline # None
           /\ Lowest(n)
    <1> DEFINE held == m.buckets[m.bucket]
               here == IF held = None THEN value ELSE Earlier(held, value)
               buckets == [m.buckets EXCEPT ![m.bucket] = here]
               seen == {buckets[b] : b \in Bucket} \ {None}
    <1>1. value \in Nat
        BY LatencyAssumption DEF Later
    <1>2. m \in Estimator
        BY AdvanceType
    <1>3. m.buckets \in [Bucket -> Nat \cup {None}] /\ m.bucket \in Bucket
        BY <1>2 DEF Estimator
    <1>4. here \in Nat
        BY <1>1, <1>3 DEF Earlier
    <1> HIDE DEF here
    <1>5. /\ buckets \in [Bucket -> Nat \cup {None}]
          /\ buckets[m.bucket] = here
          /\ \A b \in Bucket : b # m.bucket => buckets[b] = m.buckets[b]
        BY <1>3, <1>4
    <1> HIDE DEF buckets
    <1>6. seen \in SUBSET Nat /\ here \in seen
        BY <1>3, <1>4, <1>5, ConfigAssumption
    <1>7. \A x \in seen : \E b \in Bucket : buckets[b] = x /\ buckets[b] # None
        OBVIOUS
    <1>8. \A b \in Bucket : buckets[b] # None => buckets[b] \in seen
        OBVIOUS
    <1> HIDE DEF seen
    <1>9. Min(seen) \in seen /\ \A x \in seen : Min(seen) <= x
        BY <1>6, MinOfNats
    <1>10. n = [m EXCEPT !.short = Ewma(m.short, value, ShortWeight),
                         !.long = Ewma(m.long, value, LongWeight),
                         !.buckets = buckets, !.baseline = Min(seen), !.sampled = TRUE]
        BY DEF ObserveAt, held, here, buckets, seen
    <1>11. /\ n.bucket = m.bucket /\ n.started = m.started
           /\ n.buckets = buckets /\ n.baseline = Min(seen)
        BY <1>2, <1>10 DEF Estimator
    <1>12. Lowest(n)
        BY <1>7, <1>8, <1>9, <1>11 DEF Lowest, Held
    <1>13. n.baseline # None
        BY <1>6, <1>9, <1>11, ConfigAssumption
    <1>14. n \in Estimator
        BY ObserveType
    <1> QED
        BY <1>5, <1>11, <1>12, <1>13, <1>14 DEF here

\* The current bucket answers for the new observation; it holds less than
\* before, so it still answers for the old ones.
LEMMA RecordingRemembers ==
    ASSUME NEW l \in Estimator, NEW sample \in Nat, NEW at \in Instant,
           NEW m, m = AdvanceBaselineWindow(l, at), m.started # None,
           NEW n, n = ObserveAt(l, sample, at), NEW value, value = Later(sample, MinRtt),
           NEW known \in SUBSET Observation, NEW r \in Instant, Remembers(m, known, r),
           NEW h0, h0 = [at |-> r, rtt |-> value]
    PROVE  Remembers(n, known \cup {h0}, r)
    <1> DEFINE c == m.bucket
               held == m.buckets[c]
    <1>1. /\ m \in Estimator /\ m.bucket \in Bucket /\ m.started \in Nat /\ r \in Nat
          /\ \A b \in Bucket : m.buckets[b] \in Nat \cup {None}
        <2>1. m \in Estimator
            BY AdvanceType
        <2> QED
            BY <2>1, ConfigAssumption DEF Estimator, Instant
    <1>2. value \in Nat
        BY LatencyAssumption DEF Later
    <1>3. /\ n.bucket = c /\ n.started = m.started
          /\ \A b \in Bucket : b # c => n.buckets[b] = m.buckets[b]
          /\ n.buckets[c] = IF held = None THEN value ELSE Earlier(held, value)
        BY ObservationFacts
    <1>4. \A b \in Bucket : Begin(n, b) = Begin(m, b)
        BY <1>3 DEF Begin
    <1>5. c \in Held(n) /\ n.buckets[c] \in Nat /\ n.buckets[c] <= value
        BY <1>1, <1>2, <1>3, ConfigAssumption DEF Held, Earlier
    <1>6. \A b \in Held(m) : b \in Held(n) /\ n.buckets[b] <= m.buckets[b]
        BY <1>1, <1>2, <1>3, <1>5 DEF Held, Earlier
    <1>7. Begin(m, c) = m.started
        <2>1. Age(c, c) = 0
            BY <1>1, AgeFacts
        <2> QED
            BY <1>1, <2>1, LatencyAssumption DEF Begin
    <1>8. Current(n, r)
        BY <1>3 DEF Remembers, Current
    <1>9. h0.at = r /\ h0.rtt = value
        OBVIOUS
    <1> HIDE DEF c, held
    <1>10. Recorded(n, known \cup {h0})
        <2> SUFFICES ASSUME NEW b \in Held(n)
                     PROVE  \E h \in known \cup {h0} :
                               h.rtt = n.buckets[b] /\ h.at >= Begin(n, b)
            BY DEF Recorded
        <2>1. b \in Bucket
            BY DEF Held
        <2>2. CASE n.buckets[b] = m.buckets[b]
            <3>1. b \in Held(m)
                BY <2>1, <2>2 DEF Held
            <3>2. PICK h \in known : h.rtt = m.buckets[b] /\ h.at >= Begin(m, b)
                BY <3>1 DEF Remembers, Recorded
            <3> QED
                BY <1>4, <2>1, <2>2, <3>2
        <2>3. CASE n.buckets[b] # m.buckets[b]
            <3>1. b = c /\ n.buckets[b] = value
                BY <1>3, <2>1, <2>3 DEF Earlier, held
            <3>2. r >= Begin(n, b)
                BY <1>1, <1>4, <1>7, <2>1, <3>1 DEF Remembers, Current
            <3> QED
                BY <1>9, <3>1, <3>2
        <2> QED
            BY <2>2, <2>3
    <1>11. Covered(n, known \cup {h0}, r)
        <2>1. Covers(n, h0)
            <3>1. c \in Bucket
                BY <1>5 DEF Held
            <3>2. r < Begin(n, c) + BucketDuration
                BY <1>4, <1>7, <3>1 DEF Remembers, Current
            <3> QED
                BY <1>5, <1>9, <3>2 DEF Covers
        <2>2. ASSUME NEW h \in known, Covers(m, h) PROVE Covers(n, h)
            <3>1. PICK b \in Held(m) : m.buckets[b] <= h.rtt
                                    /\ h.at < Begin(m, b) + BucketDuration
                BY <2>2 DEF Covers
            <3>2. /\ b \in Bucket /\ m.buckets[b] \in Nat /\ h.rtt \in Nat
                  /\ n.buckets[b] \in Nat
                <4>1. b \in Bucket /\ m.buckets[b] \in Nat
                    BY <1>1 DEF Held
                <4>2. n.buckets[b] \in Nat
                    BY <1>3, <1>5, <4>1
                <4> QED
                    BY <4>1, <4>2 DEF Observation
            <3>3. b \in Held(n) /\ n.buckets[b] <= h.rtt
                BY <1>6, <3>1, <3>2
            <3> QED
                BY <1>4, <3>1, <3>2, <3>3 DEF Covers
        <2> QED
            BY <2>1, <2>2 DEF Remembers, Covered
    <1> QED
        BY <1>8, <1>10, <1>11 DEF Remembers
-------------------------------------------------------------------------------
(* The specification.                                                          *)

\* The largest element of a set is the one that bounds it.
LEMMA MaxIs ==
    ASSUME NEW S \in SUBSET Int, NEW x \in S, \A y \in S : y <= x
    PROVE  Max(S) = x
    <1>1. \A z \in S : (\A y \in S : z >= y) => z = x
        BY DEF Max
    <1> QED
        BY <1>1 DEF Max

\* The instant that Reached is, when it is known.
LEMMA LatestIsReached ==
    ASSUME NEW known \in SUBSET Observation, NEW r \in Instant,
           \A h \in known : h.at <= r, known # {} => \E h \in known : h.at = r,
           known = {} => r = 0
    PROVE  Max({0} \cup {h.at : h \in known}) = r
    <1> DEFINE S == {0} \cup {h.at : h \in known}
    <1>1. S \in SUBSET Int /\ r \in S /\ \A y \in S : y <= r
        BY ConfigAssumption DEF Observation, Instant
    <1> HIDE DEF S
    <1>2. Max(S) = r
        BY <1>1, MaxIs
    <1> QED
        BY <1>2 DEF S

LEMMA ReachedWhenHeard ==
    ASSUME NEW known \in SUBSET Observation, NEW r \in Instant,
           \A h \in known : h.at <= r, \E h \in known : h.at = r
    PROVE  Max({h.at : h \in known}) = r
    <1> DEFINE S == {h.at : h \in known}
    <1>1. S \in SUBSET Int /\ r \in S /\ \A y \in S : y <= r
        BY ConfigAssumption DEF Observation, Instant
    <1> HIDE DEF S
    <1>2. Max(S) = r
        BY <1>1, MaxIs
    <1> QED
        BY <1>2 DEF S

\* Initially nothing was heard.
LEMMA NothingHeard ==
    ASSUME heard = {}
    PROVE  Reached = 0
    BY LatestIsReached, ConfigAssumption DEF Reached, Instant

LEMMA InitInvariant == Init => IInv
    <1> SUFFICES ASSUME Init PROVE IInv
        OBVIOUS
    <1>1. latency \in Estimator
        BY EmptyBucketsType, ConfigAssumption, LatencyAssumption
        DEF Init, NewEstimator, Estimator, Bucket
    <1>2. Held(latency) = {} /\ latency.started = None
        BY DEF Init, NewEstimator, Held, EmptyBuckets
    <1>3. now \in Instant
        BY ConfigAssumption DEF Init, Instant
    <1> QED
        BY <1>1, <1>2, <1>3 DEF Init, IInv, InWindow, Recorded, Covered

LEMMA ObserveStep ==
    ASSUME IInv, NEW sample \in Sample, NEW at \in Instant, Observe(sample, at)
    PROVE  IInv'
    <1> DEFINE m == AdvanceBaselineWindow(latency, at)
               n == ObserveAt(latency, sample, at)
               value == Later(sample, MinRtt)
               r == Later(at, Reached)
               h0 == [at |-> r, rtt |-> value]
    <1>1. /\ latency \in Estimator /\ sample \in Nat /\ value \in Nat /\ value >= MinRtt
          /\ heard \in SUBSET Observation
        BY WindowAssumption, LatencyAssumption DEF IInv, Later
    <1>2. Reached \in Instant
        <2>1. CASE heard = {}
            BY <2>1, NothingHeard, ConfigAssumption DEF Instant
        <2>2. CASE heard # {}
            BY <1>1, <2>2 DEF IInv, InWindow, Observation
        <2> QED
            BY <2>1, <2>2
    <1>3. r \in Instant /\ r >= at /\ r >= Reached
        BY <1>2, LaterInstant
    <1>4. h0 \in Observation /\ h0.at = r /\ h0.rtt = value
        BY <1>1, <1>3 DEF Observation
    <1>5. m.started # None /\ Remembers(m, Fresh(heard, r), r)
        <2>1. CASE latency.started = None
            <3>1. heard = {} /\ r = at
                BY <1>2, <2>1, NothingHeard, ConfigAssumption DEF IInv, Later, Instant
            <3>2. m = [latency EXCEPT !.started = at]
                BY <2>1 DEF AdvanceBaselineWindow
            <3>3. m.started = at /\ m.buckets = latency.buckets
                BY <1>1, <3>2 DEF Estimator
            <3>4. Held(m) = {}
                BY <3>1, <3>3 DEF IInv, Recorded, Held
            <3>5. at \in Nat /\ at # None
                BY ConfigAssumption DEF Instant
            <3>6. Current(m, r)
                BY <3>1, <3>3, <3>5, LatencyAssumption DEF Current
            <3> HIDE DEF m, r
            <3> QED
                BY <3>1, <3>3, <3>4, <3>5, <3>6 DEF Remembers, Recorded, Covered, Fresh
        <2>2. CASE latency.started # None
            <3>1. Remembers(latency, heard, Reached) /\ InWindow(heard, Reached)
                BY <2>2 DEF IInv, Remembers
            <3>2. Remembers(m, Fresh(heard, r), r)
                <4>1. Steps(latency, at) \in Nat
                    BY <1>1, <2>2, StepsFacts
                <4>2. CASE Steps(latency, at) < BaselineBuckets
                    BY <1>1, <1>2, <2>2, <3>1, <4>2, MovingRemembers
                <4>3. CASE Steps(latency, at) >= BaselineBuckets
                    BY <1>1, <1>2, <2>2, <3>1, <4>3, RestartRemembers
                <4> QED
                    BY <4>1, <4>2, <4>3, LatencyAssumption
            <3>3. m \in Estimator
                BY <1>1, AdvanceType
            <3>4. m.started # None
                <4>1. CASE Steps(latency, at) < BaselineBuckets
                    <5>1. m.started = latency.started + BucketDuration * Steps(latency, at)
                        BY <1>1, <2>2, <4>1, WindowMoves
                    <5> QED
                        BY <1>1, <2>2, <5>1, StepsFacts, ConfigAssumption
                <4>2. CASE ~(Steps(latency, at) < BaselineBuckets)
                    <5>1. Steps(latency, at) >= BaselineBuckets
                        BY <1>1, <2>2, <4>2, StepsFacts, LatencyAssumption
                    <5>2. m.started = at
                        BY <1>1, <2>2, <5>1, WindowRestarts
                    <5> QED
                        BY <5>2, ConfigAssumption DEF Instant
                <4> QED
                    BY <4>1, <4>2
            <3> QED
                BY <3>2, <3>4
        <2> QED
            BY <2>1, <2>2
    <1>6. Fresh(heard, r) \in SUBSET Observation
        BY <1>1 DEF Fresh
    <1> DEFINE known == Fresh(heard, r) \cup {h0}
    <1>7. Remembers(n, known, r)
        BY <1>1, <1>3, <1>5, <1>6, RecordingRemembers
    <1>8. n \in Estimator /\ n.started # None /\ Lowest(n)
        BY <1>1, <1>5, ObservationFacts
    <1>9. latency' = n /\ now' = now
        BY DEF Observe
    <1> HIDE DEF m, n, value, r, h0
    <1>10. heard' = known
        <2> DEFINE all == heard \cup {h0}
        <2>1. /\ all \in SUBSET Observation
              /\ \A h \in all : h.at <= r
              /\ \E h \in all : h.at = r
            <3>1. \A h \in heard : h.at <= Reached /\ h.at \in Nat
                BY <1>1, ConfigAssumption DEF IInv, InWindow, Observation, Instant
            <3>2. Reached \in Nat /\ r \in Nat
                BY <1>2, <1>3, ConfigAssumption DEF Instant
            <3> QED
                BY <1>1, <1>3, <1>4, <3>1, <3>2
        <2> HIDE DEF all
        <2>2. Max({h.at : h \in all}) = r
            BY <1>3, <2>1, ReachedWhenHeard
        <2>3. heard' = {h \in all : Max({g.at : g \in all}) - h.at < Window}
            BY DEF Observe, Remember, all, h0, r, value
        <2>4. heard' = {h \in all : r - h.at < Window}
            BY <2>2, <2>3
        <2>5. r - h0.at < Window
            <3>1. Window \in Nat \ {0} /\ r \in Nat
                BY <1>3, ConfigAssumption, LatencyAssumption DEF Window, Instant
            <3> QED
                BY <1>4, <3>1
        <2> QED
            BY <2>4, <2>5 DEF all, Fresh
    <1>11. known \in SUBSET Observation /\ known # {} /\ InWindow(known, r)
        <2>1. \A h \in known : h.at <= r /\ r - h.at < Window /\ h.rtt >= MinRtt
            <3>1. \A h \in heard : h.at <= Reached /\ h.at \in Nat /\ h.rtt >= MinRtt
                BY <1>1, ConfigAssumption DEF IInv, InWindow, Observation, Instant
            <3>2. Reached \in Nat /\ r \in Nat /\ Window \in Nat \ {0}
                BY <1>2, <1>3, ConfigAssumption, LatencyAssumption DEF Instant, Window
            <3> QED
                BY <1>1, <1>3, <1>4, <3>1, <3>2 DEF Fresh
        <2> QED
            BY <1>4, <1>6, <2>1 DEF InWindow
    <1> HIDE DEF known
    <1>12. Reached' = r
        <2>1. Max({0} \cup {h.at : h \in known}) = r
            BY <1>3, <1>11, LatestIsReached DEF InWindow
        <2> QED
            BY <1>10, <2>1 DEF Reached
    <1> QED
        BY <1>7, <1>8, <1>9, <1>10, <1>11, <1>12 DEF IInv, Remembers

LEMMA TickStep ==
    ASSUME IInv, Tick
    PROVE  IInv'
    <1>1. now' \in Instant
        BY WindowAssumption, ConfigAssumption DEF IInv, Tick, Instant
    <1>2. latency' = latency /\ heard' = heard
        BY DEF Tick
    <1>3. Reached' = Reached
        BY <1>2 DEF Reached
    <1> QED
        BY <1>1, <1>2, <1>3 DEF IInv

\* The estimator remembers, in every reachable state.
THEOREM Invariance == Spec => []IInv
    <1>1. Init => IInv
        BY InitInvariant
    <1>2. IInv /\ [Next]_vars => IInv'
        <2> SUFFICES ASSUME IInv, [Next]_vars PROVE IInv'
            OBVIOUS
        <2>1. ASSUME NEW sample \in Sample, NEW age \in 0 .. Staleness, age <= now,
                     Observe(sample, now - age)
              PROVE  IInv'
            <3>1. now - age \in Instant
                BY <2>1, WindowAssumption, ConfigAssumption DEF IInv, Instant
            <3> QED
                BY <2>1, <3>1, ObserveStep
        <2>2. CASE Tick
            BY <2>2, TickStep
        <2>3. CASE UNCHANGED vars
            <3>1. latency' = latency /\ now' = now /\ heard' = heard
                BY <2>3 DEF vars
            <3>2. Reached' = Reached
                BY <3>1 DEF Reached
            <3> QED
                BY <3>1, <3>2 DEF IInv
        <2> QED
            BY <2>1, <2>2, <2>3 DEF Next
    <1> QED
        BY <1>1, <1>2, PTL DEF Spec
-------------------------------------------------------------------------------
(* What the run checks.                                                        *)

\* The baseline is a minimum of recent samples: none younger than all but one
\* bucket of the window is missed, none older than the window counts
\* (advance_baseline_window and observe_at).
LEMMA RememberingIsEnough == IInv => BaselineIsRecentMinimum
    <1> SUFFICES ASSUME IInv, heard # {}
                 PROVE  /\ Baseline(latency) <=
                              Min(Younger((BaselineBuckets - 1) * BucketDuration))
                        /\ Baseline(latency) >= Min(Younger(Window - 1))
        BY DEF BaselineIsRecentMinimum
    <1> DEFINE most == Younger((BaselineBuckets - 1) * BucketDuration)
               whole == Younger(Window - 1)
    <1>1. /\ latency \in Estimator /\ heard \in SUBSET Observation
          /\ \A h \in heard : h.at <= Reached /\ Reached - h.at < Window /\ h.rtt >= MinRtt
          /\ Recorded(latency, heard) /\ Covered(latency, heard, Reached)
          /\ Lowest(latency)
        BY DEF IInv, InWindow
    <1>2. PICK newest \in heard : newest.at = Reached
        BY DEF IInv, InWindow
    <1>3. \A h \in heard : h.at \in Nat /\ h.rtt \in Nat
        BY <1>1, ConfigAssumption DEF Observation, Instant
    <1>4. Reached \in Nat
        BY <1>2, <1>3
    <1>5. /\ (BaselineBuckets - 1) * BucketDuration \in Nat
          /\ Window \in Nat
        BY LatencyAssumption DEF Window
    <1>6. PICK lowest \in Held(latency) : latency.baseline = latency.buckets[lowest]
        BY <1>1 DEF Lowest
    <1>7. PICK witness \in heard : witness.rtt = latency.buckets[lowest]
        BY <1>1, <1>6 DEF Recorded
    <1>8. latency.baseline = witness.rtt
        BY <1>6, <1>7
    <1>9. Baseline(latency) = witness.rtt
        <2>1. witness.rtt >= MinRtt /\ witness.rtt \in Nat
            BY <1>1, <1>3, <1>7
        <2>2. latency.baseline # None
            BY <1>8, <2>1, ConfigAssumption
        <2> QED
            BY <1>8, <2>1, <2>2, LatencyAssumption DEF Baseline, Later
    <1>10. Baseline(latency) <= Min(most)
        <2>1. most \in SUBSET Nat
            BY <1>3 DEF Younger
        <2>2. newest.rtt \in most
            BY <1>2, <1>4, <1>5 DEF Younger
        <2>3. ASSUME NEW x \in most PROVE witness.rtt <= x
            <3>1. PICK h \in heard : /\ Reached - h.at <= (BaselineBuckets - 1) * BucketDuration
                                     /\ x = h.rtt
                BY DEF Younger
            <3>2. ~Outdated(h, Reached)
                BY <1>3, <1>4, <1>5, <3>1 DEF Outdated
            <3>3. PICK b \in Held(latency) : latency.buckets[b] <= h.rtt
                BY <1>1, <3>1, <3>2 DEF Covered, Covers
            <3>4. latency.baseline <= latency.buckets[b]
                BY <1>1, <3>3 DEF Lowest
            <3>5. latency.buckets[b] \in Nat
                BY <1>1, <3>3 DEF Held, Estimator
            <3> QED
                BY <1>3, <1>7, <1>8, <3>1, <3>3, <3>4, <3>5
        <2> HIDE DEF most
        <2>4. Min(most) \in most
            BY <2>1, <2>2, MinOfNats
        <2> QED
            BY <1>9, <2>3, <2>4
    <1>11. Baseline(latency) >= Min(whole)
        <2>1. whole \in SUBSET Nat
            BY <1>3 DEF Younger
        <2>2. witness.rtt \in whole
            <3>1. Reached - witness.at <= Window - 1
                BY <1>1, <1>3, <1>4, <1>5, <1>7
            <3> QED
                BY <1>7, <3>1 DEF Younger
        <2> HIDE DEF whole
        <2>3. Min(whole) <= witness.rtt /\ Min(whole) \in Nat
            BY <2>1, <2>2, MinOfNats
        <2> QED
            BY <1>3, <1>7, <1>9, <2>3
    <1> QED
        BY <1>10, <1>11

THEOREM BaselineIsRecent == Spec => []BaselineIsRecentMinimum
    BY Invariance, RememberingIsEnough, PTL
=============================================================================
