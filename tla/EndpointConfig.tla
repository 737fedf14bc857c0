---------------------------- MODULE EndpointConfig ----------------------------
(* The settings of one endpoint and the arithmetic its policies share.         *)
(*                                                                             *)
(* Time is a number of ticks: an Instant is a natural number up to MaxInstant, *)
(* a Duration a natural number.  A concurrency is a natural number of          *)
(* hundredths of a request (the code keeps an f64), a rate the fraction        *)
(* num/den of requests per tick.                                               *)
EXTENDS Integers

CONSTANTS
    None,               \* Rust's Option::None
    MaxInstant,         \* the last representable Instant
    ExpectedRtt,        \* EndpointConfig.expected_rtt
    InitialConcurrency, \* EndpointConfig.initial_concurrency, in requests
    QueueTolerance,     \* EndpointConfig.queue_tolerance
    QueueCapacity,      \* EndpointConfig.queue_capacity
    MaxInflight         \* EndpointConfig.max_inflight

\* The conditions EndpointConfig::new and EndpointController::new assert.
ASSUME ConfigAssumption ==
    /\ None \notin Int
    /\ MaxInstant \in Nat
    /\ ExpectedRtt \in Nat \ {0}
    /\ InitialConcurrency \in Nat \ {0}
    /\ QueueTolerance \in Nat
    /\ QueueCapacity \in Nat \ {0}
    /\ MaxInflight \in Nat \ {0}
    /\ InitialConcurrency <= MaxInflight
-------------------------------------------------------------------------------
Later(a, b) == IF a >= b THEN a ELSE b
Earlier(a, b) == IF a <= b THEN a ELSE b
Clamp(x, lo, hi) == Earlier(Later(x, lo), hi)

Instant == 0 .. MaxInstant

\* A slip: the plain sum, which may be no Instant at all.
UncheckedAdd(instant, duration) == instant + duration

\* A slip: a deadline that cannot be represented is one that is already due.
OverflowIsDue(instant, duration) ==
    IF instant + duration > MaxInstant THEN instant ELSE instant + duration

\* Instant + Duration: a deadline that cannot be represented is the last
\* Instant, never one that is already due.
SaturatingAdd(instant, duration) == Earlier(instant + duration, MaxInstant)

\* Instant::saturating_duration_since
Since(later, earlier) == Later(later - earlier, 0)

\* Converting a floating-point result back rounds to the nearest tick.
Nearest(num, den) == (2 * num + den) \div (2 * den)
-------------------------------------------------------------------------------
(* What EndpointConfig derives for the congestion controller.                  *)

ONE == 100                                \* one request of concurrency
InitialLimit == ONE * InitialConcurrency
MinLimit == 25                            \* min_concurrency: 0.25
MaxLimit == ONE * MaxInflight             \* max_concurrency
Gain == 10                                \* gain: 0.1
UpdateInterval == 2 * ExpectedRtt         \* update_interval
===============================================================================
