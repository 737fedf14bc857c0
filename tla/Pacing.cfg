SPECIFICATION Spec
CONSTANTS
    None = None
    MaxInstant = 100
    ExpectedRtt = 2
    InitialConcurrency = 1
    QueueTolerance = 1
    QueueCapacity = 2
    MaxInflight = 2
    ShortWeight = 2
    LongWeight = 2
    MinRtt = 1
    BaselineBuckets = 2
    BucketDuration = 3
    ProbeDuration = 2
    MinProbeInterval = 2
    MaxProbeInterval = 3
    PositiveRateDelta = 50
    ProbeKinds = {}
    MaxId = 3
    SlowestInterval = 64
    MaxTime = 4
    MaxAdmissionFailures = 1
INVARIANTS
    QueueIsPaced
    NoPhantomDebt
    QueueInOrder
    CapsHold
PROPERTIES
    DispatchesAreSpaced
    WakeupsAreRaised
    LimitMovesSlowly
    KeepsPromise
