SPECIFICATION Spec
CONSTANTS
    None = None
    MaxInstant = 100
    ExpectedRtt = 1
    InitialConcurrency = 1
    QueueTolerance = 1
    QueueCapacity = 1
    MaxInflight = 1
    ShortWeight = 2
    LongWeight = 2
    MinRtt = 1
    BaselineBuckets = 2
    BucketDuration = 3
    ProbeDuration = 2
    MinProbeInterval = 2
    MaxProbeInterval = 2
    PositiveRateDelta = 50
    ProbeKinds = {}
    MaxId = 2
    SlowestInterval = 4
    Task = {p1, p2}
    Endpoint = {1, 2}
    Completion = {"Success"}
    LastReserveAt = 2
    MaxTime = 2
SYMMETRY Symmetry
INVARIANTS
    NoLockCycle
PROPERTIES
    PairPrefersCheaper
