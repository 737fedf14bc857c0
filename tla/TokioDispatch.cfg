SPECIFICATION Spec
CONSTANTS
    None = None
    MaxInstant = 100
    ExpectedRtt = 2
    InitialConcurrency = 1
    QueueTolerance = 1
    QueueCapacity = 2
    MaxInflight = 1
    ShortWeight = 2
    LongWeight = 2
    MinRtt = 1
    BaselineBuckets = 2
    BucketDuration = 3
    ProbeDuration = 1
    MinProbeInterval = 2
    MaxProbeInterval = 2
    PositiveRateDelta = 100
    ProbeKinds = {"Positive"}
    MaxId = 3
    SlowestInterval = 4
    Task = {p1, p2, p3}
    Endpoint = {1}
    Completion = {"Success", "Abandoned"}
    LastReserveAt = 3
    MaxTime = 3
SYMMETRY Symmetry
INVARIANTS
    TypeOK
    GuardsMatchControllers
    NoLostWakeup
