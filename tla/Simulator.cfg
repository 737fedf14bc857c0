SPECIFICATION Spec
CONSTANTS
    None = None
    MaxInstant = 100
    ExpectedRtt = 2
    InitialConcurrency = 1
    QueueTolerance = 1
    QueueCapacity = 2
    MaxInflight = 2
    ShortWeight = 2
    LongWeight = 2
    MinRtt = 1
    BaselineBuckets = 2
    BucketDuration = 3
    ProbeDuration = 1
    MinProbeInterval = 1
    MaxProbeInterval = 2
    PositiveRateDelta = 50
    ProbeKinds = {"Positive", "Negative"}
    MaxId = 3
    SlowestInterval = 64
    Endpoints = 2
    Workers = 1
    ServiceTime = 5
    ArrivalInterval = 1
    End = 10
INVARIANTS
    AccountsBalance
    NothingDueIsLeft
PROPERTIES
    EveryEventIsLater
CHECK_DEADLOCK FALSE
