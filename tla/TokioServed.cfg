SPECIFICATION FairSpec
CONSTANTS
    None = None
    MaxInstant = 6
    ExpectedRtt = 1
    InitialConcurrency = 1
    QueueTolerance = 1
    QueueCapacity = 2
    MaxInflight = 1
    ShortWeight = 2
    LongWeight = 2
    MinRtt = 1
    BaselineBuckets = 2
    BucketDuration = 3
    ProbeDuration = 2
    MinProbeInterval = 9
    MaxProbeInterval = 9
    PositiveRateDelta = 50
    ProbeKinds = {}
    MaxId = 3
    SlowestInterval = 2
    Task = {p1, p2}
    Endpoint = {1}
    Completion = {"Success", "Abandoned"}
    LastReserveAt = 1
    MaxTime = 6
PROPERTIES
    EveryoneIsServed
