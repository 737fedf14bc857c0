SPECIFICATION FairSpec
CONSTANTS
    None = None
    MaxInstant = 5
    ExpectedRtt = 2
    InitialConcurrency = 1
    QueueTolerance = 1
    QueueCapacity = 2
    MaxInflight = 2
    ShortWeight = 2
    LongWeight = 2
    MinRtt = 1
    BaselineBuckets = 2
    BucketDuration = 3
    ProbeDuration = 2
    MinProbeInterval = 9
    MaxProbeInterval = 9
    PositiveRateDelta = 50
    ProbeKinds = {}
    MaxId = 3
    SlowestInterval = 2
    Task = {p1, p2}
    Completion = {"Success", "Abandoned"}
    LastServeAt = 0
    MaxTime = 5
PROPERTIES
    EveryoneIsServed
