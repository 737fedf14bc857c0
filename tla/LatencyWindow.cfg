SPECIFICATION Spec
CONSTANTS
    None = None
    MaxInstant = 100
    ExpectedRtt = 2
    InitialConcurrency = 1
    QueueTolerance = 1
    QueueCapacity = 1
    MaxInflight = 1
    ShortWeight = 1
    LongWeight = 1
    MinRtt = 1
    BaselineBuckets = 3
    BucketDuration = 2
    Sample = {1,2}
    Staleness = 1
    MaxTime = 9
INVARIANTS
    BaselineIsRecentMinimum
