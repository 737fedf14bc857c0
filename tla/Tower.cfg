SPECIFICATION FairSpec
CONSTANTS
    None = None
    MaxInstant = 4
    ExpectedRtt = 2
    InitialConcurrency = 1
    QueueTolerance = 1
    QueueCapacity = 2
    MaxInflight = 2
    ShortWeight = 2
    LongWeight = 2
    MinRtt = 1
    BaselineBuckets = 2
    BucketDuration = 3
    ProbeDuration = 2
    MinProbeInterval = 9
    MaxProbeInterval = 9
    PositiveRateDelta = 50
    ProbeKinds = {}
    MaxId = 2
    SlowestInterval = 2
    Poller = {w1, w2}
    Completion = {"Success"}
    LastCallAt = 1
    MaxTime = 4
INVARIANTS
    TypeOK
    GuardsMatchController
    NoLostWakeup
    LastPollerIsWoken
    GrantIsKept
    NeverPolledAgain
PROPERTIES
    EveryoneIsAnswered
