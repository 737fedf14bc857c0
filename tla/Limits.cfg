SPECIFICATION Spec
CONSTANTS
    None = None
    MaxInstant = 5
    ExpectedRtt = 2
    InitialConcurrency = 1
    QueueTolerance = 1
    QueueCapacity = 2
    MaxInflight = 2
    ShortWeight = 2
    LongWeight = 2
    MinRtt = 1
    BaselineBuckets = 2
    BucketDuration = 3
    ProbeDuration = 1
    MinProbeInterval = 1
    MaxProbeInterval = 2
    PositiveRateDelta = 50
    ProbeKinds = {"Positive", "Negative"}
    MaxId = 2
    SlowestInterval = 4
    MaxTime = 4
    MaxAdmissionFailures = 0
INVARIANTS
    TypeOK
    NoSpin
    RefreshSettles
    SilenceIsMeasured
PROPERTIES
    WakeupsAreRaised
    FasterOnlyOnEvidence
