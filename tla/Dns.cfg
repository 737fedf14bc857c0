SPECIFICATION FairSpec
CONSTANTS
    None = None
    Request = {r1, r2}
    Address = {1, 2}
    RefreshAfter = 1
    EvictAfterStale = 2
    Places = 1
    Lanes = 1
    MaxResolves = 2
    MaxTime = 2
INVARIANTS
    GuardsMatchEndpoints
    NoLockCycle
PROPERTIES
    ControllersSurvive
    RecheckIsExact
    RefreshEnds
