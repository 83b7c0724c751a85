\* One replica with a fair scheduler, two runs of two tenants, one stage, two
\* attempts.
SPECIFICATION FairSpec
CONSTANTS
    Worker = {w1}
    Run = {1, 2}
    TenantCount = 2
    TenantOf <- Alternating
    StageCount = 1
    MaxRetries = 2
    StaleAge = 1
    NoRun = NoRun
    Unread = Unread
INVARIANTS
    RetryBudget
    ClaimHolds
    SucceededMeansAllDone
PROPERTIES
    LifecycleSpec
    EveryRunSettles
