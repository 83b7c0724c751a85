\* Two replicas, one run, two stages, two attempts.
SPECIFICATION Spec
CONSTANTS
    Worker = {w1, w2}
    Run = {1}
    TenantCount = 1
    TenantOf <- OneTenant
    StageCount = 2
    MaxRetries = 2
    StaleAge = 1
    NoRun = NoRun
    Unread = Unread
SYMMETRY Interchangeable
INVARIANTS
    FailedOnlyWhenSpent
    ClaimsDistinct
    OvershootBounded
