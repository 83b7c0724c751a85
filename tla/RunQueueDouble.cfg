\* Two replicas and one run: can both execute it?
SPECIFICATION Spec
CONSTANTS
    Worker = {w1, w2}
    Run = {1}
    TenantCount = 1
    TenantOf <- OneTenant
    StageCount = 1
    MaxRetries = 2
    StaleAge = 0
    NoRun = NoRun
    Unread = Unread
INVARIANTS
    NoDoubleRun
