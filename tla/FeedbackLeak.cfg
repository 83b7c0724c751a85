SPECIFICATION Spec
CONSTANTS
    u1 = u1
    u2 = u2
    User = {u1, u2}
    Run = {r1, r2, r3}
    NoRun = none
    Replica = {a}
    Report = {p}
    ArmOf <- Arms
    MaxOutcomes = 1
    MaxExecutions = 3
CHECK_DEADLOCK FALSE
INVARIANTS
    NoLeak
