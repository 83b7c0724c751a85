SPECIFICATION Spec
CONSTANTS
    u1 = u1
    u2 = u2
    User = {u1, u2}
    Run = {r1, r2}
    NoRun = none
    Replica = {a, b}
    Report = {p}
    ArmOf <- Arms
    MaxOutcomes = 1
    MaxExecutions = 3
SYMMETRY Symmetric
CHECK_DEADLOCK FALSE
INVARIANTS
    OneLabelEach
    LabelsTruthful
    ContextComplete
    ExperimentsBounded
PROPERTIES
    LabelsKept
