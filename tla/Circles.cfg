SPECIFICATION Spec
CONSTANTS
    Node = {1, 2, 3, 4, 5}
    Counts <- Around
    MinInteractions = 2
    MinSize = 3
CHECK_DEADLOCK FALSE
INVARIANTS
    CirclesAreComponents
PROPERTIES
    MergeSpec
    Returns
