SPECIFICATION Spec
CONSTANTS
    Item = {1, 2, 3, 4, 5}
    KeyOf <- Keys
    Input <- Inputs
    NoItem = none
INVARIANTS
    WithinBudget
    ExactIsOptimal
    GreedyIsMaximal
CHECK_DEADLOCK FALSE
