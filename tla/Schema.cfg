SPECIFICATION Spec
INVARIANTS
    Reversible
    NeverRaises
    LaterTablesCovered
    HeadServes
    ReviewIsConsole
