\* One replica, overlapping batches, fair; the third event has a type of its own,
\* unmapped at first, and an amount that is not finite.
SPECIFICATION FairSpec
CONSTANTS
    a = a
    b = b
    c = c
    known = known
    other = other
    Event = {a, b, c}
    Type = {known, other}
    TypeOf <- OneStranger
    Unresolvable = {}
    Unconvertible = {c}
    Profiled = {a}
    Body <- OppositeBodies
    Request = {q1, q2}
    Worker = {w1}
    BatchSize = 2
    MaxPosts = 2
    MaxFailures = 1
INVARIANTS
    NewOnce
    NoCopies
    ToldIsStored
PROPERTIES
    DecidedUnlessStuck
    EveryPostEnds
    LossIsOneBatch
    VerdictIsFinal
