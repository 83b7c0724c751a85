SPECIFICATION Spec
CONSTANTS
    u1 = u1
    u2 = u2
    ring = ring
    User = {u1, u2}
    Circle = {ring}
    Members <- Ring
    Offer = {0, 1, 2}
    GroupOffer = {7}
    Borrowing = {1, 7}
    CreditTerms = {0}
    CapConfigured = TRUE
    CircleMin = 2
    Split <- Settings
    BucketMap <- Buckets
    Situation <- Situations
    Text = {llm, template}
    Run = {r1}
    NoRun = none
    NoCode = nil
    MaxAttempts = 2
INVARIANTS
    HardRulesHold
    BundleWhole
    HoldoutKept
    SnapshotsTruthful
    SuccessIsWhole
