\* Two requests in flight on two sibling rows.
SPECIFICATION Spec
CONSTANTS
    t1 = t1  t2 = t2
    r1 = r1  r2 = r2
    a1 = a1  s1 = s1
    alice = alice  bob = bob
    Subject = {s1}
    SubjectOf <- OneSubjectOf
    AckActor = AckActor
    Nobody = Nobody
    NoRequest = NoRequest
    Txn = {t1, t2}
    Rec = {r1, r2}
    AllocRun = {a1}
    RunOf <- OneRunRunOf
    Reviewer = {alice, bob}
INVARIANTS
    OneLivePerSubject
