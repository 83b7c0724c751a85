-------------------------- MODULE ReviewGateProofs --------------------------
(***************************************************************************)
(* Theorems about the review gate, for every number of requests, rows,     *)
(* reviewers and allocation runs.                                          *)
(*                                                                         *)
(* The argument.  A transaction that is past its row lock excludes every   *)
(* other (RowSerialised), so nobody can change the row under it and what   *)
(* assert_transition saw is still true at the commit (CheckedStillHolds).  *)
(* A commit therefore extends the row's trail by the one entry its status  *)
(* calls for (AuditTrail), which is a step of the ledger.                  *)
(***************************************************************************)
EXTENDS ReviewGate, SequenceTheorems, TLAPS

\* What the transition table says of the three targets a request can have.
LEMMA Moves ==
    ASSUME NEW src \in Status, NEW who
    PROVE  /\ MayMove(src, "APPROVED", who)
                <=> src = "PENDING_APPROVAL" /\ who # Nobody
           /\ MayMove(src, "REJECTED", who)
                <=> src = "PENDING_APPROVAL" /\ who # Nobody
           /\ MayMove(src, "DELIVERED", who)
                <=> src = "APPROVED" /\ who # Nobody
<1>1. src \in {"DRAFT", "PENDING_APPROVAL", "APPROVED", "REJECTED", "EXPIRED",
               "DELIVERED"}
    BY DEF Status
<1>2. ALLOWED_TRANSITIONS[src] =
        CASE src = "DRAFT"            -> {"PENDING_APPROVAL"}
          [] src = "PENDING_APPROVAL" -> {"APPROVED", "REJECTED", "EXPIRED"}
          [] src = "APPROVED"         -> {"DELIVERED"}
          [] OTHER                    -> {}
    BY DEF ALLOWED_TRANSITIONS
<1>. QED
    BY <1>1, <1>2 DEF MayMove, REVIEWER_REQUIRED

\* Where a request can lead.
LEMMA Targets ==
    ASSUME NEW q \in Request
    PROVE  /\ q.op = "approve" => Target(q) = "APPROVED"
           /\ q.op = "reject"  => Target(q) = "REJECTED"
           /\ q.op = "deliver" => Target(q) = "DELIVERED"
           /\ q.op \in {"approve", "reject", "deliver"}
           /\ Target(q) \in Status
    BY DEF Request, Op, Target, Status

\* Appending to an empty and to a one-entry trail.
LEMMA Appended ==
    ASSUME NEW x, NEW y
    PROVE  Append(<<>>, y) = <<y>> /\ Append(<<x>>, y) = <<x, y>>
<1> DEFINE S == {x, y}
<1>1. <<>> \in Seq(S) /\ <<x>> \in Seq(S) /\ <<y>> \in Seq(S) /\ <<x, y>> \in Seq(S)
    OBVIOUS
<1>2. Append(<<>>, y) \in Seq(S) /\ Append(<<x>>, y) \in Seq(S)
    BY <1>1
<1>3. Append(<<>>, y) = <<y>>
    <2>1. Len(Append(<<>>, y)) = 1 /\ Append(<<>>, y)[1] = y
        BY <1>1
    <2>. QED
        BY <1>1, <1>2, <2>1, SeqEqual
<1>4. Append(<<x>>, y) = <<x, y>>
    <2>1. /\ Len(Append(<<x>>, y)) = 2
          /\ Append(<<x>>, y)[1] = x
          /\ Append(<<x>>, y)[2] = y
          /\ Len(<<x, y>>) = 2 /\ <<x, y>>[1] = x /\ <<x, y>>[2] = y
        BY <1>1
    <2>2. \A i \in 1 .. Len(Append(<<x>>, y)) : Append(<<x>>, y)[i] = <<x, y>>[i]
        BY <2>1
    <2>. HIDE DEF S
    <2>. QED
        BY <1>1, <1>2, <2>1, <2>2, SeqEqual
<1>. QED
    BY <1>3, <1>4

-----------------------------------------------------------------------------
\* The columns always hold values their tables admit, and a transaction in
\* flight always has a request.
THEOREM TypeCorrect == Spec => []TypeOK
<1>1. Init => TypeOK
    BY DEF Init, TypeOK, Status
<1>2. ASSUME TypeOK, [Next]_vars
      PROVE  TypeOK'
    <2>1. ASSUME NEW a \in AllocRun, CreatePending(a)
          PROVE  TypeOK'
        <3>1. status' \in [Rec -> Status]
            BY <1>2, <2>1 DEF CreatePending, TypeOK, Status
        <3>. QED
            BY <1>2, <2>1, <3>1 DEF CreatePending, TypeOK
    <2>2. ASSUME NEW t \in Txn, NEW q \in Request, Begin(t, q)
          PROVE  TypeOK'
        BY <1>2, <2>2, NoRequestAssumption DEF Begin, TypeOK
    <2>3. ASSUME NEW t \in Txn, Acquire(t)
          PROVE  TypeOK'
        BY <1>2, <2>3 DEF Acquire, TypeOK
    <2>4. ASSUME NEW t \in Txn, Refuse(t) \/ SiblingConflict(t) \/ Lose(t)
          PROVE  TypeOK'
        BY <1>2, <2>4 DEF Refuse, SiblingConflict, Lose, End, TypeOK
    <2>5. ASSUME NEW t \in Txn, SiblingClear(t)
          PROVE  TypeOK'
        BY <1>2, <2>5 DEF SiblingClear, TypeOK
    <2>6. ASSUME NEW t \in Txn, Commit(t)
          PROVE  TypeOK'
        <3> DEFINE q == req[t]
                   e == [actor |-> q.who, to |-> Target(q)]
        <3>1. q \in Request
            BY <1>2, <2>6 DEF Commit, TypeOK
        <3>2. q.rec \in Rec /\ q.who \in Actor /\ Target(q) \in Status
            BY <3>1, Targets DEF Request
        <3>3. q.op # "deliver" => q.who \in Reviewer
            BY <3>1 DEF Request
        <3>4. status' \in [Rec -> Status]
            BY <1>2, <2>6, <3>2 DEF Commit, TypeOK
        <3>5. reviewedBy' \in [Rec -> Reviewer \cup {Nobody}]
            BY <1>2, <2>6, <3>2, <3>3 DEF Commit, ReviewerId, TypeOK
        <3>6. trail' \in [Rec -> Seq([actor : Actor, to : Status])]
            <4>1. e \in [actor : Actor, to : Status]
                BY <3>2
            <4>2. trail[q.rec] \in Seq([actor : Actor, to : Status])
                BY <1>2, <3>2 DEF TypeOK
            <4>3. Append(trail[q.rec], e) \in Seq([actor : Actor, to : Status])
                BY <4>1, <4>2
            <4>4. trail' = [trail EXCEPT ![q.rec] = Append(trail[q.rec], e)]
                BY <2>6 DEF Commit
            <4>. HIDE DEF e, q
            <4>. QED
                BY <1>2, <3>2, <4>3, <4>4 DEF TypeOK
        <3>7. /\ pc' \in [Txn -> {"idle", "locking", "checking", "writing"}]
              /\ reply' \in [Txn -> {"none", "ok", "conflict", "lost"}]
              /\ \A u \in Txn : pc'[u] # "idle" \/ reply'[u] # "none"
                                => pc[u] # "idle" \/ reply[u] # "none"
              /\ req' = req
            BY <1>2, <2>6 DEF Commit, End, TypeOK
        <3>. QED
            BY <1>2, <3>4, <3>5, <3>6, <3>7 DEF TypeOK
    <2>7. CASE UNCHANGED vars
        BY <1>2, <2>7 DEF vars, TypeOK
    <2>. QED
        BY <1>2, <2>1, <2>2, <2>3, <2>4, <2>5, <2>6, <2>7 DEF Next, Serve
<1>. QED
    BY <1>1, <1>2, PTL DEF Spec

-----------------------------------------------------------------------------
(* The inductive invariant.                                                *)

\* A caller that was told "ok" on a decision is told about a decided row.
WinnerDecided ==
    \A t \in Txn :
        pc[t] = "idle" /\ reply[t] = "ok" /\ req[t].op \in {"approve", "reject"}
            => status[req[t].rec] \notin {"DRAFT", "PENDING_APPROVAL"}

GateInv ==
    /\ RowSerialised
    /\ CheckedStillHolds
    /\ AuditTrail
    /\ WinnerDecided
    /\ OneWinner

InFlight(t) == pc[t] \in {"checking", "writing"}

\* The conjunct of AuditTrail for one row.
Audited(r) ==
    /\ status[r] \in {"DRAFT", "PENDING_APPROVAL", "EXPIRED"} =>
          reviewedBy[r] = Nobody /\ trail[r] = <<>>
    /\ status[r] \in {"APPROVED", "REJECTED"} =>
          /\ reviewedBy[r] \in Reviewer
          /\ trail[r] = <<[actor |-> reviewedBy[r], to |-> status[r]]>>
    /\ status[r] = "DELIVERED" =>
          /\ reviewedBy[r] \in Reviewer
          /\ \E a \in Actor :
                trail[r] = <<[actor |-> reviewedBy[r], to |-> "APPROVED"],
                             [actor |-> a, to |-> "DELIVERED"]>>

\* What a transaction past its lock knows of its row.
LEMMA Known ==
    ASSUME TypeOK, CheckedStillHolds, NEW t \in Txn, InFlight(t)
    PROVE  /\ req[t] \in Request
           /\ req[t].rec \in Rec
           /\ req[t].who \in Actor
           /\ req[t].op \in {"approve", "reject", "deliver"}
           /\ req[t].op # "deliver" =>
                 /\ status[req[t].rec] = "PENDING_APPROVAL"
                 /\ req[t].who \in Reviewer
                 /\ Target(req[t]) \in {"APPROVED", "REJECTED"}
           /\ req[t].op = "deliver" =>
                 /\ status[req[t].rec] = "APPROVED"
                 /\ reviewedBy[req[t].rec] \in Reviewer
                 /\ Target(req[t]) = "DELIVERED"
<1> DEFINE q == req[t]
<1>1. q \in Request
    BY DEF TypeOK, InFlight
<1>2. /\ q.rec \in Rec
      /\ q.who \in Actor
      /\ q.op \in {"approve", "reject", "deliver"}
      /\ q.op # "deliver" => q.who \in Reviewer
    BY <1>1 DEF Request, Op
<1>3. MayMove(status[q.rec], Target(q), ReviewerId(q))
    BY DEF CheckedStillHolds, InFlight
<1>4. status[q.rec] \in Status /\ reviewedBy[q.rec] \in Reviewer \cup {Nobody}
    BY <1>2 DEF TypeOK
<1>5. CASE q.op = "deliver"
    <2>1. Target(q) = "DELIVERED"
        BY <1>1, <1>5, Targets
    <2>2. status[q.rec] = "APPROVED" /\ ReviewerId(q) # Nobody
        BY <1>3, <1>4, <2>1, Moves
    <2>3. ReviewerId(q) = reviewedBy[q.rec]
        BY <1>5 DEF ReviewerId
    <2>. QED
        BY <1>1, <1>2, <1>4, <1>5, <2>1, <2>2, <2>3
<1>6. CASE q.op # "deliver"
    <2>1. Target(q) \in {"APPROVED", "REJECTED"}
        BY <1>1, <1>2, <1>6, Targets
    <2>2. status[q.rec] = "PENDING_APPROVAL"
        BY <1>3, <1>4, <2>1, Moves
    <2>. QED
        BY <1>1, <1>2, <1>6, <2>1, <2>2
<1>. QED
    BY <1>5, <1>6

\* An action that leaves the rows alone and puts no transaction past a lock
\* keeps the invariant, whatever it answers its caller short of "ok".
LEMMA QuietStep ==
    ASSUME TypeOK, GateInv,
           UNCHANGED <<status, reviewedBy, trail>>,
           \A t \in Txn : InFlight(t)' => InFlight(t) /\ req'[t] = req[t],
           \A t \in Txn :
               pc'[t] = "idle" /\ reply'[t] = "ok"
                   => pc[t] = "idle" /\ reply[t] = "ok" /\ req'[t] = req[t]
    PROVE  GateInv'
<1>1. RowSerialised'
    BY DEF GateInv, RowSerialised, InFlight
<1>2. CheckedStillHolds'
    BY DEF GateInv, CheckedStillHolds, InFlight, ReviewerId
<1>3. AuditTrail'
    BY DEF GateInv, AuditTrail
<1>4. WinnerDecided'
    BY DEF GateInv, WinnerDecided
<1>5. OneWinner'
    BY DEF GateInv, OneWinner
<1>. QED
    BY <1>1, <1>2, <1>3, <1>4, <1>5 DEF GateInv

LEMMA CreateKeeps ==
    ASSUME TypeOK, GateInv, NEW a \in AllocRun, CreatePending(a)
    PROVE  GateInv'
<1>1. /\ UNCHANGED <<reviewedBy, trail, pc, req, reply>>
      /\ \A r \in Rec :
            \/ status'[r] = status[r]
            \/ status[r] = "DRAFT" /\ status'[r] = "PENDING_APPROVAL"
    BY DEF CreatePending
<1>2. RowSerialised'
    BY <1>1 DEF GateInv, RowSerialised
<1>3. CheckedStillHolds'
    <2> SUFFICES ASSUME NEW t \in Txn, InFlight(t)
                 PROVE  MayMove(status[req[t].rec], Target(req[t]), ReviewerId(req[t]))'
        BY <1>1 DEF CheckedStillHolds, InFlight
    <2>1. status'[req[t].rec] = status[req[t].rec]
        BY <1>1, Known DEF GateInv
    <2>2. MayMove(status[req[t].rec], Target(req[t]), ReviewerId(req[t]))
        BY DEF GateInv, CheckedStillHolds, InFlight
    <2>3. req'[t] = req[t] /\ ReviewerId(req[t])' = ReviewerId(req[t])
        BY <1>1 DEF ReviewerId
    <2>. QED
        BY <2>1, <2>2, <2>3
<1>4. AuditTrail'
    BY <1>1 DEF GateInv, AuditTrail
<1>5. WinnerDecided' /\ OneWinner'
    <2>1. \A t \in Txn : reply[t] = "ok" => req[t].rec \in Rec
        BY DEF TypeOK, Request
    <2>. QED
        BY <1>1, <2>1 DEF GateInv, WinnerDecided, OneWinner
<1>. QED
    BY <1>2, <1>3, <1>4, <1>5 DEF GateInv

LEMMA AcquireKeeps ==
    ASSUME TypeOK, GateInv, NEW t \in Txn, Acquire(t)
    PROVE  GateInv'
<1>1. /\ pc[t] = "locking"
      /\ Holders(req[t].rec) = {}
      /\ MayMove(status[req[t].rec], Target(req[t]), ReviewerId(req[t]))
      /\ UNCHANGED <<status, reviewedBy, trail, req, reply>>
      /\ pc' \in [Txn -> {"idle", "locking", "checking", "writing"}]
      /\ \A u \in Txn \ {t} : pc'[u] = pc[u]
      /\ pc'[t] # "idle"
    BY DEF Acquire, TypeOK
<1>2. \A u \in Txn : InFlight(u) => req[u].rec # req[t].rec
    BY <1>1 DEF Holders, InFlight
<1>3. RowSerialised'
    BY <1>1, <1>2 DEF GateInv, RowSerialised, InFlight
<1>4. CheckedStillHolds'
    <2> SUFFICES ASSUME NEW u \in Txn, InFlight(u)'
                 PROVE  MayMove(status[req[u].rec], Target(req[u]), ReviewerId(req[u]))'
        BY DEF CheckedStillHolds, InFlight
    <2>1. MayMove(status[req[u].rec], Target(req[u]), ReviewerId(req[u]))
        BY <1>1 DEF GateInv, CheckedStillHolds, InFlight
    <2>2. ReviewerId(req[u])' = ReviewerId(req[u])
        BY <1>1 DEF ReviewerId
    <2>. QED
        BY <1>1, <2>1, <2>2
<1>5. AuditTrail'
    BY <1>1 DEF GateInv, AuditTrail
<1>6. WinnerDecided' /\ OneWinner'
    BY <1>1 DEF GateInv, WinnerDecided, OneWinner
<1>. QED
    BY <1>3, <1>4, <1>5, <1>6 DEF GateInv

LEMMA CommitKeeps ==
    ASSUME TypeOK, GateInv, NEW t \in Txn, Commit(t)
    PROVE  GateInv'
<1> DEFINE q == req[t]
           r == q.rec
           e == [actor |-> q.who, to |-> Target(q)]
<1>1. InFlight(t) /\ pc[t] = "writing"
    BY DEF Commit, ReviewerId, InFlight
<1>2. /\ q \in Request /\ r \in Rec /\ q.who \in Actor
      /\ q.op \in {"approve", "reject", "deliver"}
      /\ q.op # "deliver" =>
            /\ status[r] = "PENDING_APPROVAL"
            /\ q.who \in Reviewer
            /\ Target(q) \in {"APPROVED", "REJECTED"}
      /\ q.op = "deliver" =>
            /\ status[r] = "APPROVED"
            /\ reviewedBy[r] \in Reviewer
            /\ Target(q) = "DELIVERED"
    BY <1>1, Known DEF GateInv
<1>3. /\ req' = req
      /\ status' = [status EXCEPT ![r] = Target(q)]
      /\ reviewedBy' = [reviewedBy EXCEPT
                           ![r] = IF q.op = "deliver" THEN reviewedBy[r] ELSE q.who]
      /\ trail' = [trail EXCEPT ![r] = Append(trail[r], e)]
    BY DEF Commit, ReviewerId
<1>4. /\ pc' = [pc EXCEPT ![t] = "idle"]
      /\ \A u \in Txn \ {t} : pc'[u] = pc[u] /\ reply'[u] = reply[u]
    BY DEF Commit, End, TypeOK
<1>5. \A u \in Txn : InFlight(u)' => u # t /\ InFlight(u) /\ req[u].rec # r
    BY <1>1, <1>4 DEF GateInv, RowSerialised, InFlight, TypeOK
<1>6. /\ \A s \in Rec \ {r} : /\ status'[s] = status[s]
                             /\ reviewedBy'[s] = reviewedBy[s]
                             /\ trail'[s] = trail[s]
      /\ status'[r] = Target(q)
      /\ reviewedBy'[r] = IF q.op = "deliver" THEN reviewedBy[r] ELSE q.who
      /\ trail'[r] = Append(trail[r], e)
    BY <1>2, <1>3 DEF TypeOK
<1>7. RowSerialised'
    BY <1>3, <1>4, <1>5 DEF GateInv, RowSerialised, InFlight
<1>8. CheckedStillHolds'
    <2> SUFFICES ASSUME NEW u \in Txn, InFlight(u)'
                 PROVE  MayMove(status[req[u].rec], Target(req[u]), ReviewerId(req[u]))'
        BY DEF CheckedStillHolds, InFlight
    <2>1. MayMove(status[req[u].rec], Target(req[u]), ReviewerId(req[u]))
        BY <1>5 DEF GateInv, CheckedStillHolds, InFlight
    <2>2. req[u].rec \in Rec \ {r}
        BY <1>5, Known DEF GateInv
    <2>3. ReviewerId(req[u])' = ReviewerId(req[u])
        BY <1>3, <1>6, <2>2 DEF ReviewerId
    <2>. QED
        BY <1>3, <1>6, <2>1, <2>2, <2>3
<1>9. AuditTrail'
    <2>1. ASSUME NEW s \in Rec \ {r}
          PROVE  /\ status'[s] = status[s]
                 /\ reviewedBy'[s] = reviewedBy[s]
                 /\ trail'[s] = trail[s]
        BY <1>6
    <2>2. CASE q.op # "deliver"
        <3>1. trail[r] = <<>>
            BY <1>2, <2>2 DEF GateInv, AuditTrail
        <3>2. /\ trail'[r] = <<[actor |-> q.who, to |-> Target(q)]>>
              /\ reviewedBy'[r] = q.who
            BY <1>6, <2>2, <3>1
        <3>3. Target(q) \in {"APPROVED", "REJECTED"} /\ q.who \in Reviewer
            BY <1>2, <2>2
        <3>. HIDE DEF q, r, e
        <3>4. r \in Rec /\ status'[r] \in {"APPROVED", "REJECTED"}
              /\ trail'[r] = <<[actor |-> reviewedBy'[r], to |-> status'[r]]>>
            BY <1>2, <1>6, <3>2, <3>3
        <3>5. ASSUME NEW s \in Rec \ {r}
              PROVE  Audited(s)'
            BY <2>1, <3>5 DEF GateInv, AuditTrail, Audited
        <3>6. ASSUME NEW s \in Rec, s = r
              PROVE  Audited(s)'
            BY <3>2, <3>3, <3>4, <3>6 DEF Audited
        <3>. QED
            BY <3>5, <3>6 DEF AuditTrail, Audited
    <2>3. CASE q.op = "deliver"
        <3>1. trail[r] = <<[actor |-> reviewedBy[r], to |-> "APPROVED"]>>
            BY <1>2, <2>3 DEF GateInv, AuditTrail
        <3>2. trail'[r] = <<[actor |-> reviewedBy'[r], to |-> "APPROVED"],
                            [actor |-> q.who, to |-> "DELIVERED"]>>
            <4>1. e = [actor |-> q.who, to |-> "DELIVERED"] /\ reviewedBy'[r] = reviewedBy[r]
                BY <1>2, <1>6, <2>3
            <4>2. trail'[r] = Append(<<[actor |-> reviewedBy[r], to |-> "APPROVED"]>>, e)
                BY <1>6, <3>1
            <4>. HIDE DEF e
            <4>. QED
                BY <4>1, <4>2, Appended
        <3>3. /\ Target(q) = "DELIVERED" /\ q.who \in Actor
              /\ reviewedBy'[r] \in Reviewer /\ reviewedBy'[r] = reviewedBy[r]
            BY <1>2, <1>6, <2>3
        <3>. HIDE DEF q, r, e
        <3>4. r \in Rec /\ status'[r] = "DELIVERED"
            BY <1>2, <1>6, <3>3
        <3>5. ASSUME NEW s \in Rec \ {r}
              PROVE  Audited(s)'
            BY <2>1, <3>5 DEF GateInv, AuditTrail, Audited
        <3>6. ASSUME NEW s \in Rec, s = r
              PROVE  Audited(s)'
            BY <3>2, <3>3, <3>4, <3>6 DEF Audited
        <3>. QED
            BY <3>5, <3>6 DEF AuditTrail, Audited
    <2>. QED
        BY <2>2, <2>3
<1>10. WinnerDecided'
    <2> SUFFICES ASSUME NEW u \in Txn,
                        pc'[u] = "idle", reply'[u] = "ok",
                        req'[u].op \in {"approve", "reject"}
                 PROVE  status'[req'[u].rec] \notin {"DRAFT", "PENDING_APPROVAL"}
        BY DEF WinnerDecided
    <2>1. CASE u = t
        BY <1>2, <1>3, <1>6, <2>1
    <2>2. CASE u # t
        <3>1. status[req[u].rec] \notin {"DRAFT", "PENDING_APPROVAL"}
            BY <1>3, <1>4, <2>2 DEF GateInv, WinnerDecided
        <3>2. req[u].rec \in Rec
            BY <1>4, <2>2 DEF TypeOK, Request
        <3>. QED
            BY <1>2, <1>3, <1>6, <3>1, <3>2
    <2>. QED
        BY <2>1, <2>2
<1>11. OneWinner'
    <2> DEFINE Won(u) == pc[u] = "idle" /\ reply[u] = "ok"
                         /\ req[u].op \in {"approve", "reject"}
    <2>1. \A u \in Txn \ {t} :
             pc'[u] = "idle" /\ reply'[u] = "ok" /\ req'[u].op \in {"approve", "reject"}
                => Won(u)
        BY <1>3, <1>4
    <2>2. \A u \in Txn : Won(u) => status[req[u].rec] \notin {"DRAFT", "PENDING_APPROVAL"}
        BY DEF GateInv, WinnerDecided
    <2>3. \A u \in Txn \ {t} :
             q.op \in {"approve", "reject"} /\ Won(u) => req[u].rec # r
        BY <1>2, <2>2
    <2>4. \A u, v \in Txn : Won(u) /\ Won(v) /\ req[u].rec = req[v].rec => u = v
        BY DEF GateInv, OneWinner
    <2>. QED
        BY <1>3, <2>1, <2>3, <2>4 DEF OneWinner
<1>. QED
    BY <1>7, <1>8, <1>9, <1>10, <1>11 DEF GateInv

\* The invariant holds of every reachable state.
LEMMA GateInvariant == Spec => []GateInv
<1>1. Init => GateInv
    BY DEF Init, GateInv, RowSerialised, CheckedStillHolds, AuditTrail,
           WinnerDecided, OneWinner
<1>2. TypeOK /\ GateInv /\ [Next]_vars => GateInv'
    <2> SUFFICES ASSUME TypeOK, GateInv, [Next]_vars
                 PROVE  GateInv'
        OBVIOUS
    <2>1. ASSUME NEW a \in AllocRun, CreatePending(a)
          PROVE  GateInv'
        BY <2>1, CreateKeeps
    <2>2. ASSUME NEW t \in Txn, NEW q \in Request, Begin(t, q)
          PROVE  GateInv'
        <3>1. /\ \A u \in Txn : InFlight(u)' => InFlight(u) /\ req'[u] = req[u]
              /\ \A u \in Txn : pc'[u] = "idle" /\ reply'[u] = "ok"
                    => pc[u] = "idle" /\ reply[u] = "ok" /\ req'[u] = req[u]
              /\ UNCHANGED <<status, reviewedBy, trail>>
            BY <2>2 DEF Begin, InFlight, TypeOK
        <3>. QED
            BY <3>1, QuietStep
    <2>3. ASSUME NEW t \in Txn, Acquire(t)
          PROVE  GateInv'
        BY <2>3, AcquireKeeps
    <2>4. ASSUME NEW t \in Txn,
                 Refuse(t) \/ SiblingClear(t) \/ SiblingConflict(t) \/ Lose(t)
          PROVE  GateInv'
        <3>1. /\ \A u \in Txn : InFlight(u)' => InFlight(u) /\ req'[u] = req[u]
              /\ \A u \in Txn : pc'[u] = "idle" /\ reply'[u] = "ok"
                    => pc[u] = "idle" /\ reply[u] = "ok" /\ req'[u] = req[u]
              /\ UNCHANGED <<status, reviewedBy, trail>>
            BY <2>4 DEF Refuse, SiblingClear, SiblingConflict, Lose, End, InFlight, TypeOK
        <3>. QED
            BY <3>1, QuietStep
    <2>5. ASSUME NEW t \in Txn, Commit(t)
          PROVE  GateInv'
        BY <2>5, CommitKeeps
    <2>6. CASE UNCHANGED vars
        BY <2>6, QuietStep DEF vars, InFlight
    <2>. QED
        BY <2>1, <2>2, <2>3, <2>4, <2>5, <2>6 DEF Next, Serve
<1>. QED
    BY <1>1, <1>2, TypeCorrect, PTL DEF Spec

\* Two transactions are never past the lock of the same row together.
THEOREM RowsSerialise == Spec => []RowSerialised
    BY GateInvariant, PTL DEF GateInv

\* The status check of approve, reject and mark_delivered is never stale when
\* the row is written, whatever ran between the check and the commit.
THEOREM StatusCheckNeverStale == Spec => []CheckedStillHolds
    BY GateInvariant, PTL DEF GateInv

\* Every row is explained by its audit rows and by nothing else: what is
\* approved, rejected or delivered carries the named reviewer who decided it.
THEOREM AuditTrailComplete == Spec => []AuditTrail
    BY GateInvariant, PTL DEF GateInv

\* No two callers are told that their decision on one row went through.
THEOREM AtMostOneWinner == Spec => []OneWinner
    BY GateInvariant, PTL DEF GateInv

\* The trigger and the CHECK constraints never refuse a row of the API.
THEOREM DatabaseNeverRefuses == Spec => []TriggerIsBackstop
<1>1. TypeOK /\ GateInv => TriggerIsBackstop
    <2> SUFFICES ASSUME TypeOK, GateInv, NEW t \in Txn, pc[t] = "writing"
                 PROVE  /\ TriggerAccepts(status[req[t].rec], Target(req[t]))
                        /\ CheckAccepts(Target(req[t]), ReviewerId(req[t]))
        BY DEF TriggerIsBackstop
    <2>1. \/ /\ req[t].op # "deliver"
             /\ status[req[t].rec] = "PENDING_APPROVAL"
             /\ req[t].who \in Reviewer
             /\ Target(req[t]) \in {"APPROVED", "REJECTED"}
          \/ /\ req[t].op = "deliver"
             /\ status[req[t].rec] = "APPROVED"
             /\ reviewedBy[req[t].rec] \in Reviewer
             /\ Target(req[t]) = "DELIVERED"
        BY Known DEF GateInv, InFlight
    <2>2. ReviewerId(req[t]) # Nobody
        BY <2>1, GateAssumption DEF ReviewerId, Actor
    <2>. QED
        BY <2>1, <2>2 DEF TriggerAccepts, CheckAccepts
<1>. QED
    BY <1>1, GateInvariant, TypeCorrect, PTL

-----------------------------------------------------------------------------
(* The gate implements the ledger.                                         *)

\* Every step of the gate is a step of the ledger or changes nothing in it: a
\* commit is Decide or Deliver, the worker's insert is File, and what happens
\* before a commit is invisible.
THEOREM GateImplementsLedger == Spec => LedgerSpec
<1>1. Init => Ledger!LedgerInit
    BY DEF Init, Ledger!LedgerInit
<1>2. TypeOK /\ GateInv /\ [Next]_vars => [Ledger!LedgerNext]_(Ledger!ledgerVars)
    <2> SUFFICES ASSUME TypeOK, GateInv, [Next]_vars
                 PROVE  Ledger!LedgerNext \/ UNCHANGED <<status, reviewedBy, trail>>
        BY DEF Ledger!ledgerVars
    <2>1. ASSUME NEW a \in AllocRun, CreatePending(a)
          PROVE  Ledger!LedgerNext
        <3> DEFINE batch == {r \in Rec : RunOf[r] = a}
        <3>1. batch \in SUBSET Rec /\ Ledger!File(batch)
            BY <2>1 DEF CreatePending, Ledger!File
        <3>. QED
            BY <3>1 DEF Ledger!LedgerNext
    <2>2. ASSUME NEW t \in Txn, Commit(t)
          PROVE  Ledger!LedgerNext
        <3> DEFINE q == req[t]
        <3>1. \/ /\ q.op # "deliver"
                 /\ status[q.rec] = "PENDING_APPROVAL"
                 /\ q.who \in Reviewer
                 /\ Target(q) \in {"APPROVED", "REJECTED"}
              \/ /\ q.op = "deliver"
                 /\ status[q.rec] = "APPROVED"
                 /\ q.who \in Actor
                 /\ Target(q) = "DELIVERED"
            BY <2>2, Known DEF GateInv, InFlight, Commit
        <3>2. q.rec \in Rec
            BY <2>2, Known DEF GateInv, InFlight, Commit
        <3>3. CASE q.op # "deliver"
            <4>1. Ledger!Decide(q.rec, q.who, Target(q))
                BY <2>2, <3>1, <3>3 DEF Commit, ReviewerId, Ledger!Decide
            <4>. QED
                BY <3>1, <3>2, <3>3, <4>1 DEF Ledger!LedgerNext
        <3>4. CASE q.op = "deliver"
            <4>1. reviewedBy' = reviewedBy
                BY <2>2, <3>2, <3>4 DEF Commit, ReviewerId, TypeOK
            <4>2. Ledger!Deliver(q.rec, q.who)
                BY <2>2, <3>1, <3>4, <4>1 DEF Commit, ReviewerId, Ledger!Deliver
            <4>. QED
                BY <3>1, <3>2, <3>4, <4>2 DEF Ledger!LedgerNext, Actor
        <3>. QED
            BY <3>3, <3>4
    <2>3. ASSUME NEW t \in Txn,
                 \/ \E q \in Request : Begin(t, q)
                 \/ Acquire(t) \/ Refuse(t) \/ SiblingClear(t)
                 \/ SiblingConflict(t) \/ Lose(t)
          PROVE  UNCHANGED <<status, reviewedBy, trail>>
        BY <2>3 DEF Begin, Acquire, Refuse, SiblingClear, SiblingConflict, Lose
    <2>4. CASE UNCHANGED vars
        BY <2>4 DEF vars
    <2>. QED
        BY <2>1, <2>2, <2>3, <2>4 DEF Next, Serve
<1>. QED
    BY <1>1, <1>2, TypeCorrect, GateInvariant, PTL
        DEF Spec, LedgerSpec, Ledger!LedgerSpec

-----------------------------------------------------------------------------
(* The sibling rule, when approvals do not overlap.                        *)

\* With one request at a time, what the sibling query saw still holds at the
\* commit.
SiblingsClear ==
    \A t \in Txn : pc[t] = "writing" /\ req[t].op = "approve"
        => \A s \in Siblings(req[t].rec) : ~Live(s)

\* A subject never holds two live recommendations of one allocation run,
\* provided the API serves one request at a time.  (With two requests the rule
\* fails: run sibling_race.)
THEOREM OneLiveWhenSerial ==
    ASSUME \A t, u \in Txn : t = u
    PROVE  Spec => []OneLivePerSubject
<1> DEFINE Inv == SiblingsClear /\ OneLivePerSubject
<1>1. Init => Inv
    BY DEF Init, SiblingsClear, OneLivePerSubject, Live, Siblings
<1>2. TypeOK /\ GateInv /\ Inv /\ [Next]_vars => Inv'
    <2> SUFFICES ASSUME TypeOK, GateInv, SiblingsClear, OneLivePerSubject, [Next]_vars
                 PROVE  Inv'
        OBVIOUS
    <2>1. ASSUME NEW a \in AllocRun, CreatePending(a)
          PROVE  Inv'
        <3>1. \A r \in Rec : Live(r)' => Live(r)
            BY <2>1 DEF CreatePending, Live
        <3>. QED
            BY <2>1, <3>1 DEF CreatePending, SiblingsClear, OneLivePerSubject, Siblings
    <2>2. ASSUME NEW t \in Txn, SiblingClear(t)
          PROVE  Inv'
        <3>1. /\ UNCHANGED <<status, req>>
              /\ \A s \in Siblings(req[t].rec) : ~Live(s)
              /\ \A u \in Txn : pc'[u] = "writing" => u = t \/ pc[u] = "writing"
            BY <2>2 DEF SiblingClear, TypeOK
        <3>2. OneLivePerSubject'
            BY <3>1 DEF OneLivePerSubject, Siblings, Live
        <3>3. SiblingsClear'
            BY <3>1 DEF SiblingsClear, Siblings, Live
        <3>. QED
            BY <3>2, <3>3
    <2>3. ASSUME NEW t \in Txn,
                 \/ \E q \in Request : Begin(t, q)
                 \/ Acquire(t) \/ Refuse(t) \/ SiblingConflict(t) \/ Lose(t)
          PROVE  Inv'
        <3>1. /\ UNCHANGED status
              /\ \A u \in Txn : pc'[u] = "writing" /\ req'[u].op = "approve"
                    => pc[u] = "writing" /\ req'[u] = req[u]
            BY <2>3 DEF Begin, Acquire, Refuse, SiblingConflict, Lose, End, TypeOK
        <3>. QED
            BY <3>1 DEF SiblingsClear, OneLivePerSubject, Siblings, Live
    <2>4. ASSUME NEW t \in Txn, Commit(t)
          PROVE  Inv'
        <3> DEFINE q == req[t]
        <3>1. /\ q.rec \in Rec /\ pc[t] = "writing"
              /\ q.op \in {"approve", "reject", "deliver"}
              /\ q.op = "deliver" => Live(q.rec)
              /\ q.op = "reject" => Target(q) = "REJECTED"
              /\ status' = [status EXCEPT ![q.rec] = Target(q)]
            BY <2>4, Known, Targets DEF GateInv, InFlight, Commit, Live
        <3>2. \A u \in Txn : pc'[u] # "writing"
            BY <2>4 DEF Commit, End, TypeOK
        <3>3. \A r \in Rec : Live(r)' => Live(r) \/ (r = q.rec /\ q.op = "approve")
            BY <3>1 DEF Live, TypeOK
        <3>4. q.op = "approve" => \A s \in Siblings(q.rec) : ~Live(s)
            BY <3>1 DEF SiblingsClear
        <3>5. \A r \in Rec, s \in Rec : s \in Siblings(r) => r \in Siblings(s) /\ r # s
            BY DEF Siblings
        <3>6. Siblings(q.rec) \subseteq Rec
            BY DEF Siblings
        <3>7. OneLivePerSubject'
            <4> SUFFICES ASSUME NEW r \in Rec, NEW s \in Siblings(r), Live(r)', Live(s)'
                         PROVE  FALSE
                BY DEF OneLivePerSubject, Siblings
            <4>1. s \in Rec /\ r # s /\ r \in Siblings(s)
                BY <3>5 DEF Siblings
            <4>. QED
                BY <3>3, <3>4, <4>1 DEF OneLivePerSubject
        <3>. QED
            BY <3>2, <3>7 DEF SiblingsClear
    <2>5. CASE UNCHANGED vars
        BY <2>5 DEF vars, SiblingsClear, OneLivePerSubject, Siblings, Live
    <2>. QED
        BY <2>1, <2>2, <2>3, <2>4, <2>5 DEF Next, Serve
<1>. QED
    BY <1>1, <1>2, TypeCorrect, GateInvariant, PTL DEF Spec

=============================================================================
