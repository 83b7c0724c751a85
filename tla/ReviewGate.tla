----------------------------- MODULE ReviewGate -----------------------------
(***************************************************************************)
(* The review gate: the lifecycle of rows of the table recommendations     *)
(* under concurrent API requests.                                          *)
(*                                                                         *)
(* Every request (a reviewer's approve or reject, a delivery               *)
(* acknowledgement from the client or from the console) is one database    *)
(* transaction, READ COMMITTED.  It goes through the points where another  *)
(* transaction can get in between: it waits for the row lock, it reads the *)
(* siblings of the row (approve only), and it commits the new status with  *)
(* its audit row.  What it wrote before the commit is visible to nobody.   *)
(* The worker inserts the recommendations of one allocation run in one     *)
(* transaction.                                                            *)
(***************************************************************************)
EXTENDS Naturals, FiniteSets, Sequences

CONSTANTS
    Txn,         \* requests the API serves at a time
    Rec,         \* rows of recommendations
    AllocRun,    \* rows of allocation_runs
    Subject,     \* users and circles
    RunOf,       \* column allocation_run_id
    SubjectOf,   \* column user_pseudonym, or circle_id of a group row
    Reviewer,    \* reviewer ids a console session can carry
    AckActor,    \* "api_delivery_ack"
    Nobody,      \* SQL NULL
    NoRequest    \* a slot that has served no request yet

ASSUME GateAssumption ==
    /\ RunOf \in [Rec -> AllocRun]
    /\ SubjectOf \in [Rec -> Subject]
    /\ Nobody \notin Reviewer \cup {AckActor}
    /\ AckActor \notin Reviewer

VARIABLES
    status,      \* recommendations.status
    reviewedBy,  \* recommendations.reviewed_by
    trail,       \* audit_log rows of each recommendation, oldest first
    pc,          \* where each transaction is
    req,         \* the request each transaction serves, or served last
    reply        \* what the caller of the last request was told

vars == <<status, reviewedBy, trail, pc, req, reply>>

-----------------------------------------------------------------------------
(* The state machine, in the code and in the database.                     *)

Status ==
    {"DRAFT", "PENDING_APPROVAL", "APPROVED", "REJECTED", "EXPIRED", "DELIVERED"}

\* core_contracts.recommendation.ALLOWED_TRANSITIONS
ALLOWED_TRANSITIONS ==
    [s \in Status |->
        CASE s = "DRAFT"            -> {"PENDING_APPROVAL"}
          [] s = "PENDING_APPROVAL" -> {"APPROVED", "REJECTED", "EXPIRED"}
          [] s = "APPROVED"         -> {"DELIVERED"}
          [] OTHER                  -> {}]

REVIEWER_REQUIRED == {"APPROVED", "REJECTED", "DELIVERED"}

\* assert_transition(src, dst, reviewer_id) does not raise.
MayMove(src, dst, who) ==
    /\ dst \in ALLOWED_TRANSITIONS[src]
    /\ dst \in REVIEWER_REQUIRED => who # Nobody

\* The BEFORE UPDATE trigger lets the row pass: it checks an edge of its own
\* table, and lets every update that keeps the status through.
TriggerAccepts(old, new) ==
    \/ new = old
    \/ old = "DRAFT" /\ new = "PENDING_APPROVAL"
    \/ old = "PENDING_APPROVAL" /\ new \in {"APPROVED", "REJECTED", "EXPIRED"}
    \/ old = "APPROVED" /\ new = "DELIVERED"

\* The CHECK constraints of the table hold of the new row.
CheckAccepts(new, by) ==
    new \in {"APPROVED", "REJECTED", "DELIVERED"} => by # Nobody

-----------------------------------------------------------------------------
(* Requests.                                                               *)

Op == {"approve", "reject", "deliver"}
Actor == Reviewer \cup {AckActor}

\* A reviewer decides; a delivery is acknowledged by a reviewer from the
\* console or by the client under the name "api_delivery_ack".
Request ==
    {q \in [op : Op, rec : Rec, who : Actor] :
        q.op # "deliver" => q.who \in Reviewer}

ASSUME NoRequestAssumption == NoRequest \notin Request

Target(q) ==
    CASE q.op = "approve" -> "APPROVED"
      [] q.op = "reject"  -> "REJECTED"
      [] OTHER            -> "DELIVERED"

\* The reviewer_id handed to assert_transition and kept in reviewed_by: the
\* caller's for a decision, the one already on the row for a delivery.
ReviewerId(q) == IF q.op = "deliver" THEN reviewedBy[q.rec] ELSE q.who

\* Mutant: _load_for_update without FOR UPDATE.
NoHolders(r) == {}

\* Transactions that hold the lock of row r.
Holders(r) == {t \in Txn : pc[t] \in {"checking", "writing"} /\ req[t].rec = r}

Siblings(r) ==
    {s \in Rec \ {r} : RunOf[s] = RunOf[r] /\ SubjectOf[s] = SubjectOf[r]}

Live(r) == status[r] \in {"APPROVED", "DELIVERED"}

\* The transaction ends, with an answer for the caller.
End(t, answer) ==
    /\ pc' = [pc EXCEPT ![t] = "idle"]
    /\ reply' = [reply EXCEPT ![t] = answer]

Init ==
    /\ status = [r \in Rec |-> "DRAFT"]
    /\ reviewedBy = [r \in Rec |-> Nobody]
    /\ trail = [r \in Rec |-> <<>>]
    /\ pc = [t \in Txn |-> "idle"]
    /\ req = [t \in Txn |-> NoRequest]
    /\ reply = [t \in Txn |-> "none"]

\* The worker's PERSIST stage: every recommendation of an allocation run is
\* inserted, PENDING_APPROVAL and unreviewed, by one transaction.
CreatePending(a) ==
    LET batch == {r \in Rec : RunOf[r] = a} IN
    /\ batch # {}
    /\ \A r \in batch : status[r] = "DRAFT"
    /\ status' = [r \in Rec |->
                     IF r \in batch THEN "PENDING_APPROVAL" ELSE status[r]]
    /\ UNCHANGED <<reviewedBy, trail, pc, req, reply>>

\* A request arrives for a row that exists (an unknown id is answered 404
\* and touches nothing).
Begin(t, q) ==
    /\ pc[t] = "idle"
    /\ status[q.rec] # "DRAFT"
    /\ pc' = [pc EXCEPT ![t] = "locking"]
    /\ req' = [req EXCEPT ![t] = q]
    /\ reply' = [reply EXCEPT ![t] = "none"]
    /\ UNCHANGED <<status, reviewedBy, trail>>

\* SELECT ... FOR UPDATE returns and assert_transition passes: the row is
\* locked until the transaction ends.
Acquire(t) ==
    LET q == req[t] IN
    /\ pc[t] = "locking"
    /\ Holders(q.rec) = {}
    /\ MayMove(status[q.rec], Target(q), ReviewerId(q))
    /\ pc' = [pc EXCEPT ![t] = IF q.op = "approve" THEN "checking" ELSE "writing"]
    /\ UNCHANGED <<status, reviewedBy, trail, req, reply>>

\* SELECT ... FOR UPDATE returns and assert_transition raises: 409.
Refuse(t) ==
    LET q == req[t] IN
    /\ pc[t] = "locking"
    /\ Holders(q.rec) = {}
    /\ ~MayMove(status[q.rec], Target(q), ReviewerId(q))
    /\ End(t, "conflict")
    /\ UNCHANGED <<status, reviewedBy, trail, req>>

\* _assert_no_live_sibling: a plain read of what other transactions have
\* committed so far.
SiblingClear(t) ==
    /\ pc[t] = "checking"
    /\ \A s \in Siblings(req[t].rec) : ~Live(s)
    /\ pc' = [pc EXCEPT ![t] = "writing"]
    /\ UNCHANGED <<status, reviewedBy, trail, req, reply>>

\* Mutant: the conflict is answered and the session is not closed.
LeakedSession(t) ==
    /\ pc[t] = "checking"
    /\ \E s \in Siblings(req[t].rec) : Live(s)
    /\ reply' = [reply EXCEPT ![t] = "conflict"]
    /\ UNCHANGED <<status, reviewedBy, trail, pc, req>>

SiblingConflict(t) ==
    /\ pc[t] = "checking"
    /\ \E s \in Siblings(req[t].rec) : Live(s)
    /\ End(t, "conflict")
    /\ UNCHANGED <<status, reviewedBy, trail, req>>

\* The row and its audit row are written and committed together.  The caller
\* may never see the answer.  A row the trigger or a CHECK refuses does not
\* commit; TriggerIsBackstop says that no transaction gets that far.
Commit(t) ==
    LET q  == req[t]
        by == ReviewerId(q)
    IN
    /\ pc[t] = "writing"
    /\ TriggerAccepts(status[q.rec], Target(q))
    /\ CheckAccepts(Target(q), by)
    /\ status' = [status EXCEPT ![q.rec] = Target(q)]
    /\ reviewedBy' = [reviewedBy EXCEPT ![q.rec] = by]
    /\ trail' = [trail EXCEPT ![q.rec] =
                    Append(@, [actor |-> q.who, to |-> Target(q)])]
    /\ \E answer \in {"ok", "lost"} : End(t, answer)
    /\ UNCHANGED req

\* The transaction is lost before its commit (the API process dies, the
\* connection drops): the database rolls it back and releases the row.
Lose(t) ==
    /\ pc[t] # "idle"
    /\ End(t, "lost")
    /\ UNCHANGED <<status, reviewedBy, trail, req>>

Serve(t) ==
    \/ Acquire(t)
    \/ Refuse(t)
    \/ SiblingClear(t)
    \/ SiblingConflict(t)
    \/ Commit(t)

Next ==
    \/ \E a \in AllocRun : CreatePending(a)
    \/ \E t \in Txn :
        \/ \E q \in Request : Begin(t, q)
        \/ Serve(t)
        \/ Lose(t)

Spec == Init /\ [][Next]_vars

\* A request is served once it has the processor; PostgreSQL queues the
\* waiters of a row lock in order, so one that waits gets the row if it is
\* free again and again.  Nothing is assumed of callers, of the worker or of
\* failures.
Fairness == \A t \in Txn : WF_vars(Serve(t)) /\ SF_vars(Acquire(t) \/ Refuse(t))
FairSpec == Spec /\ Fairness

-----------------------------------------------------------------------------
(* What has to be true of it.                                              *)

\* Type invariant of the gate: columns hold values their tables admit.
TypeOK ==
    /\ status \in [Rec -> Status]
    /\ reviewedBy \in [Rec -> Reviewer \cup {Nobody}]
    /\ trail \in [Rec -> Seq([actor : Actor, to : Status])]
    /\ pc \in [Txn -> {"idle", "locking", "checking", "writing"}]
    /\ req \in [Txn -> Request \cup {NoRequest}]
    /\ reply \in [Txn -> {"none", "ok", "conflict", "lost"}]
    /\ \A t \in Txn : pc[t] # "idle" \/ reply[t] # "none" => req[t] # NoRequest

\* At most one transaction is past the lock of a row (the claim of
\* _load_for_update: two reviewers acting at the same time serialize).
RowSerialised ==
    \A t, u \in Txn :
        /\ pc[t] \in {"checking", "writing"}
        /\ pc[u] \in {"checking", "writing"}
        /\ req[t].rec = req[u].rec
        => t = u

\* What assert_transition saw is still so when the transaction writes, however
\* long the sibling query took and whatever others committed meanwhile: the
\* status check of approve, reject and mark_delivered is never stale.
CheckedStillHolds ==
    \A t \in Txn :
        pc[t] \in {"checking", "writing"}
            => MayMove(status[req[t].rec], Target(req[t]), ReviewerId(req[t]))

\* The trigger and the CHECK constraints are a second line only: no
\* transaction of the API reaches its UPDATE with a row they would refuse (it
\* would be answered 500 instead of 409).
TriggerIsBackstop ==
    \A t \in Txn :
        pc[t] = "writing" =>
            /\ TriggerAccepts(status[req[t].rec], Target(req[t]))
            /\ CheckAccepts(Target(req[t]), ReviewerId(req[t]))

\* The audit log tells the whole story of a row and nothing else: one decision
\* by the reviewer the row names, then at most one delivery (_audit: an
\* approval without its audit row, or the other way round, is not possible).
AuditTrail ==
    \A r \in Rec :
        /\ status[r] \in {"DRAFT", "PENDING_APPROVAL", "EXPIRED"} =>
              reviewedBy[r] = Nobody /\ trail[r] = <<>>
        /\ status[r] \in {"APPROVED", "REJECTED"} =>
              /\ reviewedBy[r] \in Reviewer
              /\ trail[r] = <<[actor |-> reviewedBy[r], to |-> status[r]]>>
        /\ status[r] = "DELIVERED" =>
              /\ reviewedBy[r] \in Reviewer
              /\ \E a \in Actor :
                    trail[r] = <<[actor |-> reviewedBy[r], to |-> "APPROVED"],
                                 [actor |-> a, to |-> "DELIVERED"]>>

\* Of all the callers that were told their approval or rejection of a row went
\* through, at most one request is behind it: two reviewers who press their
\* buttons together are never both answered 200.
OneWinner ==
    \A t, u \in Txn :
        /\ pc[t] = "idle" /\ reply[t] = "ok" /\ req[t].op \in {"approve", "reject"}
        /\ pc[u] = "idle" /\ reply[u] = "ok" /\ req[u].op \in {"approve", "reject"}
        /\ req[t].rec = req[u].rec
        => t = u

\* A subject holds at most one live recommendation per allocation run (the
\* comment above _LIVE_STATUSES, and the index models.py declares).
OneLivePerSubject ==
    \A r \in Rec : \A s \in Siblings(r) : ~(Live(r) /\ Live(s))

\* Every request is answered: no request waits for a row for ever and no two
\* requests wait for each other.
Answered == \A t \in Txn : pc[t] # "idle" ~> pc[t] = "idle"

\* The gate implements the ledger: each decision of a concurrent transaction
\* is one indivisible, attributed ledger entry or no entry at all.
Ledger == INSTANCE ReviewLedger WITH
    Rec <- Rec, Reviewer <- Reviewer, AckActor <- AckActor, Nobody <- Nobody,
    status <- status, reviewedBy <- reviewedBy, trail <- trail
LedgerSpec == Ledger!LedgerSpec

=============================================================================
