---------------------------- MODULE ReviewLedger ----------------------------
(***************************************************************************)
(* What the review gate promises, with no transactions in it: a ledger of  *)
(* recommendations in which every decision is one indivisible entry made   *)
(* by a named person, and a delivery can only follow an approval.          *)
(* ReviewGate, where the same decisions are taken by concurrent database   *)
(* transactions, is shown to implement this ledger.                        *)
(***************************************************************************)
EXTENDS Sequences

CONSTANTS
    Rec,        \* rows of the table recommendations
    Reviewer,   \* reviewer ids a console session can carry
    AckActor,   \* the actor the client's delivery acknowledgement is filed under
    Nobody      \* SQL NULL in reviewed_by

VARIABLES
    status,      \* recommendations.status; "DRAFT" is a row not inserted yet
    reviewedBy,  \* recommendations.reviewed_by
    trail        \* audit_log, one sequence of entries per recommendation

ledgerVars == <<status, reviewedBy, trail>>

LedgerInit ==
    /\ status = [r \in Rec |-> "DRAFT"]
    /\ reviewedBy = [r \in Rec |-> Nobody]
    /\ trail = [r \in Rec |-> <<>>]

\* The worker files a batch of recommendations for review.
File(batch) ==
    /\ \A r \in batch : status[r] = "DRAFT"
    /\ status' = [r \in Rec |->
                     IF r \in batch THEN "PENDING_APPROVAL" ELSE status[r]]
    /\ UNCHANGED <<reviewedBy, trail>>

\* A named person decides on a pending recommendation, once.
Decide(r, who, verdict) ==
    /\ status[r] = "PENDING_APPROVAL"
    /\ verdict \in {"APPROVED", "REJECTED"}
    /\ status' = [status EXCEPT ![r] = verdict]
    /\ reviewedBy' = [reviewedBy EXCEPT ![r] = who]
    /\ trail' = [trail EXCEPT ![r] = Append(@, [actor |-> who, to |-> verdict])]

\* An approved recommendation is delivered, once, and keeps its reviewer.
Deliver(r, actor) ==
    /\ status[r] = "APPROVED"
    /\ status' = [status EXCEPT ![r] = "DELIVERED"]
    /\ trail' = [trail EXCEPT ![r] = Append(@, [actor |-> actor, to |-> "DELIVERED"])]
    /\ UNCHANGED reviewedBy

LedgerNext ==
    \/ \E batch \in SUBSET Rec : File(batch)
    \/ \E r \in Rec, who \in Reviewer, verdict \in {"APPROVED", "REJECTED"} :
           Decide(r, who, verdict)
    \/ \E r \in Rec, actor \in Reviewer \cup {AckActor} : Deliver(r, actor)

LedgerSpec == LedgerInit /\ [][LedgerNext]_ledgerVars

=============================================================================
