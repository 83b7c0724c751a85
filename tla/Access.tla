------------------------------- MODULE Access -------------------------------
(***************************************************************************)
(* What the transactions of the worker, the ingestion API and the console  *)
(* need of the schema. A need is <<privilege, table, column>>, or <<"PART",*)
(* table, name>> for a constraint named in ON CONFLICT or a column that the*)
(* ORM reads and writes with the row.                                      *)
(*                                                                         *)
(* PostgreSQL asks for more than the verb says: an ORM insert returns the  *)
(* defaults the server filled in (INSERT ... RETURNING) and so reads, ON   *)
(* CONFLICT reads the columns of its constraint, UPDATE reads its WHERE,   *)
(* and FOR UPDATE needs UPDATE on some column of the row.                  *)
(***************************************************************************)
EXTENDS Schema

Reads(T) == {"SELECT"} \X T \X All
Adds(T) == SelectInsert \X T \X All             \* INSERT ... RETURNING or ON CONFLICT
AddsBlind(T) == {"INSERT"} \X T \X All          \* nothing is read back
Writes(t, columns) == Reads({t}) \cup ({"UPDATE"} \X {t} \X columns)
Part(t, names) == {"PART"} \X {t} \X names

\* The ORM selects and writes all columns of a model.
IncentiveColumns == Part("incentives", {"changes_credit_terms", "applicable_profile_types"})
RunColumns == Part("pipeline_runs", {"attempts"})

-----------------------------------------------------------------------------
\* The repositories.

ListTenants == Reads({"tenants"})
ResolveKey == Reads({"tenants", "api_keys"})

InsertRawEvent == Adds({"raw_events"}) \cup Part("raw_events", {"uq_raw_events_idempotency"})
ClaimAndMark == Writes("raw_events", {"processed_at", "process_error"})
CanonicalEvents == Reads({"raw_events", "canonical_events"}) \cup AddsBlind({"canonical_events"})

UpsertUser ==
    Adds({"users"}) \cup Writes("users", UserColumns) \cup Part("users", {"users_pkey"})
ReadUsers == Reads({"users", "risk_scores", "impact_scores"})
ReadSegments == Reads({"users", "risk_scores", "canonical_events"})

ListMappings == Reads({"event_type_mappings"})
UpsertMapping ==
    Adds({"event_type_mappings"}) \cup
    Writes("event_type_mappings",
           {"canonical_event_type", "amount_field_path", "counterparty_field_path",
            "occurred_at_field_path", "active"})
ListIncentives == Reads({"incentives"}) \cup IncentiveColumns

InsertSignals == Adds({"external_signals"})
ListSignals == Reads({"external_signals"})
WriteScores ==
    Adds({"risk_scores", "impact_scores", "transaction_circles"})
        \cup AddsBlind({"circle_members"})
LoadContacts == Reads({"contact_log"})
WritePolicyDecisions == Adds({"policy_decisions"})

WriteAllocation == Adds({"allocation_runs"}) \cup AddsBlind({"allocation_candidates"})
ReadAllocation == Reads({"allocation_runs", "allocation_candidates"})
SaveNarration == Adds({"narrations"}) \cup Part("narrations", {"narrations_pkey"})

GetOrCreateExperiment == Adds({"experiments"})
RecordAssignment ==
    Adds({"experiment_assignments"})
        \cup Part("experiment_assignments", {"experiment_assignments_pkey"})
RecordOutcome == Reads({"experiments"}) \cup AddsBlind({"outcome_events"})
ReadMeasurement == Reads({"experiments", "experiment_assignments", "outcome_events"})

SaveSnapshots == Adds({"feature_snapshots"})
LoadOutcomes == Reads({"outcome_events", "experiment_assignments", "feature_snapshots"})
InsertLabels ==
    Adds({"labeled_examples"}) \cup Part("labeled_examples", {"uq_labeled_examples_dedupe"})
ReadLabels == Reads({"labeled_examples"})

CreateRun == Adds({"pipeline_runs"}) \cup RunColumns
AdvanceRun ==
    Writes("pipeline_runs", {"status", "started_at", "finished_at", "attempts", "stages", "error"})
        \cup RunColumns
ReadRun == Reads({"pipeline_runs"}) \cup RunColumns

AppendAudit == Adds({"audit_log"})
ReadAudit == Reads({"audit_log"})
CreatePending == Adds({"recommendations"})
ReadRecommendations == Reads({"recommendations"})
Review ==
    Writes("recommendations", {"status", "reviewed_by", "reviewed_at", "review_note"})
        \cup AppendAudit
MarkDelivered ==
    Writes("recommendations", {"status", "delivered_at", "delivery_ref"}) \cup AppendAudit

-----------------------------------------------------------------------------
\* Who does what: the worker and the ingestion routes connect as app_worker, the
\* console routes, key and session lookups as app_console.

WorkerUses ==
    UNION {ListTenants, ListMappings, ClaimAndMark, CanonicalEvents, UpsertUser,
           ListIncentives, InsertSignals, WriteScores, LoadContacts, WritePolicyDecisions,
           WriteAllocation, SaveNarration, GetOrCreateExperiment, RecordAssignment,
           SaveSnapshots, LoadOutcomes, InsertLabels, ReadLabels, AdvanceRun,
           CreatePending, AppendAudit}

IngestUses == UNION {InsertRawEvent, RecordOutcome, ReadRecommendations, MarkDelivered}

ConsoleUses ==
    UNION {ListTenants, ResolveKey, ReadUsers, ReadSegments, ListMappings, UpsertMapping,
           ListIncentives, ListSignals, ReadAllocation, ReadMeasurement, ReadLabels,
           CreateRun, ReadRun, ReadAudit, ReadRecommendations, Review}

Uses == [role \in {Worker, Console} |->
            IF role = Worker THEN WorkerUses \cup IngestUses ELSE ConsoleUses]

Meets(d, role, need) ==
    IF need[1] = "PART"
    THEN <<need[2], need[3]>> \in d.parts
    ELSE \/ <<role, need[1], need[2], "*">> \in d.grants
         \/ <<role, need[1], need[2], need[3]>> \in d.grants

\* At the last revision every transaction of the services finds what it needs.
\* Migrations 0007, 0009, 0010 and 0011 repair four that did not: the grants of 0006
\* and the statements of the repositories are written apart, and a test of the code
\* that does not connect as the role of production passes without them.
HeadServes ==
    db.rev = Head => \A role \in DOMAIN Uses : \A need \in Uses[role] : Meets(db, role, need)

\* Only the console's role can write the columns of a review, and nobody can change
\* or remove an audit row (core requirement 8; audit.py: no update or delete).
ReviewIsConsole ==
    \A g \in db.grants :
        /\ (/\ g[2] = "UPDATE"
            /\ g[3] = "recommendations"
            /\ g[4] \in {"*", "reviewed_by", "reviewed_at", "review_note"}) => g[1] = Console
        /\ g[3] = "audit_log" => g[2] \in SelectInsert

=============================================================================
