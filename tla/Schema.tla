------------------------------- MODULE Schema -------------------------------
(***************************************************************************)
(* The database schema and what every role may do with it, as the twelve   *)
(* Alembic migrations build it up and take it down again.                  *)
(*                                                                         *)
(* A schema is a record: rev is the revision in alembic_version, tables    *)
(* and parts are what exists (a part is a column that was added later or a *)
(* unique constraint the code names in ON CONFLICT), grants are tuples     *)
(* <<role, privilege, table, column>> with column "*" for the whole table, *)
(* isolated are the tables with row-level security and its policy, trigger *)
(* says whether the transition trigger is there, roles are the login roles *)
(* and raised says that a statement met what PostgreSQL refuses.           *)
(*                                                                         *)
(* One command (alembic upgrade or downgrade) is one transaction: `draft'  *)
(* is what it has made of the schema, `db' is what everybody else sees.    *)
(***************************************************************************)
EXTENDS Naturals, FiniteSets

Head == 12                      \* the last revision under migrations/versions
Worker == "app_worker"
Console == "app_console"
Readonly == "app_readonly"
Roles == {Worker, Console, Readonly}

VARIABLES db,                   \* the committed schema
          draft,                \* the schema inside the running command
          goal                  \* the revision the command goes to, or NoGoal

vars == <<db, draft, goal>>

NoGoal == Head + 1

Blank == [rev |-> 0, tables |-> {}, parts |-> {}, grants |-> {}, isolated |-> {},
          trigger |-> FALSE, roles |-> {}, raised |-> FALSE]

\* Alembic creates its version table before the first migration.
Versioned(d) == [d EXCEPT !.tables = @ \cup {"alembic_version"}]

-----------------------------------------------------------------------------
\* What a statement does, and when PostgreSQL raises instead.

Create(d, T) ==
    [d EXCEPT !.tables = @ \cup T,
              !.raised = @ \/ T \cap d.tables # {}]

AddParts(d, t, P) ==
    [d EXCEPT !.parts = @ \cup ({t} \X P),
              !.raised = @ \/ t \notin d.tables \/ ({t} \X P) \cap d.parts # {}]

DropParts(d, t, P) ==
    [d EXCEPT !.parts = @ \ ({t} \X P),
              !.raised = @ \/ ~(({t} \X P) \subseteq d.parts)]

\* DROP TABLE IF EXISTS ... CASCADE takes what hangs on the table with it.
Drop(d, T) ==
    [d EXCEPT !.tables   = @ \ T,
              !.parts    = {p \in @ : p[1] \notin T},
              !.grants   = {g \in @ : g[3] \notin T},
              !.isolated = @ \ T,
              !.trigger  = @ /\ "recommendations" \notin T]

Grant(d, privileges, T, columns, role) ==
    [d EXCEPT !.grants = @ \cup ({role} \X privileges \X T \X columns),
              !.raised = @ \/ ~(T \subseteq d.tables) \/ role \notin d.roles]

\* REVOKE of a privilege on a table takes the column privileges with it.
Revoke(d, privileges, T, columns, role) ==
    [d EXCEPT !.grants = {g \in @ : ~(/\ g[1] = role
                                      /\ g[2] \in privileges
                                      /\ g[3] \in T
                                      /\ "*" \in columns \/ g[4] \in columns)},
              !.raised = @ \/ ~(T \subseteq d.tables) \/ role \notin d.roles]

\* ENABLE ROW LEVEL SECURITY and CREATE POLICY tenant_isolation.
Isolate(d, T) ==
    [d EXCEPT !.isolated = @ \cup T,
              !.raised   = @ \/ ~(T \subseteq d.tables)]

Expose(d, T) == [d EXCEPT !.isolated = @ \ T]

\* DROP ROLE raises while the role holds a privilege.
DropRoles(d, R) ==
    [d EXCEPT !.roles  = @ \ R,
              !.raised = @ \/ \E g \in d.grants : g[1] \in R]

All == {"*"}
SelectInsert == {"SELECT", "INSERT"}

-----------------------------------------------------------------------------
\* The tables and parts of each migration.

Tables0001 == {"tenants", "api_keys", "event_type_mappings", "incentives"}
Tables0002 == {"raw_events", "canonical_events", "external_signals"}
Tables0003 == {"users", "counterparty_nodes", "relationship_edges",
               "transaction_circles", "circle_members", "risk_scores", "impact_scores"}
Tables0004 == {"pipeline_runs", "policy_decisions", "allocation_runs",
               "allocation_candidates", "recommendations", "narrations", "contact_log"}
Tables0005 == {"experiments", "experiment_assignments", "outcome_events",
               "labeled_examples", "audit_log"}

RlsTables ==
    {"allocation_candidates", "allocation_runs", "audit_log", "canonical_events",
     "circle_members", "contact_log", "counterparty_nodes", "event_type_mappings",
     "experiment_assignments", "experiments", "external_signals", "impact_scores",
     "incentives", "labeled_examples", "narrations", "outcome_events",
     "pipeline_runs", "policy_decisions", "raw_events", "recommendations",
     "relationship_edges", "risk_scores", "transaction_circles", "users"}

Up0001(d) ==
    AddParts(AddParts(Create([d EXCEPT !.roles = @ \cup Roles], Tables0001),
                      "event_type_mappings", {"uq_event_type_mappings"}),
             "incentives", {"uq_incentives_tenant_code"})
Down0001(d) == DropRoles(Drop(d, Tables0001), Roles)

Up0002(d) == AddParts(Create(d, Tables0002), "raw_events", {"uq_raw_events_idempotency"})
Down0002(d) == Drop(d, Tables0002)

Up0003(d) ==
    AddParts(AddParts(Create(d, Tables0003), "users", {"users_pkey"}),
             "relationship_edges", {"uq_relationship_edges"})
Down0003(d) == Drop(d, Tables0003)

Up0004(d) == AddParts(Create(d, Tables0004), "narrations", {"narrations_pkey"})
Down0004(d) == Drop(d, Tables0004)

Up0005(d) ==
    AddParts(AddParts(Create(d, Tables0005),
                      "experiment_assignments", {"experiment_assignments_pkey"}),
             "labeled_examples", {"uq_labeled_examples_dedupe"})
Down0005(d) == Drop(d, Tables0005)

\* The trigger, the grants of the three roles, the policies: in this order.
WorkerTables ==
    Tables0002 \cup Tables0003 \cup {"pipeline_runs", "policy_decisions",
        "allocation_runs", "allocation_candidates", "narrations", "contact_log",
        "experiment_assignments", "outcome_events", "labeled_examples"}
ConsoleTables == Tables0001 \cup Tables0002 \cup Tables0003 \cup Tables0004 \cup Tables0005

GrantReadonly(d) == Grant(d, {"SELECT"}, d.tables, All, Readonly)

\* Mutant: UPDATE on recommendations without the list of columns.
GrantWorkerRows(d) ==
    Grant(Grant(d, SelectInsert, WorkerTables, All, Worker),
          {"UPDATE"}, {"raw_events", "pipeline_runs", "recommendations"}, All, Worker)
GrantWorker(d) ==
    Grant(Grant(Grant(Grant(d,
        SelectInsert, WorkerTables, All, Worker),
        {"UPDATE"}, {"raw_events", "pipeline_runs"}, All, Worker),
        {"INSERT"}, {"recommendations"}, All, Worker),
        {"UPDATE"}, {"recommendations"}, {"status", "delivered_at", "delivery_ref"}, Worker)
GrantConsole(d) ==
    Grant(Grant(Grant(Grant(d,
        {"SELECT"}, ConsoleTables, All, Console),
        {"INSERT"}, {"event_type_mappings", "incentives", "experiments",
                     "pipeline_runs", "audit_log"}, All, Console),
        {"UPDATE"}, {"event_type_mappings", "incentives"}, All, Console),
        {"UPDATE"}, {"recommendations"},
        {"status", "reviewed_by", "reviewed_at", "review_note"}, Console)

Up0006(d) ==
    Isolate(GrantConsole(GrantWorker(GrantReadonly([d EXCEPT !.trigger = TRUE]))), RlsTables)

\* Mutant: the role for reports is forgotten.
RevokeServices(d) == [d EXCEPT !.grants = {g \in @ : g[1] \notin {Worker, Console}}]
RevokeAll(d) == [d EXCEPT !.grants = {g \in @ : g[1] \notin Roles}]

\* Mutant: row-level security stays on.
Down0006Isolated(d) == [RevokeAll(d) EXCEPT !.trigger = FALSE]
Down0006(d) == [RevokeAll(Expose(d, RlsTables)) EXCEPT !.trigger = FALSE]

\* Mutant: the worker still may not read what it has just inserted.
Up0007Nothing(d) == d
Up0007(d) == Grant(d, {"SELECT"}, {"recommendations"}, All, Worker)
Down0007(d) == Revoke(d, {"SELECT"}, {"recommendations"}, All, Worker)

\* Mutant: the new table has the grants and no policy.
Up0008Open(d) ==
    LET created == AddParts(Create(AddParts(d, "incentives",
                                {"changes_credit_terms", "applicable_profile_types"}),
                            {"feature_snapshots"}),
                        "feature_snapshots", {"uq_feature_snapshots_run_user"})
        T == {"feature_snapshots"}
    IN Grant(Grant(Grant(created, {"SELECT"}, T, All, Readonly),
                   SelectInsert, T, All, Worker),
             {"SELECT"}, T, All, Console)
Up0008(d) ==
    LET created == AddParts(Create(AddParts(d, "incentives",
                                {"changes_credit_terms", "applicable_profile_types"}),
                            {"feature_snapshots"}),
                        "feature_snapshots", {"uq_feature_snapshots_run_user"})
        T == {"feature_snapshots"}
    IN Grant(Grant(Grant(Isolate(created, T), {"SELECT"}, T, All, Readonly),
                   SelectInsert, T, All, Worker),
             {"SELECT"}, T, All, Console)
Down0008(d) ==
    DropParts(Drop(d, {"feature_snapshots"}), "incentives",
              {"changes_credit_terms", "applicable_profile_types"})

Up0009(d) == Grant(d, {"SELECT"}, {"tenants", "event_type_mappings", "incentives"}, All, Worker)
Down0009(d) == Revoke(d, {"SELECT"}, {"tenants", "event_type_mappings", "incentives"}, All, Worker)

UserColumns == {"last_event_at", "region_code", "cohort_key"}
Up0010(d) == Grant(d, {"UPDATE"}, {"users"}, UserColumns, Worker)
Down0010(d) == Revoke(d, {"UPDATE"}, {"users"}, UserColumns, Worker)

Up0011(d) == Grant(d, SelectInsert, {"experiments", "audit_log"}, All, Worker)
Down0011(d) == Revoke(d, SelectInsert, {"experiments", "audit_log"}, All, Worker)

Up0012(d) == AddParts(d, "pipeline_runs", {"attempts"})
Down0012(d) == DropParts(d, "pipeline_runs", {"attempts"})

\* upgrade() and downgrade() of the migration with revision number r.
Up(r, d) ==
    CASE r = 1 -> Up0001(d) [] r = 2  -> Up0002(d) [] r = 3  -> Up0003(d) [] r = 4  -> Up0004(d)
      [] r = 5 -> Up0005(d) [] r = 6  -> Up0006(d) [] r = 7  -> Up0007(d) [] r = 8  -> Up0008(d)
      [] r = 9 -> Up0009(d) [] r = 10 -> Up0010(d) [] r = 11 -> Up0011(d) [] r = 12 -> Up0012(d)
Down(r, d) ==
    CASE r = 1 -> Down0001(d) [] r = 2  -> Down0002(d) [] r = 3  -> Down0003(d) [] r = 4  -> Down0004(d)
      [] r = 5 -> Down0005(d) [] r = 6  -> Down0006(d) [] r = 7  -> Down0007(d) [] r = 8  -> Down0008(d)
      [] r = 9 -> Down0009(d) [] r = 10 -> Down0010(d) [] r = 11 -> Down0011(d) [] r = 12 -> Down0012(d)

-----------------------------------------------------------------------------
\* The command: env.py runs all its migrations in one transaction.

Init ==
    /\ db = Blank
    /\ draft = Blank
    /\ goal = NoGoal

Begin(target) ==
    /\ goal = NoGoal
    /\ target # db.rev
    /\ draft' = Versioned(db)
    /\ goal' = target
    /\ UNCHANGED db

Upgrade ==
    /\ goal # NoGoal /\ goal > draft.rev
    /\ ~draft.raised
    /\ draft' = [Up(draft.rev + 1, draft) EXCEPT !.rev = draft.rev + 1]
    /\ UNCHANGED <<db, goal>>

Downgrade ==
    /\ goal < draft.rev
    /\ ~draft.raised
    /\ draft' = [Down(draft.rev, draft) EXCEPT !.rev = draft.rev - 1]
    /\ UNCHANGED <<db, goal>>

Commit ==
    /\ goal = draft.rev
    /\ ~draft.raised
    /\ db' = draft
    /\ draft' = Blank
    /\ goal' = NoGoal

\* A statement raised, a password of 0001 is not set, or the process died.
Abort ==
    /\ goal # NoGoal
    /\ draft' = Blank
    /\ goal' = NoGoal
    /\ UNCHANGED db

Next ==
    \/ \E target \in 0..Head : Begin(target)
    \/ Upgrade
    \/ Downgrade
    \/ Commit
    \/ Abort

Spec == Init /\ [][Next]_vars

-----------------------------------------------------------------------------
\* What upgrades alone make of an empty database.
Built[r \in 0..Head] ==
    IF r = 0 THEN Versioned(Blank) ELSE [Up(r, Built[r - 1]) EXCEPT !.rev = r]

\* Migrations are reversible (migrations/README.md): whatever sequence of
\* upgrades, downgrades and aborted commands led to a revision, the schema is
\* the one that upgrades alone build. A downgrade that forgets a privilege, a
\* policy, a column, a role or the trigger leaves another one.  (It says of db and
\* draft all that a type invariant would.)
Reversible ==
    /\ db \in {Blank, Built[db.rev]}
    /\ goal # NoGoal => draft = Built[draft.rev]

\* No migration asks for what PostgreSQL refuses in the schema it is applied to:
\* a table that is there already or is not there, a privilege of a role that does
\* not exist, a role dropped while it holds a privilege. A command that meets one
\* can never be carried out.
NeverRaises == ~draft.raised

\* From 0006 on every table with a tenant_id is under row-level security; tenants
\* and api_keys are read before the tenant is known, alembic_version is nobody's.
TenantTablesIsolated(d) == d.isolated = d.tables \ {"tenants", "api_keys", "alembic_version"}

ReadonlyReadsAll(d) == \A t \in d.tables : <<Readonly, "SELECT", t, "*">> \in d.grants

\* The policies and GRANT ... ON ALL TABLES of 0006 are about the tables of that
\* moment: a table of a later migration needs its own, or the rows of all tenants
\* are open to each of them, or a report misses it.
LaterTablesCovered ==
    db.rev >= 6 => TenantTablesIsolated(db) /\ ReadonlyReadsAll(db)

=============================================================================
