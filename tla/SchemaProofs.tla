---------------------------- MODULE SchemaProofs ----------------------------
(***************************************************************************)
(* Why the migrations can be undone, why none of them ever raises, and why *)
(* the services find at the last revision what they need.                  *)
(*                                                                         *)
(* SchemaOf(r) writes the schema of revision r down in closed form: what   *)
(* every migration up to r has added, and nothing refused. upgrade() takes *)
(* SchemaOf(r - 1) to SchemaOf(r) and downgrade() takes it back (ClimbStep *)
(* and DescendStep, one step per migration); so these are the only schemas *)
(* a command ever sees, and the properties are read off the closed form.   *)
(***************************************************************************)
EXTENDS Access, TLAPS

\* A schema in which no statement was refused.
Clean(rev, tables, parts, grants, isolated, trigger, roles) ==
    [rev |-> rev, tables |-> tables, parts |-> parts, grants |-> grants,
     isolated |-> isolated, trigger |-> trigger, roles |-> roles, raised |-> FALSE]

TablesOf(r) ==
    {"alembic_version"}
        \cup (IF r >= 1 THEN Tables0001 ELSE {})
        \cup (IF r >= 2 THEN Tables0002 ELSE {})
        \cup (IF r >= 3 THEN Tables0003 ELSE {})
        \cup (IF r >= 4 THEN Tables0004 ELSE {})
        \cup (IF r >= 5 THEN Tables0005 ELSE {})
        \cup (IF r >= 8 THEN {"feature_snapshots"} ELSE {})

Parts0001 == ({"event_type_mappings"} \X {"uq_event_type_mappings"})
                \cup ({"incentives"} \X {"uq_incentives_tenant_code"})
Parts0002 == {"raw_events"} \X {"uq_raw_events_idempotency"}
Parts0003 == ({"users"} \X {"users_pkey"})
          \cup ({"relationship_edges"} \X {"uq_relationship_edges"})
Parts0004 == {"narrations"} \X {"narrations_pkey"}
Parts0005 == ({"experiment_assignments"} \X {"experiment_assignments_pkey"})
                \cup ({"labeled_examples"} \X {"uq_labeled_examples_dedupe"})
Incentives0008 == {"incentives"} \X {"changes_credit_terms", "applicable_profile_types"}
Snapshots0008 == {"feature_snapshots"} \X {"uq_feature_snapshots_run_user"}
Parts0012 == {"pipeline_runs"} \X {"attempts"}

PartsOf(r) ==
    (IF r >= 1 THEN Parts0001 ELSE {})
        \cup (IF r >= 2 THEN Parts0002 ELSE {})
        \cup (IF r >= 3 THEN Parts0003 ELSE {})
        \cup (IF r >= 4 THEN Parts0004 ELSE {})
        \cup (IF r >= 5 THEN Parts0005 ELSE {})
        \cup (IF r >= 8 THEN Incentives0008 \cup Snapshots0008 ELSE {})
        \cup (IF r >= 12 THEN Parts0012 ELSE {})

\* The privileges that one GRANT gives.
Cells(role, privileges, T, columns) == {role} \X privileges \X T \X columns

Readonly0006 == Cells(Readonly, {"SELECT"}, TablesOf(5), All)
Worker0006 ==
    UNION {Cells(Worker, SelectInsert, WorkerTables, All),
           Cells(Worker, {"UPDATE"}, {"raw_events", "pipeline_runs"}, All),
           Cells(Worker, {"INSERT"}, {"recommendations"}, All),
           Cells(Worker, {"UPDATE"}, {"recommendations"}, {"status", "delivered_at",
                 "delivery_ref"})}
Console0006 ==
    UNION {Cells(Console, {"SELECT"}, ConsoleTables, All),
           Cells(Console, {"INSERT"}, {"event_type_mappings", "incentives", "experiments",
                                       "pipeline_runs", "audit_log"}, All),
           Cells(Console, {"UPDATE"}, {"event_type_mappings", "incentives"}, All),
           Cells(Console, {"UPDATE"}, {"recommendations"},
                 {"status", "reviewed_by", "reviewed_at", "review_note"})}
Worker0007 == Cells(Worker, {"SELECT"}, {"recommendations"}, All)
Grants0008 ==
    UNION {Cells(Readonly, {"SELECT"}, {"feature_snapshots"}, All),
           Cells(Worker, SelectInsert, {"feature_snapshots"}, All),
           Cells(Console, {"SELECT"}, {"feature_snapshots"}, All)}
Worker0009 == Cells(Worker, {"SELECT"}, {"tenants", "event_type_mappings", "incentives"}, All)
Worker0010 == Cells(Worker, {"UPDATE"}, {"users"}, UserColumns)
Worker0011 == Cells(Worker, SelectInsert, {"experiments", "audit_log"}, All)

GrantsOf(r) ==
    (IF r >= 6 THEN Readonly0006 \cup Worker0006 \cup Console0006 ELSE {})
        \cup (IF r >= 7 THEN Worker0007 ELSE {})
        \cup (IF r >= 8 THEN Grants0008 ELSE {})
        \cup (IF r >= 9 THEN Worker0009 ELSE {})
        \cup (IF r >= 10 THEN Worker0010 ELSE {})
        \cup (IF r >= 11 THEN Worker0011 ELSE {})

IsolatedOf(r) ==
    (IF r >= 6 THEN RlsTables ELSE {}) \cup (IF r >= 8 THEN {"feature_snapshots"} ELSE {})

\* Whether the transition trigger is there.
Armed == TRUE
Unarmed == FALSE
TriggerOf(r) == IF r >= 6 THEN Armed ELSE Unarmed

RolesOf(r) == IF r >= 1 THEN Roles ELSE {}

SchemaOf(r) ==
    Clean(r, TablesOf(r), PartsOf(r), GrantsOf(r), IsolatedOf(r), TriggerOf(r), RolesOf(r))

-----------------------------------------------------------------------------
(***************************************************************************)
(* The statements on a clean schema: what each of them makes of it, and    *)
(* the condition under which PostgreSQL does not refuse it.                *)
(***************************************************************************)

\* A record with these eight fields and no other is that clean schema.
Exactly(n, t, p, g, i, w, ro) ==
    [rev : {n}, tables : {t}, parts : {p}, grants : {g}, isolated : {i}, trigger : {w},
     roles : {ro}, raised : {FALSE}]

LEMMA Same ==
    ASSUME NEW n, NEW t, NEW p, NEW g, NEW i, NEW w, NEW ro,
           NEW e \in Exactly(n, t, p, g, i, w, ro)
    PROVE  e = Clean(n, t, p, g, i, w, ro)
    BY DEF Exactly, Clean

LEMMA CreateMakes ==
    ASSUME NEW n, NEW t, NEW p, NEW g, NEW i, NEW w, NEW ro, NEW T, T \cap t = {}
    PROVE  Create(Clean(n, t, p, g, i, w, ro), T) = Clean(n, t \cup T, p, g, i, w, ro)
<1>1. Create(Clean(n, t, p, g, i, w, ro), T)
        \in Exactly(n, t \cup T, p, g, i, w, ro)
    BY DEF Create, Clean, Exactly
<1>2. QED
    BY <1>1, Same

LEMMA AddPartsMakes ==
    ASSUME NEW n, NEW t, NEW p, NEW g, NEW i, NEW w, NEW ro, NEW u, NEW P,
           u \in t, ({u} \X P) \cap p = {}
    PROVE  AddParts(Clean(n, t, p, g, i, w, ro), u, P)
             = Clean(n, t, p \cup ({u} \X P), g, i, w, ro)
<1>1. AddParts(Clean(n, t, p, g, i, w, ro), u, P)
        \in Exactly(n, t, p \cup ({u} \X P), g, i, w, ro)
    BY DEF AddParts, Clean, Exactly
<1>2. QED
    BY <1>1, Same

LEMMA DropPartsMakes ==
    ASSUME NEW n, NEW t, NEW p, NEW g, NEW i, NEW w, NEW ro, NEW u, NEW P, ({u} \X P) \subseteq p
    PROVE  DropParts(Clean(n, t, p, g, i, w, ro), u, P)
             = Clean(n, t, p \ ({u} \X P), g, i, w, ro)
<1>1. DropParts(Clean(n, t, p, g, i, w, ro), u, P)
        \in Exactly(n, t, p \ ({u} \X P), g, i, w, ro)
    BY DEF DropParts, Clean, Exactly
<1>2. QED
    BY <1>1, Same

\* DROP TABLE ... CASCADE leaves the parts, privileges and policies of other tables.
LEMMA DropMakes ==
    ASSUME NEW n, NEW t, NEW p, NEW g, NEW i, NEW w \in BOOLEAN, NEW ro, NEW T, NEW q, NEW h,
           \A x : x \in q <=> x \in p /\ x[1] \notin T,
           \A x : x \in h <=> x \in g /\ x[3] \notin T,
           "recommendations" \in T => ~w
    PROVE  Drop(Clean(n, t, p, g, i, w, ro), T) = Clean(n, t \ T, q, h, i \ T, w, ro)
<1>1. {x \in p : x[1] \notin T} = q /\ {x \in g : x[3] \notin T} = h
    OBVIOUS
<1>2. (w /\ "recommendations" \notin T) = w
    OBVIOUS
<1>3. Drop(Clean(n, t, p, g, i, w, ro), T) \in Exactly(n, t \ T, q, h, i \ T, w, ro)
    BY <1>1, <1>2 DEF Drop, Clean, Exactly
<1>4. QED
    BY <1>3, Same

LEMMA GrantMakes ==
    ASSUME NEW n, NEW t, NEW p, NEW g, NEW i, NEW w, NEW ro,
           NEW P, NEW T, NEW C, NEW role, T \subseteq t, role \in ro,
           NEW h, h = g \cup Cells(role, P, T, C)
    PROVE  Grant(Clean(n, t, p, g, i, w, ro), P, T, C, role) = Clean(n, t, p, h, i, w, ro)
<1>1. Grant(Clean(n, t, p, g, i, w, ro), P, T, C, role) \in Exactly(n, t, p, h, i, w, ro)
    BY DEF Grant, Clean, Exactly, Cells
<1>2. QED
    BY <1>1, Same

Hit(x, P, T, C, role) ==
    /\ x[1] = role
    /\ x[2] \in P
    /\ x[3] \in T
    /\ "*" \in C \/ x[4] \in C

\* REVOKE undoes the GRANT of the same privileges when that gave nothing that was
\* there before: what else stays, the same statement would have taken out too.
LEMMA RevokeUndoesGrant ==
    ASSUME NEW n, NEW t, NEW p, NEW g, NEW i, NEW w, NEW ro,
           NEW P, NEW T, NEW C, NEW role, T \subseteq t, role \in ro,
           \A x \in g : ~Hit(x, P, T, C, role)
    PROVE  Revoke(Clean(n, t, p, g \cup Cells(role, P, T, C), i, w, ro), P, T, C, role)
             = Clean(n, t, p, g, i, w, ro)
<1>1. {x \in g \cup Cells(role, P, T, C) : ~Hit(x, P, T, C, role)} = g
    BY DEF Hit, Cells
<1>2. Revoke(Clean(n, t, p, g \cup Cells(role, P, T, C), i, w, ro), P, T, C, role)
        \in Exactly(n, t, p, g, i, w, ro)
    BY <1>1 DEF Revoke, Clean, Hit, Exactly
<1>3. QED
    BY <1>2, Same

LEMMA IsolateMakes ==
    ASSUME NEW n, NEW t, NEW p, NEW g, NEW i, NEW w, NEW ro, NEW T, T \subseteq t
    PROVE  Isolate(Clean(n, t, p, g, i, w, ro), T) = Clean(n, t, p, g, i \cup T, w, ro)
<1>1. Isolate(Clean(n, t, p, g, i, w, ro), T)
        \in Exactly(n, t, p, g, i \cup T, w, ro)
    BY DEF Isolate, Clean, Exactly
<1>2. QED
    BY <1>1, Same

LEMMA ExposeMakes ==
    ASSUME NEW n, NEW t, NEW p, NEW g, NEW i, NEW w, NEW ro, NEW T
    PROVE  Expose(Clean(n, t, p, g, i, w, ro), T) = Clean(n, t, p, g, i \ T, w, ro)
<1>1. Expose(Clean(n, t, p, g, i, w, ro), T)
        \in Exactly(n, t, p, g, i \ T, w, ro)
    BY DEF Expose, Clean, Exactly
<1>2. QED
    BY <1>1, Same

LEMMA CreateRolesMakes ==
    ASSUME NEW n, NEW t, NEW p, NEW g, NEW i, NEW w, NEW R
    PROVE  [Clean(n, t, p, g, i, w, {}) EXCEPT !.roles = @ \cup R]
             = Clean(n, t, p, g, i, w, R)
<1>1. [Clean(n, t, p, g, i, w, {}) EXCEPT !.roles = @ \cup R]
        \in Exactly(n, t, p, g, i, w, R)
    BY DEF Clean, Exactly
<1>2. QED
    BY <1>1, Same

LEMMA DropRolesMakes ==
    ASSUME NEW n, NEW t, NEW p, NEW g, NEW i, NEW w, NEW ro, NEW R,
           \A x \in g : x[1] \notin R
    PROVE  DropRoles(Clean(n, t, p, g, i, w, ro), R) = Clean(n, t, p, g, i, w, ro \ R)
<1>1. DropRoles(Clean(n, t, p, g, i, w, ro), R)
        \in Exactly(n, t, p, g, i, w, ro \ R)
    BY DEF DropRoles, Clean, Exactly
<1>2. QED
    BY <1>1, Same

LEMMA TriggerMakes ==
    ASSUME NEW n, NEW t, NEW p, NEW g, NEW i, NEW w, NEW ro, NEW v
    PROVE  [Clean(n, t, p, g, i, w, ro) EXCEPT !.trigger = v] = Clean(n, t, p, g, i, v, ro)
<1>1. [Clean(n, t, p, g, i, w, ro) EXCEPT !.trigger = v] \in Exactly(n, t, p, g, i, v, ro)
    BY DEF Clean, Exactly
<1>2. QED
    BY <1>1, Same

LEMMA RevokeAllMakes ==
    ASSUME NEW n, NEW t, NEW p, NEW g, NEW i, NEW w, NEW ro, \A x \in g : x[1] \in Roles
    PROVE  RevokeAll(Clean(n, t, p, g, i, w, ro)) = Clean(n, t, p, {}, i, w, ro)
<1>1. {x \in g : x[1] \notin Roles} = {}
    OBVIOUS
<1>2. RevokeAll(Clean(n, t, p, g, i, w, ro)) \in Exactly(n, t, p, {}, i, w, ro)
    BY <1>1 DEF RevokeAll, Clean, Exactly
<1>3. QED
    BY <1>2, Same

LEMMA Numbered ==
    ASSUME NEW n, NEW t, NEW p, NEW g, NEW i, NEW w, NEW ro, NEW m
    PROVE  [Clean(n, t, p, g, i, w, ro) EXCEPT !.rev = m] = Clean(m, t, p, g, i, w, ro)
<1>1. [Clean(n, t, p, g, i, w, ro) EXCEPT !.rev = m]
        \in Exactly(m, t, p, g, i, w, ro)
    BY DEF Clean, Exactly
<1>2. QED
    BY <1>1, Same


-----------------------------------------------------------------------------
(***************************************************************************)
(* From one revision to the next in closed form.                           *)
(***************************************************************************)

\* A migration that creates tables names none that is there already.
LEMMA TablesFresh ==
    /\ Tables0001 \cap TablesOf(0) = {}
    /\ Tables0002 \cap TablesOf(1) = {}
    /\ Tables0003 \cap TablesOf(2) = {}
    /\ Tables0004 \cap TablesOf(3) = {}
    /\ Tables0005 \cap TablesOf(4) = {}
    /\ {"feature_snapshots"} \cap TablesOf(7) = {}
    BY DEF TablesOf, Tables0001, Tables0002, Tables0003, Tables0004, Tables0005

LEMMA TablesGrow ==
    /\ TablesOf(0) = {"alembic_version"}
    /\ TablesOf(1) = TablesOf(0) \cup Tables0001
    /\ TablesOf(2) = TablesOf(1) \cup Tables0002
    /\ TablesOf(3) = TablesOf(2) \cup Tables0003
    /\ TablesOf(4) = TablesOf(3) \cup Tables0004
    /\ TablesOf(5) = TablesOf(4) \cup Tables0005
    /\ TablesOf(6) = TablesOf(5)
    /\ TablesOf(7) = TablesOf(6)
    /\ TablesOf(8) = TablesOf(7) \cup {"feature_snapshots"}
    /\ TablesOf(9) = TablesOf(8)
    /\ TablesOf(10) = TablesOf(9)
    /\ TablesOf(11) = TablesOf(10)
    /\ TablesOf(12) = TablesOf(11)
    BY DEF TablesOf

LEMMA PartsGrow ==
    /\ PartsOf(0) = {}
    /\ PartsOf(1) = PartsOf(0) \cup Parts0001
    /\ PartsOf(2) = PartsOf(1) \cup Parts0002
    /\ PartsOf(3) = PartsOf(2) \cup Parts0003
    /\ PartsOf(4) = PartsOf(3) \cup Parts0004
    /\ PartsOf(5) = PartsOf(4) \cup Parts0005
    /\ PartsOf(6) = PartsOf(5)
    /\ PartsOf(7) = PartsOf(6)
    /\ PartsOf(8) = PartsOf(7) \cup (Incentives0008 \cup Snapshots0008)
    /\ PartsOf(9) = PartsOf(8)
    /\ PartsOf(10) = PartsOf(9)
    /\ PartsOf(11) = PartsOf(10)
    /\ PartsOf(12) = PartsOf(11) \cup Parts0012
    BY DEF PartsOf

LEMMA GrantsGrow ==
    /\ \A r \in 0..5 : GrantsOf(r) = {}
    /\ GrantsOf(6) = Readonly0006 \cup Worker0006 \cup Console0006
    /\ GrantsOf(7) = GrantsOf(6) \cup Worker0007
    /\ GrantsOf(8) = GrantsOf(7) \cup Grants0008
    /\ GrantsOf(9) = GrantsOf(8) \cup Worker0009
    /\ GrantsOf(10) = GrantsOf(9) \cup Worker0010
    /\ GrantsOf(11) = GrantsOf(10) \cup Worker0011
    /\ GrantsOf(12) = GrantsOf(11)
    BY DEF GrantsOf

LEMMA IsolationGrows ==
    /\ \A r \in 0..5 : IsolatedOf(r) = {}
    /\ IsolatedOf(6) = RlsTables
    /\ IsolatedOf(7) = IsolatedOf(6)
    /\ IsolatedOf(8) = IsolatedOf(7) \cup {"feature_snapshots"}
    /\ IsolatedOf(9) = IsolatedOf(8)
    /\ IsolatedOf(10) = IsolatedOf(9)
    /\ IsolatedOf(11) = IsolatedOf(10)
    /\ IsolatedOf(12) = IsolatedOf(11)
    BY DEF IsolatedOf

\* What 0006 names is there when it names it.
LEMMA NamedTablesExist ==
    /\ WorkerTables \subseteq TablesOf(5)
    /\ ConsoleTables \subseteq TablesOf(5)
    /\ RlsTables \subseteq TablesOf(5)
    /\ {"raw_events", "pipeline_runs", "recommendations", "event_type_mappings", "incentives",
        "experiments", "audit_log", "tenants", "users"} \subseteq TablesOf(5)
    BY DEF TablesOf, WorkerTables, ConsoleTables, RlsTables, Tables0001, Tables0002, Tables0003,
           Tables0004, Tables0005

\* Every part, privilege and policy hangs on a table of its revision.
LEMMA PartsHang ==
    ASSUME NEW r \in 0..Head, NEW x \in PartsOf(r)
    PROVE  x[1] \in TablesOf(r)
    BY DEF Head, PartsOf, TablesOf, Tables0001, Tables0002, Tables0003, Tables0004, Tables0005,
           Parts0001, Parts0002, Parts0003, Parts0004, Parts0005, Incentives0008, Snapshots0008,
           Parts0012

LEMMA GrantsHang ==
    ASSUME NEW x \in GrantsOf(7)
    PROVE  x[3] \in TablesOf(7)
<1>1. x \in Readonly0006 \cup Worker0006 \cup Console0006 \cup Worker0007
    BY GrantsGrow
<1>2. TablesOf(7) = TablesOf(5)
    BY TablesGrow
<1>3. QED
    BY <1>1, <1>2, NamedTablesExist DEF Readonly0006, Worker0006, Console0006, Worker0007, Cells

-----------------------------------------------------------------------------
(***************************************************************************)
(* Every migration, up and down.                                           *)
(***************************************************************************)

LEMMA EmptySchema == SchemaOf(0) = Clean(0, TablesOf(0), {}, {}, {}, Unarmed, {})
<1>1. /\ PartsOf(0) = {}
      /\ GrantsOf(0) = {}
      /\ IsolatedOf(0) = {}
      /\ TriggerOf(0) = Unarmed
      /\ RolesOf(0) = {}
    BY PartsGrow, GrantsGrow, IsolationGrows DEF TriggerOf, RolesOf
<1>2. QED
    BY <1>1 DEF SchemaOf


LEMMA EarlySchema ==
    ASSUME NEW r \in 1..5
    PROVE  SchemaOf(r) = Clean(r, TablesOf(r), PartsOf(r), {}, {}, Unarmed, Roles)
    BY GrantsGrow, IsolationGrows DEF SchemaOf, TriggerOf, RolesOf

LEMMA LateSchema ==
    ASSUME NEW r \in 6..12
    PROVE  SchemaOf(r) = Clean(r, TablesOf(r), PartsOf(r), GrantsOf(r), IsolatedOf(r), Armed, Roles)
    BY DEF SchemaOf, TriggerOf, RolesOf

\* An upgrade reaches the revision's schema, its downgrade the one before.
Climbs(r) == [Up(r, SchemaOf(r - 1)) EXCEPT !.rev = r] = SchemaOf(r)
Descends(r) == [Down(r, SchemaOf(r)) EXCEPT !.rev = r - 1] = SchemaOf(r - 1)

\* A downgrade that drops the tables of its migration, up to 0005.
LEMMA CreateUndone ==
    ASSUME NEW r \in 1..5, NEW q, NEW T,
           TablesOf(q) = TablesOf(r) \ T,
           \A x : x \in PartsOf(q) <=> x \in PartsOf(r) /\ x[1] \notin T
    PROVE  Drop(SchemaOf(r), T) = Clean(r, TablesOf(q), PartsOf(q), {}, {}, Unarmed, Roles)
<1>1. SchemaOf(r) = Clean(r, TablesOf(r), PartsOf(r), {}, {}, Unarmed, Roles)
    BY EarlySchema
<1>2. {} \ T = {}
    OBVIOUS
<1>3. \A x : x \in {} <=> x \in {} /\ x[3] \notin T
    OBVIOUS
<1>4. Unarmed \in BOOLEAN /\ ("recommendations" \in T => ~Unarmed)
    BY DEF Unarmed
<1>5. Drop(Clean(r, TablesOf(r), PartsOf(r), {}, {}, Unarmed, Roles), T)
        = Clean(r, TablesOf(r) \ T, PartsOf(q), {}, {} \ T, Unarmed, Roles)
    BY <1>3, <1>4, DropMakes
<1>6. QED
    BY <1>1, <1>2, <1>5

LEMMA Climb1 == Climbs(1)
<1>1. [SchemaOf(0) EXCEPT !.roles = @ \cup Roles]
        = Clean(0, TablesOf(0), {}, {}, {}, Unarmed, Roles)
    BY EmptySchema, CreateRolesMakes
<1>2. Create(Clean(0, TablesOf(0), {}, {}, {}, Unarmed, Roles), Tables0001)
        = Clean(0, TablesOf(1), {}, {}, {}, Unarmed, Roles)
    BY TablesFresh, TablesGrow, CreateMakes
<1>3. AddParts(Clean(0, TablesOf(1), {}, {}, {}, Unarmed, Roles),
               "event_type_mappings", {"uq_event_type_mappings"})
        = Clean(0, TablesOf(1), {"event_type_mappings"} \X {"uq_event_type_mappings"},
                {}, {}, Unarmed, Roles)
    <2>1. "event_type_mappings" \in TablesOf(1)
        BY TablesGrow DEF Tables0001
    <2>2. QED
        BY <2>1, AddPartsMakes
<1>4. AddParts(Clean(0, TablesOf(1), {"event_type_mappings"} \X {"uq_event_type_mappings"},
                     {}, {}, Unarmed, Roles),
               "incentives", {"uq_incentives_tenant_code"})
        = Clean(0, TablesOf(1), PartsOf(1), {}, {}, Unarmed, Roles)
    <2>1. "incentives" \in TablesOf(1)
        BY TablesGrow DEF Tables0001
    <2>2. PartsOf(1) = ({"event_type_mappings"} \X {"uq_event_type_mappings"})
                         \cup ({"incentives"} \X {"uq_incentives_tenant_code"})
        BY PartsGrow DEF Parts0001
    <2>3. ({"incentives"} \X {"uq_incentives_tenant_code"})
            \cap ({"event_type_mappings"} \X {"uq_event_type_mappings"}) = {}
        OBVIOUS
    <2>4. QED
        BY <2>1, <2>2, <2>3, AddPartsMakes
<1>5. Up(1, SchemaOf(0)) = Clean(0, TablesOf(1), PartsOf(1), {}, {}, Unarmed, Roles)
    BY <1>1, <1>2, <1>3, <1>4 DEF Up, Up0001
<1>6. QED
    BY <1>5, Numbered, EarlySchema DEF Climbs

LEMMA Descend1 == Descends(1)
<1>1. Drop(SchemaOf(1), Tables0001) = Clean(1, TablesOf(0), {}, {}, {}, Unarmed, Roles)
    <2>1. \A x \in Parts0001 : x[1] \in Tables0001
        BY DEF Parts0001, Tables0001
    <2>2. \A x : x \in PartsOf(0) <=> x \in PartsOf(1) /\ x[1] \notin Tables0001
        BY <2>1, PartsGrow
    <2>3. TablesOf(0) = TablesOf(1) \ Tables0001
        BY TablesGrow, TablesFresh
    <2>4. Drop(SchemaOf(1), Tables0001)
            = Clean(1, TablesOf(0), PartsOf(0), {}, {}, Unarmed, Roles)
        BY <2>2, <2>3, CreateUndone
    <2>5. QED
        BY <2>4, PartsGrow
<1>2. DropRoles(Clean(1, TablesOf(0), {}, {}, {}, Unarmed, Roles), Roles)
        = Clean(1, TablesOf(0), {}, {}, {}, Unarmed, {})
    BY DropRolesMakes
<1>3. Down(1, SchemaOf(1)) = Clean(1, TablesOf(0), {}, {}, {}, Unarmed, {})
    BY <1>1, <1>2 DEF Down, Down0001
<1>4. QED
    BY <1>3, Numbered, EmptySchema DEF Descends

LEMMA CreateNext ==
    ASSUME NEW q \in 1..4, NEW r, NEW T, TablesOf(r) = TablesOf(q) \cup T,
           T \cap TablesOf(q) = {}
    PROVE  Create(SchemaOf(q), T) = Clean(q, TablesOf(r), PartsOf(q), {}, {}, Unarmed, Roles)
<1>1. SchemaOf(q) = Clean(q, TablesOf(q), PartsOf(q), {}, {}, Unarmed, Roles)
    BY EarlySchema
<1>2. QED
    BY <1>1, CreateMakes

LEMMA Climb2 == Climbs(2)
<1>1. Create(SchemaOf(1), Tables0002)
        = Clean(1, TablesOf(2), PartsOf(1), {}, {}, Unarmed, Roles)
    BY TablesGrow, TablesFresh, CreateNext
<1>2. "raw_events" \in TablesOf(2) /\ "raw_events" \notin TablesOf(1)
    BY TablesGrow, TablesFresh DEF Tables0002
<1>3. \A x \in PartsOf(1) : x[1] \in TablesOf(1)
    BY PartsHang DEF Head
<1>4. AddParts(Clean(1, TablesOf(2), PartsOf(1), {}, {}, Unarmed, Roles),
               "raw_events", {"uq_raw_events_idempotency"})
        = Clean(1, TablesOf(2), PartsOf(2), {}, {}, Unarmed, Roles)
    <2>1. ({"raw_events"} \X {"uq_raw_events_idempotency"}) \cap PartsOf(1) = {}
        BY <1>2, <1>3
    <2>2. PartsOf(2) = PartsOf(1) \cup ({"raw_events"} \X {"uq_raw_events_idempotency"})
        BY PartsGrow DEF Parts0002
    <2>3. QED
        BY <2>1, <2>2, <1>2, AddPartsMakes
<1>5. Up(2, SchemaOf(1)) = Clean(1, TablesOf(2), PartsOf(2), {}, {}, Unarmed, Roles)
    BY <1>1, <1>4 DEF Up, Up0002
<1>6. QED
    BY <1>5, Numbered, EarlySchema DEF Climbs

LEMMA Descend2 == Descends(2)
<1>1. \A x \in Parts0002 : x[1] \in Tables0002
    BY DEF Parts0002, Tables0002
<1>2. TablesOf(1) = TablesOf(2) \ Tables0002 /\ Tables0002 \cap TablesOf(1) = {}
    BY TablesGrow, TablesFresh
<1>3. \A x \in PartsOf(1) : x[1] \in TablesOf(1)
    BY PartsHang DEF Head
<1>4. \A x : x \in PartsOf(1) <=> x \in PartsOf(2) /\ x[1] \notin Tables0002
    BY <1>1, <1>2, <1>3, PartsGrow
<1>5. Drop(SchemaOf(2), Tables0002)
        = Clean(2, TablesOf(1), PartsOf(1), {}, {}, Unarmed, Roles)
    BY <1>2, <1>4, CreateUndone
<1>6. Down(2, SchemaOf(2)) = Drop(SchemaOf(2), Tables0002)
    BY DEF Down, Down0002
<1>7. QED
    BY <1>5, <1>6, Numbered, EarlySchema DEF Descends

LEMMA Climb3 == Climbs(3)
<1>. DEFINE first == {"users"} \X {"users_pkey"}
            second == {"relationship_edges"} \X {"uq_relationship_edges"}
<1>1. Create(SchemaOf(2), Tables0003)
        = Clean(2, TablesOf(3), PartsOf(2), {}, {}, Unarmed, Roles)
    BY TablesGrow, TablesFresh, CreateNext
<1>2. /\ "users" \in TablesOf(3) /\ "users" \notin TablesOf(2)
      /\ "relationship_edges" \in TablesOf(3) /\ "relationship_edges" \notin TablesOf(2)
    BY TablesGrow, TablesFresh DEF Tables0003
<1>3. \A x \in PartsOf(2) : x[1] \in TablesOf(2)
    BY PartsHang DEF Head
<1>4. AddParts(Clean(2, TablesOf(3), PartsOf(2), {}, {}, Unarmed, Roles),
               "users", {"users_pkey"})
        = Clean(2, TablesOf(3), PartsOf(2) \cup first, {}, {}, Unarmed, Roles)
    <2>1. first \cap PartsOf(2) = {}
        BY <1>2, <1>3
    <2>2. QED
        BY <2>1, <1>2, AddPartsMakes
<1>5. AddParts(Clean(2, TablesOf(3), PartsOf(2) \cup first, {}, {}, Unarmed, Roles),
               "relationship_edges", {"uq_relationship_edges"})
        = Clean(2, TablesOf(3), PartsOf(3), {}, {}, Unarmed, Roles)
    <2>1. second \cap PartsOf(2) = {}
        BY <1>2, <1>3
    <2>2. second \cap first = {}
        OBVIOUS
    <2>3. second \cap (PartsOf(2) \cup first) = {}
        BY <2>1, <2>2
    <2>4. PartsOf(3) = PartsOf(2) \cup first \cup second
        BY PartsGrow DEF Parts0003
    <2>5. QED
        BY <2>1, <2>2, <2>3, <2>4, <1>2, AddPartsMakes
<1>6. Up(3, SchemaOf(2)) = Clean(2, TablesOf(3), PartsOf(3), {}, {}, Unarmed, Roles)
    BY <1>1, <1>4, <1>5 DEF Up, Up0003
<1>7. QED
    BY <1>6, Numbered, EarlySchema DEF Climbs

LEMMA Descend3 == Descends(3)
<1>1. \A x \in Parts0003 : x[1] \in Tables0003
    BY DEF Parts0003, Tables0003
<1>2. TablesOf(2) = TablesOf(3) \ Tables0003 /\ Tables0003 \cap TablesOf(2) = {}
    BY TablesGrow, TablesFresh
<1>3. \A x \in PartsOf(2) : x[1] \in TablesOf(2)
    BY PartsHang DEF Head
<1>4. \A x : x \in PartsOf(2) <=> x \in PartsOf(3) /\ x[1] \notin Tables0003
    BY <1>1, <1>2, <1>3, PartsGrow
<1>5. Drop(SchemaOf(3), Tables0003)
        = Clean(3, TablesOf(2), PartsOf(2), {}, {}, Unarmed, Roles)
    BY <1>2, <1>4, CreateUndone
<1>6. Down(3, SchemaOf(3)) = Drop(SchemaOf(3), Tables0003)
    BY DEF Down, Down0003
<1>7. QED
    BY <1>5, <1>6, Numbered, EarlySchema DEF Descends

LEMMA Climb4 == Climbs(4)
<1>1. Create(SchemaOf(3), Tables0004)
        = Clean(3, TablesOf(4), PartsOf(3), {}, {}, Unarmed, Roles)
    BY TablesGrow, TablesFresh, CreateNext
<1>2. "narrations" \in TablesOf(4) /\ "narrations" \notin TablesOf(3)
    BY TablesGrow, TablesFresh DEF Tables0004
<1>3. \A x \in PartsOf(3) : x[1] \in TablesOf(3)
    BY PartsHang DEF Head
<1>4. AddParts(Clean(3, TablesOf(4), PartsOf(3), {}, {}, Unarmed, Roles),
               "narrations", {"narrations_pkey"})
        = Clean(3, TablesOf(4), PartsOf(4), {}, {}, Unarmed, Roles)
    <2>1. ({"narrations"} \X {"narrations_pkey"}) \cap PartsOf(3) = {}
        BY <1>2, <1>3
    <2>2. PartsOf(4) = PartsOf(3) \cup ({"narrations"} \X {"narrations_pkey"})
        BY PartsGrow DEF Parts0004
    <2>3. QED
        BY <2>1, <2>2, <1>2, AddPartsMakes
<1>5. Up(4, SchemaOf(3)) = Clean(3, TablesOf(4), PartsOf(4), {}, {}, Unarmed, Roles)
    BY <1>1, <1>4 DEF Up, Up0004
<1>6. QED
    BY <1>5, Numbered, EarlySchema DEF Climbs

LEMMA Descend4 == Descends(4)
<1>1. \A x \in Parts0004 : x[1] \in Tables0004
    BY DEF Parts0004, Tables0004
<1>2. TablesOf(3) = TablesOf(4) \ Tables0004 /\ Tables0004 \cap TablesOf(3) = {}
    BY TablesGrow, TablesFresh
<1>3. \A x \in PartsOf(3) : x[1] \in TablesOf(3)
    BY PartsHang DEF Head
<1>4. \A x : x \in PartsOf(3) <=> x \in PartsOf(4) /\ x[1] \notin Tables0004
    BY <1>1, <1>2, <1>3, PartsGrow
<1>5. Drop(SchemaOf(4), Tables0004)
        = Clean(4, TablesOf(3), PartsOf(3), {}, {}, Unarmed, Roles)
    BY <1>2, <1>4, CreateUndone
<1>6. Down(4, SchemaOf(4)) = Drop(SchemaOf(4), Tables0004)
    BY DEF Down, Down0004
<1>7. QED
    BY <1>5, <1>6, Numbered, EarlySchema DEF Descends

LEMMA Climb5 == Climbs(5)
<1>. DEFINE first == {"experiment_assignments"} \X {"experiment_assignments_pkey"}
            second == {"labeled_examples"} \X {"uq_labeled_examples_dedupe"}
<1>1. Create(SchemaOf(4), Tables0005)
        = Clean(4, TablesOf(5), PartsOf(4), {}, {}, Unarmed, Roles)
    BY TablesGrow, TablesFresh, CreateNext
<1>2. /\ "experiment_assignments" \in TablesOf(5) /\ "experiment_assignments" \notin TablesOf(4)
      /\ "labeled_examples" \in TablesOf(5) /\ "labeled_examples" \notin TablesOf(4)
    BY TablesGrow, TablesFresh DEF Tables0005
<1>3. \A x \in PartsOf(4) : x[1] \in TablesOf(4)
    BY PartsHang DEF Head
<1>4. AddParts(Clean(4, TablesOf(5), PartsOf(4), {}, {}, Unarmed, Roles),
               "experiment_assignments", {"experiment_assignments_pkey"})
        = Clean(4, TablesOf(5), PartsOf(4) \cup first, {}, {}, Unarmed, Roles)
    <2>1. first \cap PartsOf(4) = {}
        BY <1>2, <1>3
    <2>2. QED
        BY <2>1, <1>2, AddPartsMakes
<1>5. AddParts(Clean(4, TablesOf(5), PartsOf(4) \cup first, {}, {}, Unarmed, Roles),
               "labeled_examples", {"uq_labeled_examples_dedupe"})
        = Clean(4, TablesOf(5), PartsOf(5), {}, {}, Unarmed, Roles)
    <2>1. second \cap PartsOf(4) = {}
        BY <1>2, <1>3
    <2>2. second \cap first = {}
        OBVIOUS
    <2>3. second \cap (PartsOf(4) \cup first) = {}
        BY <2>1, <2>2
    <2>4. PartsOf(5) = PartsOf(4) \cup first \cup second
        BY PartsGrow DEF Parts0005
    <2>5. QED
        BY <2>1, <2>2, <2>3, <2>4, <1>2, AddPartsMakes
<1>6. Up(5, SchemaOf(4)) = Clean(4, TablesOf(5), PartsOf(5), {}, {}, Unarmed, Roles)
    BY <1>1, <1>4, <1>5 DEF Up, Up0005
<1>7. QED
    BY <1>6, Numbered, EarlySchema DEF Climbs

LEMMA Descend5 == Descends(5)
<1>1. \A x \in Parts0005 : x[1] \in Tables0005
    BY DEF Parts0005, Tables0005
<1>2. TablesOf(4) = TablesOf(5) \ Tables0005 /\ Tables0005 \cap TablesOf(4) = {}
    BY TablesGrow, TablesFresh
<1>3. \A x \in PartsOf(4) : x[1] \in TablesOf(4)
    BY PartsHang DEF Head
<1>4. \A x : x \in PartsOf(4) <=> x \in PartsOf(5) /\ x[1] \notin Tables0005
    BY <1>1, <1>2, <1>3, PartsGrow
<1>5. Drop(SchemaOf(5), Tables0005)
        = Clean(5, TablesOf(4), PartsOf(4), {}, {}, Unarmed, Roles)
    BY <1>2, <1>4, CreateUndone
<1>6. Down(5, SchemaOf(5)) = Drop(SchemaOf(5), Tables0005)
    BY DEF Down, Down0005
<1>7. QED
    BY <1>5, <1>6, Numbered, EarlySchema DEF Descends

\* The four GRANTs to the worker, and the four to the console, one after another.
LEMMA WorkerGranted ==
    ASSUME NEW n, NEW t, NEW p, NEW g, NEW i, NEW w, WorkerTables \subseteq t,
           {"raw_events", "pipeline_runs", "recommendations"} \subseteq t
    PROVE  GrantWorker(Clean(n, t, p, g, i, w, Roles))
             = Clean(n, t, p, g \cup Worker0006, i, w, Roles)
<1>. DEFINE g1 == g \cup Cells(Worker, SelectInsert, WorkerTables, All)
            g2 == g1 \cup Cells(Worker, {"UPDATE"}, {"raw_events", "pipeline_runs"}, All)
            g3 == g2 \cup Cells(Worker, {"INSERT"}, {"recommendations"}, All)
            g4 == g3 \cup Cells(Worker, {"UPDATE"}, {"recommendations"}, {"status",
                                "delivered_at", "delivery_ref"})
<1>1. Worker \in Roles
    BY DEF Roles
<1>2. /\ WorkerTables \subseteq t
      /\ {"raw_events", "pipeline_runs"} \subseteq t
      /\ {"recommendations"} \subseteq t
    OBVIOUS
<1>3. /\ g1 = g \cup Cells(Worker, SelectInsert, WorkerTables, All)
      /\ g2 = g1 \cup Cells(Worker, {"UPDATE"}, {"raw_events", "pipeline_runs"}, All)
      /\ g3 = g2 \cup Cells(Worker, {"INSERT"}, {"recommendations"}, All)
      /\ g4 = g3 \cup Cells(Worker, {"UPDATE"}, {"recommendations"}, {"status", "delivered_at",
                            "delivery_ref"})
    OBVIOUS
<1>4. g4 = g \cup Worker0006
    BY DEF Worker0006
<1>. HIDE DEF g1, g2, g3, g4
<1>5. Grant(Clean(n, t, p, g, i, w, Roles), SelectInsert, WorkerTables, All, Worker)
        = Clean(n, t, p, g1, i, w, Roles)
    BY <1>1, <1>2, <1>3, GrantMakes
<1>6. Grant(Clean(n, t, p, g1, i, w, Roles), {"UPDATE"}, {"raw_events", "pipeline_runs"}, All,
            Worker)
        = Clean(n, t, p, g2, i, w, Roles)
    BY <1>1, <1>2, <1>3, GrantMakes
<1>7. Grant(Clean(n, t, p, g2, i, w, Roles), {"INSERT"}, {"recommendations"}, All, Worker)
        = Clean(n, t, p, g3, i, w, Roles)
    BY <1>1, <1>2, <1>3, GrantMakes
<1>8. Grant(Clean(n, t, p, g3, i, w, Roles), {"UPDATE"},
              {"recommendations"},
              {"status", "delivered_at", "delivery_ref"}, Worker)
        = Clean(n, t, p, g4, i, w, Roles)
    BY <1>1, <1>2, <1>3, GrantMakes
<1>9. QED
    BY <1>4, <1>5, <1>6, <1>7, <1>8 DEF GrantWorker

LEMMA ConsoleGranted ==
    ASSUME NEW n, NEW t, NEW p, NEW g, NEW i, NEW w, ConsoleTables \subseteq t,
           {"event_type_mappings", "incentives", "experiments", "pipeline_runs", "audit_log",
            "recommendations"} \subseteq t
    PROVE  GrantConsole(Clean(n, t, p, g, i, w, Roles))
             = Clean(n, t, p, g \cup Console0006, i, w, Roles)
<1>. DEFINE g1 == g \cup Cells(Console, {"SELECT"}, ConsoleTables, All)
            g2 == g1 \cup Cells(Console, {"INSERT"}, {"event_type_mappings", "incentives",
                                "experiments", "pipeline_runs", "audit_log"}, All)
            g3 == g2 \cup Cells(Console, {"UPDATE"}, {"event_type_mappings", "incentives"}, All)
            g4 == g3 \cup Cells(Console, {"UPDATE"}, {"recommendations"}, {"status",
                                "reviewed_by", "reviewed_at", "review_note"})
<1>1. Console \in Roles
    BY DEF Roles
<1>2. /\ ConsoleTables \subseteq t
      /\ {"event_type_mappings", "incentives", "experiments", "pipeline_runs",
                "audit_log"} \subseteq t
      /\ {"event_type_mappings", "incentives"} \subseteq t
      /\ {"recommendations"} \subseteq t
    OBVIOUS
<1>3. /\ g1 = g \cup Cells(Console, {"SELECT"}, ConsoleTables, All)
      /\ g2 = g1 \cup Cells(Console, {"INSERT"}, {"event_type_mappings", "incentives",
                            "experiments", "pipeline_runs", "audit_log"}, All)
      /\ g3 = g2 \cup Cells(Console, {"UPDATE"}, {"event_type_mappings", "incentives"}, All)
      /\ g4 = g3 \cup Cells(Console, {"UPDATE"}, {"recommendations"}, {"status", "reviewed_by",
                            "reviewed_at", "review_note"})
    OBVIOUS
<1>4. g4 = g \cup Console0006
    BY DEF Console0006
<1>. HIDE DEF g1, g2, g3, g4
<1>5. Grant(Clean(n, t, p, g, i, w, Roles), {"SELECT"}, ConsoleTables, All, Console)
        = Clean(n, t, p, g1, i, w, Roles)
    BY <1>1, <1>2, <1>3, GrantMakes
<1>6. Grant(Clean(n, t, p, g1, i, w, Roles), {"INSERT"},
              {"event_type_mappings", "incentives", "experiments", "pipeline_runs", "audit_log"},
              All, Console)
        = Clean(n, t, p, g2, i, w, Roles)
    BY <1>1, <1>2, <1>3, GrantMakes
<1>7. Grant(Clean(n, t, p, g2, i, w, Roles), {"UPDATE"},
              {"event_type_mappings", "incentives"},
              All, Console)
        = Clean(n, t, p, g3, i, w, Roles)
    BY <1>1, <1>2, <1>3, GrantMakes
<1>8. Grant(Clean(n, t, p, g3, i, w, Roles), {"UPDATE"},
              {"recommendations"},
              {"status", "reviewed_by", "reviewed_at", "review_note"}, Console)
        = Clean(n, t, p, g4, i, w, Roles)
    BY <1>1, <1>2, <1>3, GrantMakes
<1>9. QED
    BY <1>4, <1>5, <1>6, <1>7, <1>8 DEF GrantConsole

LEMMA Climb6 == Climbs(6)
<1>. DEFINE armed == Clean(5, TablesOf(5), PartsOf(5), {}, {}, Armed, Roles)
            g1 == Readonly0006
            g2 == g1 \cup Worker0006
            g3 == g2 \cup Console0006
            after(g) == Clean(5, TablesOf(5), PartsOf(5), g, {}, Armed, Roles)
<1>1. [SchemaOf(5) EXCEPT !.trigger = TRUE] = armed
    <2>1. [SchemaOf(5) EXCEPT !.trigger = Armed] = armed
        BY EarlySchema, TriggerMakes
    <2>2. QED
        BY <2>1 DEF Armed
<1>2. GrantReadonly(armed) = after(g1)
    <2>1. armed.tables = TablesOf(5)
        BY DEF Clean
    <2>2. Readonly \in Roles /\ g1 = {} \cup Cells(Readonly, {"SELECT"}, TablesOf(5), All)
        BY DEF Roles, Readonly0006
    <2>3. Grant(armed, {"SELECT"}, TablesOf(5), All, Readonly) = after(g1)
        BY <2>2, GrantMakes
    <2>4. QED
        BY <2>1, <2>3 DEF GrantReadonly
<1>3. GrantWorker(after(g1)) = after(g2)
    BY NamedTablesExist, WorkerGranted
<1>4. GrantConsole(after(g2)) = after(g3)
    BY NamedTablesExist, ConsoleGranted
<1>5. Isolate(after(g3), RlsTables)
        = Clean(5, TablesOf(5), PartsOf(5), g3, RlsTables, Armed, Roles)
    <2>1. Isolate(after(g3), RlsTables)
            = Clean(5, TablesOf(5), PartsOf(5), g3, {} \cup RlsTables, Armed, Roles)
        BY NamedTablesExist, IsolateMakes
    <2>2. {} \cup RlsTables = RlsTables
        OBVIOUS
    <2>3. QED
        BY <2>1, <2>2
<1>6. /\ g3 = GrantsOf(6)
      /\ RlsTables = IsolatedOf(6)
      /\ TablesOf(5) = TablesOf(6)
      /\ PartsOf(5) = PartsOf(6)
    BY GrantsGrow, IsolationGrows, TablesGrow, PartsGrow
<1>. HIDE DEF g1, g2, g3, armed, after
<1>7. Up0006(SchemaOf(5)) = Isolate(after(g3), RlsTables)
    BY <1>1, <1>2, <1>3, <1>4, Zenon DEF Up0006
<1>8. Up(6, SchemaOf(5)) = Up0006(SchemaOf(5))
    BY DEF Up
<1>9. QED
    BY <1>5, <1>6, <1>7, <1>8, Numbered, LateSchema DEF Climbs

LEMMA Descend6 == Descends(6)
<1>1. SchemaOf(6) = Clean(6, TablesOf(5), PartsOf(5), GrantsOf(6), RlsTables, Armed, Roles)
    BY LateSchema, IsolationGrows, TablesGrow, PartsGrow
<1>2. Expose(SchemaOf(6), RlsTables)
        = Clean(6, TablesOf(5), PartsOf(5), GrantsOf(6), {}, Armed, Roles)
    <2>1. RlsTables \ RlsTables = {}
        OBVIOUS
    <2>2. QED
        BY <1>1, <2>1, ExposeMakes
<1>3. \A x \in GrantsOf(6) : x[1] \in Roles
    BY GrantsGrow DEF Readonly0006, Worker0006, Console0006, Roles, Cells
<1>4. RevokeAll(Expose(SchemaOf(6), RlsTables))
        = Clean(6, TablesOf(5), PartsOf(5), {}, {}, Armed, Roles)
    BY <1>2, <1>3, RevokeAllMakes
<1>5. [RevokeAll(Expose(SchemaOf(6), RlsTables)) EXCEPT !.trigger = FALSE]
        = Clean(6, TablesOf(5), PartsOf(5), {}, {}, Unarmed, Roles)
    <2>1. [RevokeAll(Expose(SchemaOf(6), RlsTables)) EXCEPT !.trigger = Unarmed]
            = Clean(6, TablesOf(5), PartsOf(5), {}, {}, Unarmed, Roles)
        BY <1>4, TriggerMakes
    <2>2. QED
        BY <2>1 DEF Unarmed
<1>6. Down(6, SchemaOf(6)) = Clean(6, TablesOf(5), PartsOf(5), {}, {}, Unarmed, Roles)
    BY <1>5 DEF Down, Down0006
<1>7. QED
    BY <1>6, Numbered, EarlySchema DEF Descends

\* A late migration that only gives the worker privileges it did not have.
LEMMA Regrant ==
    ASSUME NEW q \in 6..12, NEW r \in 6..12, NEW P, NEW T, NEW C,
           TablesOf(r) = TablesOf(q), PartsOf(r) = PartsOf(q), IsolatedOf(r) = IsolatedOf(q),
           GrantsOf(r) = GrantsOf(q) \cup Cells(Worker, P, T, C),
           T \subseteq TablesOf(q),
           \A x \in GrantsOf(q) : ~Hit(x, P, T, C, Worker)
    PROVE  /\ [Grant(SchemaOf(q), P, T, C, Worker) EXCEPT !.rev = r] = SchemaOf(r)
           /\ [Revoke(SchemaOf(r), P, T, C, Worker) EXCEPT !.rev = q] = SchemaOf(q)
<1>. DEFINE before(n) == Clean(n, TablesOf(q), PartsOf(q), GrantsOf(q), IsolatedOf(q), Armed, Roles)
            after(n) == Clean(n, TablesOf(q), PartsOf(q), GrantsOf(r), IsolatedOf(q), Armed, Roles)
<1>1. SchemaOf(q) = before(q) /\ SchemaOf(r) = after(r)
    BY LateSchema
<1>2. Worker \in Roles
    BY DEF Roles
<1>3. Grant(before(q), P, T, C, Worker) = after(q)
    BY <1>2, GrantMakes
<1>4. after(r) = Clean(r, TablesOf(q), PartsOf(q), GrantsOf(q) \cup Cells(Worker, P, T, C),
                       IsolatedOf(q), Armed, Roles)
    OBVIOUS
<1>5. Revoke(after(r), P, T, C, Worker) = before(r)
    BY <1>2, <1>4, RevokeUndoesGrant
<1>6. [after(q) EXCEPT !.rev = r] = after(r) /\ [before(r) EXCEPT !.rev = q] = before(q)
    BY Numbered
<1>. HIDE DEF before, after
<1>7. QED
    BY <1>1, <1>3, <1>5, <1>6

\* What the worker may do before the migrations that repair it: the privileges
\* these give, and their downgrades take away, were not there.
LEMMA WorkerCouldNot ==
    /\ \A x \in GrantsOf(6) : ~Hit(x, {"SELECT"}, {"recommendations"}, All, Worker)
    /\ \A x \in GrantsOf(8) :
          ~Hit(x, {"SELECT"}, {"tenants", "event_type_mappings", "incentives"}, All, Worker)
    /\ \A x \in GrantsOf(9) : ~Hit(x, {"UPDATE"}, {"users"}, UserColumns, Worker)
    /\ \A x \in GrantsOf(10) : ~Hit(x, SelectInsert, {"experiments", "audit_log"}, All, Worker)
<1>1. \A x \in Readonly0006 \cup Console0006 : x[1] # Worker
    BY DEF Readonly0006, Console0006, Cells, Readonly, Console, Worker
<1>2. \A x \in Worker0006 :
        /\ x[3] = "recommendations" => x[2] # "SELECT"
        /\ x[3] \notin {"tenants", "event_type_mappings", "incentives", "experiments", "audit_log"}
        /\ x[3] = "users" => x[2] # "UPDATE"
    BY DEF Worker0006, Cells, WorkerTables, Tables0002, Tables0003, SelectInsert
<1>3. \A x \in Worker0007 : x[3] = "recommendations"
    BY DEF Worker0007, Cells
<1>4. \A x \in Grants0008 : x[3] = "feature_snapshots"
    BY DEF Grants0008, Cells
<1>5. \A x \in Worker0009 : x[3] \in {"tenants", "event_type_mappings", "incentives"}
    BY DEF Worker0009, Cells
<1>6. \A x \in Worker0010 : x[3] = "users"
    BY DEF Worker0010, Cells
<1>7. \A x \in GrantsOf(6) : x[1] = Worker => x \in Worker0006
    BY <1>1, GrantsGrow
<1>8. \A x \in GrantsOf(8) : x[1] = Worker => x \in Worker0006 \cup Worker0007 \cup Grants0008
    BY <1>7, GrantsGrow
<1>9. \A x \in GrantsOf(10) : x[1] = Worker =>
        x \in Worker0006 \cup Worker0007 \cup Grants0008 \cup Worker0009 \cup Worker0010
    BY <1>8, GrantsGrow
<1>10. \A x \in GrantsOf(9) : x[1] = Worker =>
        x \in Worker0006 \cup Worker0007 \cup Grants0008 \cup Worker0009
    BY <1>8, GrantsGrow
<1>11. \A x \in GrantsOf(6) : ~Hit(x, {"SELECT"}, {"recommendations"}, All, Worker)
    BY <1>2, <1>7 DEF Hit
<1>12. \A x \in GrantsOf(8) :
         ~Hit(x, {"SELECT"}, {"tenants", "event_type_mappings", "incentives"}, All, Worker)
    BY <1>2, <1>3, <1>4, <1>8 DEF Hit
<1>13. \A x \in GrantsOf(9) : ~Hit(x, {"UPDATE"}, {"users"}, UserColumns, Worker)
    BY <1>2, <1>3, <1>4, <1>5, <1>10 DEF Hit
<1>14. \A x \in GrantsOf(10) : ~Hit(x, SelectInsert, {"experiments", "audit_log"}, All, Worker)
    BY <1>2, <1>3, <1>4, <1>5, <1>6, <1>9 DEF Hit
<1>15. QED
    BY <1>11, <1>12, <1>13, <1>14

LEMMA Regranted7 == Climbs(7) /\ Descends(7)
<1>1. /\ TablesOf(7) = TablesOf(6)
      /\ PartsOf(7) = PartsOf(6)
      /\ IsolatedOf(7) = IsolatedOf(6)
    BY TablesGrow, PartsGrow, IsolationGrows
<1>2. GrantsOf(7)
        = GrantsOf(6) \cup Cells(Worker, {"SELECT"}, {"recommendations"}, All)
    BY GrantsGrow DEF Worker0007
<1>3. \A x \in GrantsOf(6) :
         ~Hit(x, {"SELECT"}, {"recommendations"}, All, Worker)
    BY WorkerCouldNot
<1>4. {"recommendations"} \subseteq TablesOf(6)
    BY TablesGrow, NamedTablesExist
<1>5. /\ [Grant(SchemaOf(6), {"SELECT"}, {"recommendations"}, All, Worker)
           EXCEPT !.rev = 7] = SchemaOf(7)
      /\ [Revoke(SchemaOf(7), {"SELECT"}, {"recommendations"}, All, Worker)
           EXCEPT !.rev = 6] = SchemaOf(6)
    BY <1>1, <1>2, <1>3, <1>4, Regrant
<1>6. /\ Up(7, SchemaOf(6))
           = Grant(SchemaOf(6), {"SELECT"}, {"recommendations"}, All, Worker)
      /\ Down(7, SchemaOf(7))
           = Revoke(SchemaOf(7), {"SELECT"}, {"recommendations"}, All, Worker)
    BY DEF Up, Up0007, Down, Down0007
<1>7. QED
    BY <1>5, <1>6 DEF Climbs, Descends

LEMMA Regranted9 == Climbs(9) /\ Descends(9)
<1>1. /\ TablesOf(9) = TablesOf(8)
      /\ PartsOf(9) = PartsOf(8)
      /\ IsolatedOf(9) = IsolatedOf(8)
    BY TablesGrow, PartsGrow, IsolationGrows
<1>2. GrantsOf(9)
        = GrantsOf(8) \cup Cells(Worker, {"SELECT"}, {"tenants", "event_type_mappings",
                                 "incentives"}, All)
    BY GrantsGrow DEF Worker0009
<1>3. \A x \in GrantsOf(8) :
         ~Hit(x, {"SELECT"}, {"tenants", "event_type_mappings", "incentives"}, All, Worker)
    BY WorkerCouldNot
<1>4. {"tenants", "event_type_mappings", "incentives"} \subseteq TablesOf(8)
    BY TablesGrow, NamedTablesExist
<1>5. /\ [Grant(SchemaOf(8), {"SELECT"}, {"tenants", "event_type_mappings", "incentives"}, All,
                Worker)
           EXCEPT !.rev = 9] = SchemaOf(9)
      /\ [Revoke(SchemaOf(9), {"SELECT"}, {"tenants", "event_type_mappings", "incentives"}, All,
                 Worker)
           EXCEPT !.rev = 8] = SchemaOf(8)
    BY <1>1, <1>2, <1>3, <1>4, Regrant
<1>6. /\ Up(9, SchemaOf(8))
           = Grant(SchemaOf(8), {"SELECT"}, {"tenants", "event_type_mappings", "incentives"},
                   All, Worker)
      /\ Down(9, SchemaOf(9))
           = Revoke(SchemaOf(9), {"SELECT"}, {"tenants", "event_type_mappings", "incentives"},
                    All, Worker)
    BY DEF Up, Up0009, Down, Down0009
<1>7. QED
    BY <1>5, <1>6 DEF Climbs, Descends

LEMMA Regranted10 == Climbs(10) /\ Descends(10)
<1>1. /\ TablesOf(10) = TablesOf(9)
      /\ PartsOf(10) = PartsOf(9)
      /\ IsolatedOf(10) = IsolatedOf(9)
    BY TablesGrow, PartsGrow, IsolationGrows
<1>2. GrantsOf(10)
        = GrantsOf(9) \cup Cells(Worker, {"UPDATE"}, {"users"}, UserColumns)
    BY GrantsGrow DEF Worker0010
<1>3. \A x \in GrantsOf(9) :
         ~Hit(x, {"UPDATE"}, {"users"}, UserColumns, Worker)
    BY WorkerCouldNot
<1>4. {"users"} \subseteq TablesOf(9)
    BY TablesGrow, NamedTablesExist
<1>5. /\ [Grant(SchemaOf(9), {"UPDATE"}, {"users"}, UserColumns, Worker)
           EXCEPT !.rev = 10] = SchemaOf(10)
      /\ [Revoke(SchemaOf(10), {"UPDATE"}, {"users"}, UserColumns, Worker)
           EXCEPT !.rev = 9] = SchemaOf(9)
    BY <1>1, <1>2, <1>3, <1>4, Regrant
<1>6. /\ Up(10, SchemaOf(9))
           = Grant(SchemaOf(9), {"UPDATE"}, {"users"}, UserColumns, Worker)
      /\ Down(10, SchemaOf(10))
           = Revoke(SchemaOf(10), {"UPDATE"}, {"users"}, UserColumns, Worker)
    BY DEF Up, Up0010, Down, Down0010
<1>7. QED
    BY <1>5, <1>6 DEF Climbs, Descends

LEMMA Regranted11 == Climbs(11) /\ Descends(11)
<1>1. /\ TablesOf(11) = TablesOf(10)
      /\ PartsOf(11) = PartsOf(10)
      /\ IsolatedOf(11) = IsolatedOf(10)
    BY TablesGrow, PartsGrow, IsolationGrows
<1>2. GrantsOf(11)
        = GrantsOf(10) \cup Cells(Worker, SelectInsert, {"experiments", "audit_log"}, All)
    BY GrantsGrow DEF Worker0011
<1>3. \A x \in GrantsOf(10) :
         ~Hit(x, SelectInsert, {"experiments", "audit_log"}, All, Worker)
    BY WorkerCouldNot
<1>4. {"experiments", "audit_log"} \subseteq TablesOf(10)
    BY TablesGrow, NamedTablesExist
<1>5. /\ [Grant(SchemaOf(10), SelectInsert, {"experiments", "audit_log"}, All, Worker)
           EXCEPT !.rev = 11] = SchemaOf(11)
      /\ [Revoke(SchemaOf(11), SelectInsert, {"experiments", "audit_log"}, All, Worker)
           EXCEPT !.rev = 10] = SchemaOf(10)
    BY <1>1, <1>2, <1>3, <1>4, Regrant
<1>6. /\ Up(11, SchemaOf(10))
           = Grant(SchemaOf(10), SelectInsert, {"experiments", "audit_log"}, All, Worker)
      /\ Down(11, SchemaOf(11))
           = Revoke(SchemaOf(11), SelectInsert, {"experiments", "audit_log"}, All, Worker)
    BY DEF Up, Up0011, Down, Down0011
<1>7. QED
    BY <1>5, <1>6 DEF Climbs, Descends

LEMMA Climb8 == Climbs(8)
<1>. DEFINE T == {"feature_snapshots"}
            p1 == PartsOf(7) \cup Incentives0008
            g1 == GrantsOf(7) \cup Cells(Readonly, {"SELECT"}, T, All)
            g2 == g1 \cup Cells(Worker, SelectInsert, T, All)
            g3 == g2 \cup Cells(Console, {"SELECT"}, T, All)
<1>1. AddParts(SchemaOf(7), "incentives", {"changes_credit_terms", "applicable_profile_types"})
        = Clean(7, TablesOf(7), p1, GrantsOf(7), IsolatedOf(7), Armed, Roles)
    <2>1. "incentives" \in TablesOf(7)
        BY TablesGrow, NamedTablesExist
    <2>2. ({"incentives"} \X {"changes_credit_terms", "applicable_profile_types"})
            \cap PartsOf(7) = {}
        BY DEF PartsOf, Parts0001, Parts0002, Parts0003, Parts0004, Parts0005
    <2>3. QED
        BY <2>1, <2>2, LateSchema, AddPartsMakes DEF Incentives0008
<1>2. Create(Clean(7, TablesOf(7), p1, GrantsOf(7), IsolatedOf(7), Armed, Roles), T)
        = Clean(7, TablesOf(8), p1, GrantsOf(7), IsolatedOf(7), Armed, Roles)
    BY TablesGrow, TablesFresh, CreateMakes
<1>3. AddParts(Clean(7, TablesOf(8), p1, GrantsOf(7), IsolatedOf(7), Armed, Roles),
               "feature_snapshots", {"uq_feature_snapshots_run_user"})
        = Clean(7, TablesOf(8), PartsOf(8), GrantsOf(7), IsolatedOf(7), Armed, Roles)
    <2>1. \A x \in p1 : x[1] # "feature_snapshots"
        BY DEF PartsOf, Parts0001, Parts0002, Parts0003, Parts0004, Parts0005, Incentives0008
    <2>2. ({"feature_snapshots"} \X {"uq_feature_snapshots_run_user"}) \cap p1 = {}
        BY <2>1
    <2>3. PartsOf(8) = p1 \cup ({"feature_snapshots"} \X {"uq_feature_snapshots_run_user"})
        BY PartsGrow DEF Snapshots0008
    <2>4. "feature_snapshots" \in TablesOf(8)
        BY TablesGrow
    <2>. HIDE DEF p1
    <2>5. QED
        BY <2>2, <2>3, <2>4, AddPartsMakes
<1>4. Isolate(Clean(7, TablesOf(8), PartsOf(8), GrantsOf(7), IsolatedOf(7), Armed, Roles), T)
        = Clean(7, TablesOf(8), PartsOf(8), GrantsOf(7), IsolatedOf(8), Armed, Roles)
    BY TablesGrow, IsolationGrows, IsolateMakes
<1>5. /\ g1 = GrantsOf(7) \cup Cells(Readonly, {"SELECT"}, T, All)
      /\ g2 = g1 \cup Cells(Worker, SelectInsert, T, All)
      /\ g3 = g2 \cup Cells(Console, {"SELECT"}, T, All)
      /\ g3 = GrantsOf(8)
    BY GrantsGrow DEF Grants0008
<1>6. T \subseteq TablesOf(8)
    BY TablesGrow
<1>. HIDE DEF p1, g1, g2, g3
<1>7. Grant(Clean(7, TablesOf(8), PartsOf(8), GrantsOf(7), IsolatedOf(8), Armed, Roles),
            {"SELECT"}, T, All, Readonly)
        = Clean(7, TablesOf(8), PartsOf(8), g1, IsolatedOf(8), Armed, Roles)
    BY <1>5, <1>6, GrantMakes, Readonly \in Roles DEF Roles
<1>8. Grant(Clean(7, TablesOf(8), PartsOf(8), g1, IsolatedOf(8), Armed, Roles),
            SelectInsert, T, All, Worker)
        = Clean(7, TablesOf(8), PartsOf(8), g2, IsolatedOf(8), Armed, Roles)
    BY <1>5, <1>6, GrantMakes, Worker \in Roles DEF Roles
<1>9. Grant(Clean(7, TablesOf(8), PartsOf(8), g2, IsolatedOf(8), Armed, Roles),
            {"SELECT"}, T, All, Console)
        = Clean(7, TablesOf(8), PartsOf(8), g3, IsolatedOf(8), Armed, Roles)
    BY <1>5, <1>6, GrantMakes, Console \in Roles DEF Roles
<1>10. Up0008(SchemaOf(7)) = Clean(7, TablesOf(8), PartsOf(8), g3, IsolatedOf(8), Armed, Roles)
    BY <1>1, <1>2, <1>3, <1>4, <1>7, <1>8, <1>9 DEF Up0008
<1>11. Up(8, SchemaOf(7)) = Up0008(SchemaOf(7))
    BY DEF Up
<1>12. Up(8, SchemaOf(7))
        = Clean(7, TablesOf(8), PartsOf(8), GrantsOf(8), IsolatedOf(8), Armed, Roles)
    BY <1>5, <1>10, <1>11
<1>13. QED
    BY <1>12, Numbered, LateSchema DEF Climbs

LEMMA Descend8 == Descends(8)
<1>. DEFINE T == {"feature_snapshots"}
            p1 == PartsOf(7) \cup Incentives0008
<1>1. \A x : x \in p1 <=> x \in PartsOf(8) /\ x[1] \notin T
    <2>1. \A x \in p1 : x[1] \notin T
        BY DEF PartsOf, Parts0001, Parts0002, Parts0003, Parts0004, Parts0005, Incentives0008
    <2>2. \A x \in Snapshots0008 : x[1] \in T
        BY DEF Snapshots0008
    <2>3. PartsOf(8) = p1 \cup Snapshots0008
        BY PartsGrow
    <2>4. QED
        BY <2>1, <2>2, <2>3
<1>2. \A x : x \in GrantsOf(7) <=> x \in GrantsOf(8) /\ x[3] \notin T
    <2>1. \A x \in GrantsOf(7) : x[3] \notin T
        BY GrantsHang, TablesFresh
    <2>2. \A x \in Grants0008 : x[3] \in T
        BY DEF Grants0008, Cells
    <2>3. GrantsOf(8) = GrantsOf(7) \cup Grants0008
        BY GrantsGrow
    <2>4. QED
        BY <2>1, <2>2, <2>3
<1>3. TablesOf(8) \ T = TablesOf(7)
    BY TablesGrow, TablesFresh
<1>4. IsolatedOf(8) \ T = IsolatedOf(7)
    BY IsolationGrows DEF RlsTables
<1>5. Armed \in BOOLEAN /\ ("recommendations" \in T => ~Armed)
    BY DEF Armed
<1>6. ({"incentives"} \X {"changes_credit_terms", "applicable_profile_types"}) \subseteq p1
    BY DEF Incentives0008
<1>7. p1 \ ({"incentives"} \X {"changes_credit_terms", "applicable_profile_types"}) = PartsOf(7)
    BY DEF PartsOf, Parts0001, Parts0002, Parts0003, Parts0004, Parts0005, Incentives0008
<1>. HIDE DEF p1
<1>8. Drop(SchemaOf(8), T)
        = Clean(8, TablesOf(7), p1, GrantsOf(7), IsolatedOf(7), Armed, Roles)
    BY <1>1, <1>2, <1>3, <1>4, <1>5, LateSchema, DropMakes
<1>9. DropParts(Clean(8, TablesOf(7), p1, GrantsOf(7), IsolatedOf(7), Armed, Roles),
                "incentives", {"changes_credit_terms", "applicable_profile_types"})
        = Clean(8, TablesOf(7), PartsOf(7), GrantsOf(7), IsolatedOf(7), Armed, Roles)
    BY <1>6, <1>7, DropPartsMakes
<1>10. Down(8, SchemaOf(8))
        = Clean(8, TablesOf(7), PartsOf(7), GrantsOf(7), IsolatedOf(7), Armed, Roles)
    BY <1>8, <1>9 DEF Down, Down0008
<1>11. QED
    BY <1>10, Numbered, LateSchema DEF Descends

LEMMA Climb12 == Climbs(12) /\ Descends(12)
<1>. DEFINE of(n, p) ==
                Clean(n, TablesOf(11), p, GrantsOf(11), IsolatedOf(11), Armed, Roles)
<1>1. SchemaOf(11) = of(11, PartsOf(11)) /\ SchemaOf(12) = of(12, PartsOf(12))
    BY LateSchema, TablesGrow, GrantsGrow, IsolationGrows
<1>2. PartsOf(12) = PartsOf(11) \cup ({"pipeline_runs"} \X {"attempts"})
    BY PartsGrow DEF Parts0012
<1>3. ({"pipeline_runs"} \X {"attempts"}) \cap PartsOf(11) = {}
    BY DEF PartsOf, Parts0001, Parts0002, Parts0003, Parts0004, Parts0005, Incentives0008,
           Snapshots0008
<1>4. "pipeline_runs" \in TablesOf(11)
    BY TablesGrow, NamedTablesExist
<1>5. AddParts(of(11, PartsOf(11)), "pipeline_runs", {"attempts"}) = of(11, PartsOf(12))
    BY <1>2, <1>3, <1>4, AddPartsMakes
<1>6. DropParts(of(12, PartsOf(12)), "pipeline_runs", {"attempts"}) = of(12, PartsOf(11))
    <2>1. /\ ({"pipeline_runs"} \X {"attempts"}) \subseteq PartsOf(12)
          /\ PartsOf(12) \ ({"pipeline_runs"} \X {"attempts"}) = PartsOf(11)
        BY <1>2, <1>3
    <2>2. QED
        BY <2>1, DropPartsMakes
<1>7. /\ [of(11, PartsOf(12)) EXCEPT !.rev = 12] = of(12, PartsOf(12))
      /\ [of(12, PartsOf(11)) EXCEPT !.rev = 11] = of(11, PartsOf(11))
    BY Numbered
<1>8. /\ Up(12, SchemaOf(11)) = AddParts(SchemaOf(11), "pipeline_runs", {"attempts"})
      /\ Down(12, SchemaOf(12)) = DropParts(SchemaOf(12), "pipeline_runs", {"attempts"})
    BY DEF Up, Down, Up0012, Down0012
<1>. HIDE DEF of
<1>9. QED
    BY <1>1, <1>5, <1>6, <1>7, <1>8 DEF Climbs, Descends

\* One step of a command, up or down, is a step of the closed form.
LEMMA ClimbStep ==
    ASSUME NEW r \in 1..Head
    PROVE  Climbs(r)
<1>1. \/ r = 1 \/ r = 2 \/ r = 3 \/ r = 4 \/ r = 5 \/ r = 6
      \/ r = 7 \/ r = 8 \/ r = 9 \/ r = 10 \/ r = 11 \/ r = 12
    BY DEF Head
<1>2. QED
    BY <1>1, Climb1, Climb2, Climb3, Climb4, Climb5, Climb6, Regranted7, Climb8, Regranted9,
       Regranted10, Regranted11, Climb12

LEMMA DescendStep ==
    ASSUME NEW r \in 1..Head
    PROVE  Descends(r)
<1>1. \/ r = 1 \/ r = 2 \/ r = 3 \/ r = 4 \/ r = 5 \/ r = 6
      \/ r = 7 \/ r = 8 \/ r = 9 \/ r = 10 \/ r = 11 \/ r = 12
    BY DEF Head
<1>2. QED
    BY <1>1, Descend1, Descend2, Descend3, Descend4, Descend5, Descend6, Regranted7, Descend8,
       Regranted9, Regranted10, Regranted11, Climb12

LEMMA SchemaShape ==
    ASSUME NEW r \in 0..Head
    PROVE  /\ SchemaOf(r).rev = r
           /\ SchemaOf(r).tables = TablesOf(r)
           /\ SchemaOf(r).parts = PartsOf(r)
           /\ SchemaOf(r).grants = GrantsOf(r)
           /\ SchemaOf(r).isolated = IsolatedOf(r)
           /\ SchemaOf(r).raised = FALSE
    BY DEF SchemaOf, Clean

LEMMA BlankShape ==
    /\ Blank.rev = 0
    /\ Blank.grants = {}
    /\ Blank.raised = FALSE
    BY DEF Blank

\* Alembic's version table is all there is at revision 0.
LEMMA BlankVersioned == Versioned(Blank) = SchemaOf(0)
<1>1. Blank = Clean(0, {}, {}, {}, {}, Unarmed, {})
    BY DEF Blank, Clean, Unarmed
<1>2. TablesOf(0) = {"alembic_version"}
    BY TablesGrow
<1>3. Versioned(Clean(0, {}, {}, {}, {}, Unarmed, {}))
        \in Exactly(0, TablesOf(0), {}, {}, {}, Unarmed, {})
    BY <1>2 DEF Versioned, Clean, Exactly
<1>4. QED
    BY <1>1, <1>3, Same, EmptySchema

LEMMA SchemaVersioned ==
    ASSUME NEW r \in 0..Head
    PROVE  Versioned(SchemaOf(r)) = SchemaOf(r)
<1>1. TablesOf(r) \cup {"alembic_version"} = TablesOf(r)
    BY DEF TablesOf
<1>. DEFINE at == Clean(r, TablesOf(r), PartsOf(r), GrantsOf(r), IsolatedOf(r), TriggerOf(r),
                        RolesOf(r))
<1>2. Versioned(at) \in Exactly(r, TablesOf(r), PartsOf(r), GrantsOf(r), IsolatedOf(r),
                                TriggerOf(r), RolesOf(r))
    BY <1>1 DEF Versioned, Clean, Exactly
<1>3. QED
    BY <1>2, Same DEF SchemaOf

\* What upgrades alone build is the closed form.
LEMMA BuiltIs ==
    ASSUME NEW r \in 0..Head
    PROVE  Built[r] = SchemaOf(r)
<1>. DEFINE N(f) ==
                [n \in 0..Head |->
                    IF n = 0 THEN Versioned(Blank) ELSE [Up(n, f[n - 1]) EXCEPT !.rev = n]]
            F == [n \in 0..Head |-> SchemaOf(n)]
<1>1. F = N(F)
    <2>1. ASSUME NEW n \in 0..Head
          PROVE  SchemaOf(n)
                   = IF n = 0 THEN Versioned(Blank) ELSE [Up(n, F[n - 1]) EXCEPT !.rev = n]
        <3>1. CASE n = 0
            BY <3>1, BlankVersioned
        <3>2. CASE n # 0
            <4>1. n \in 1..Head /\ n - 1 \in 0..Head
                BY <3>2 DEF Head
            <4>2. F[n - 1] = SchemaOf(n - 1)
                BY <4>1
            <4>3. QED
                BY <3>2, <4>1, <4>2, ClimbStep DEF Climbs
        <3>3. QED
            BY <3>1, <3>2
    <2>2. QED
        BY <2>1
<1>2. Built = CHOOSE f : f = N(f)
    BY DEF Built
<1>. HIDE DEF N, F
<1>3. Built = N(Built)
    BY <1>1, <1>2, Zenon
<1>4. /\ Built[0] = SchemaOf(0)
      /\ \A n \in 1..Head : Built[n] = [Up(n, Built[n - 1]) EXCEPT !.rev = n]
    <2>1. ASSUME NEW n \in 0..Head
          PROVE  Built[n]
                   = IF n = 0 THEN Versioned(Blank) ELSE [Up(n, Built[n - 1]) EXCEPT !.rev = n]
        <3>. DEFINE e(m) == IF m = 0 THEN Versioned(Blank)
                            ELSE [Up(m, Built[m - 1]) EXCEPT !.rev = m]
        <3>1. Built = [m \in 0..Head |-> e(m)]
            BY <1>3, Zenon DEF N
        <3>. HIDE DEF e
        <3>2. Built[n] = e(n)
            BY <3>1
        <3>3. QED
            BY <3>2 DEF e
    <2>2. QED
        BY <2>1, BlankVersioned DEF Head
<1>5. \A n \in 1..Head : Built[n - 1] = SchemaOf(n - 1) => Built[n] = SchemaOf(n)
    BY <1>4, ClimbStep DEF Climbs
<1>. DEFINE reached(n) == Built[n] = SchemaOf(n)
<1>6. \A n \in 1..Head : reached(n - 1) => reached(n)
    BY <1>5
<1>7. reached(0)
    BY <1>4
<1>. HIDE DEF reached
<1>8. reached(1) /\ reached(2) /\ reached(3)
    BY <1>6, <1>7 DEF Head
<1>9. reached(4) /\ reached(5) /\ reached(6)
    BY <1>6, <1>8 DEF Head
<1>10. reached(7) /\ reached(8) /\ reached(9)
    BY <1>6, <1>9 DEF Head
<1>11. reached(10) /\ reached(11) /\ reached(12)
    BY <1>6, <1>10 DEF Head
<1>12. reached(r)
    BY <1>7, <1>8, <1>9, <1>10, <1>11 DEF Head
<1>13. QED
    BY <1>12 DEF reached

-----------------------------------------------------------------------------
(***************************************************************************)
(* The commands: whatever is committed or under way is a closed form.      *)
(***************************************************************************)

SchemaInv ==
    /\ db = Blank \/ \E r \in 0..Head : db = SchemaOf(r)
    /\ \/ goal = NoGoal /\ draft = Blank
       \/ goal \in 0..Head /\ \E r \in 0..Head : draft = SchemaOf(r)

LEMMA SchemaStep ==
    ASSUME SchemaInv, [Next]_vars
    PROVE  SchemaInv'
<1>1. ASSUME NEW target \in 0..Head, Begin(target)
      PROVE  SchemaInv'
    <2>1. \E r \in 0..Head : draft' = SchemaOf(r)
        <3>1. CASE db = Blank
            BY <1>1, <3>1, BlankVersioned DEF Begin, Head
        <3>2. CASE \E r \in 0..Head : db = SchemaOf(r)
            BY <1>1, <3>2, SchemaVersioned DEF Begin
        <3>3. QED
            BY <3>1, <3>2 DEF SchemaInv
    <2>2. QED
        BY <1>1, <2>1 DEF SchemaInv, Begin
<1>2. ASSUME Upgrade
      PROVE  SchemaInv'
    <2>1. goal \in 0..Head
        BY <1>2 DEF Upgrade, SchemaInv
    <2>2. PICK r \in 0..Head : draft = SchemaOf(r)
        BY <1>2 DEF Upgrade, SchemaInv
    <2>3. draft.rev = r /\ r + 1 \in 1..Head
        BY <1>2, <2>1, <2>2, SchemaShape DEF Upgrade, Head
    <2>4. draft' = SchemaOf(r + 1)
        <3>1. Climbs(r + 1)
            BY <2>3, ClimbStep
        <3>2. draft' = [Up(r + 1, SchemaOf(r)) EXCEPT !.rev = r + 1]
            BY <1>2, <2>2, <2>3 DEF Upgrade
        <3>3. (r + 1) - 1 = r
            OBVIOUS
        <3>4. QED
            BY <3>1, <3>2, <3>3 DEF Climbs
    <2>5. r + 1 \in 0..Head
        BY <2>3 DEF Head
    <2>6. QED
        BY <1>2, <2>1, <2>4, <2>5 DEF Upgrade, SchemaInv
<1>3. ASSUME Downgrade
      PROVE  SchemaInv'
    <2>1. goal # NoGoal
        BY <1>3, BlankShape DEF Downgrade, SchemaInv, NoGoal, Head
    <2>2. goal \in 0..Head
        BY <2>1 DEF SchemaInv
    <2>3. PICK r \in 0..Head : draft = SchemaOf(r)
        BY <2>1 DEF SchemaInv
    <2>4. draft.rev = r /\ r \in 1..Head /\ r - 1 \in 0..Head
        BY <1>3, <2>2, <2>3, SchemaShape DEF Downgrade, Head
    <2>5. draft' = SchemaOf(r - 1)
        BY <1>3, <2>3, <2>4, DescendStep DEF Downgrade, Descends
    <2>6. QED
        BY <1>3, <2>2, <2>4, <2>5 DEF Downgrade, SchemaInv
<1>4. ASSUME Commit
      PROVE  SchemaInv'
    BY <1>4 DEF Commit, SchemaInv
<1>5. ASSUME Abort
      PROVE  SchemaInv'
    BY <1>5 DEF Abort, SchemaInv
<1>6. CASE UNCHANGED vars
    BY <1>6 DEF vars, SchemaInv
<1>7. QED
    BY <1>1, <1>2, <1>3, <1>4, <1>5, <1>6 DEF Next

\* Every schema that is committed or under way is the closed form of its revision
\* (or the database before its first command).
THEOREM SchemaInvariant == Spec => []SchemaInv
<1>1. Init => SchemaInv
    BY DEF Init, SchemaInv
<1>2. SchemaInv /\ [Next]_vars => SchemaInv'
    BY SchemaStep
<1>3. QED
    BY <1>1, <1>2, PTL DEF Spec

\* Reversible: whatever upgrades, downgrades and aborted commands led to a revision,
\* the schema is the one that upgrades alone build.
THEOREM MigrationsReverse == Spec => []Reversible
<1>1. SchemaInv => Reversible
    <2>. SUFFICES ASSUME SchemaInv
                  PROVE  Reversible
        OBVIOUS
    <2>1. \A r \in 0..Head : SchemaOf(r) = Built[SchemaOf(r).rev]
        BY SchemaShape, BuiltIs
    <2>2. QED
        BY <2>1 DEF SchemaInv, Reversible
<1>2. QED
    BY <1>1, SchemaInvariant, PTL

\* NeverRaises: no migration asks for what PostgreSQL refuses in the schema it meets.
THEOREM MigrationsNeverRaise == Spec => []NeverRaises
<1>1. SchemaInv => NeverRaises
    BY SchemaShape, BlankShape DEF SchemaInv, NeverRaises
<1>2. QED
    BY <1>1, SchemaInvariant, PTL

LEMMA TenantTables ==
    ASSUME NEW r \in 6..12
    PROVE  IsolatedOf(r) = TablesOf(r) \ {"tenants", "api_keys", "alembic_version"}
<1>1. RlsTables = TablesOf(5) \ {"tenants", "api_keys", "alembic_version"}
    BY DEF RlsTables, TablesOf, Tables0001, Tables0002, Tables0003, Tables0004, Tables0005
<1>2. TablesOf(r) = TablesOf(5) \cup (IF r >= 8 THEN {"feature_snapshots"} ELSE {})
    BY DEF TablesOf
<1>3. QED
    BY <1>1, <1>2 DEF IsolatedOf

LEMMA ReportTables ==
    ASSUME NEW r \in 6..12, NEW t \in TablesOf(r)
    PROVE  <<Readonly, "SELECT", t, "*">> \in GrantsOf(r)
<1>1. t \in TablesOf(5) \/ (r >= 8 /\ t = "feature_snapshots")
    BY DEF TablesOf
<1>2. t \in TablesOf(5) => <<Readonly, "SELECT", t, "*">> \in Readonly0006
    BY DEF Readonly0006, Cells, All
<1>3. <<Readonly, "SELECT", "feature_snapshots", "*">> \in Grants0008
    BY DEF Grants0008, Cells, All
<1>4. QED
    BY <1>1, <1>2, <1>3 DEF GrantsOf

\* LaterTablesCovered: from 0006 on every tenant's table is under row-level security
\* and every table can be read for reports, the tables of later migrations included.
THEOREM TablesStayCovered == Spec => []LaterTablesCovered
<1>1. SchemaInv => LaterTablesCovered
    <2>. SUFFICES ASSUME SchemaInv, db.rev >= 6
                  PROVE  TenantTablesIsolated(db) /\ ReadonlyReadsAll(db)
        BY DEF LaterTablesCovered
    <2>1. PICK r \in 0..Head : db = SchemaOf(r)
        BY BlankShape DEF SchemaInv
    <2>2. r \in 6..12
        BY <2>1, SchemaShape DEF Head
    <2>3. /\ db.tables = TablesOf(r)
          /\ db.grants = GrantsOf(r)
          /\ db.isolated = IsolatedOf(r)
        BY <2>1, SchemaShape
    <2>4. QED
        BY <2>2, <2>3, TenantTables, ReportTables DEF TenantTablesIsolated, ReadonlyReadsAll
<1>2. QED
    BY <1>1, SchemaInvariant, PTL

LEMMA ReviewPrivileges ==
    ASSUME NEW r \in 0..Head, NEW g \in GrantsOf(r)
    PROVE  /\ (/\ g[2] = "UPDATE"
               /\ g[3] = "recommendations"
               /\ g[4] \in {"*", "reviewed_by", "reviewed_at", "review_note"}) => g[1] = Console
           /\ g[3] = "audit_log" => g[2] \in SelectInsert
<1>1. CASE g \in Readonly0006 \cup Worker0007 \cup Grants0008 \cup Worker0009
    BY <1>1 DEF Readonly0006, Worker0007, Grants0008, Worker0009, Cells, SelectInsert
<1>2. CASE g \in Worker0006
    BY <1>2 DEF Worker0006, Cells, WorkerTables, Tables0002, Tables0003, SelectInsert, All
<1>3. CASE g \in Console0006
    BY <1>3 DEF Console0006, Cells, SelectInsert
<1>4. CASE g \in Worker0010 \cup Worker0011
    BY <1>4 DEF Worker0010, Worker0011, Cells, SelectInsert
<1>5. QED
    BY <1>1, <1>2, <1>3, <1>4 DEF GrantsOf

\* ReviewIsConsole: in no revision, and after no sequence of commands, can another role
\* than the console's write the columns of a review, or anybody change an audit row.
THEOREM ReviewStaysWithConsole == Spec => []ReviewIsConsole
<1>1. SchemaInv => ReviewIsConsole
    <2>. SUFFICES ASSUME SchemaInv
                  PROVE  ReviewIsConsole
        OBVIOUS
    <2>1. db.grants = {} \/ \E r \in 0..Head : db.grants = GrantsOf(r)
        <3>1. CASE db = Blank
            BY <3>1, BlankShape
        <3>2. ASSUME NEW r \in 0..Head, db = SchemaOf(r)
              PROVE  db.grants = GrantsOf(r)
            BY <3>2, SchemaShape
        <3>. QED
            BY <3>1, <3>2 DEF SchemaInv
    <2>2. QED
        BY <2>1, ReviewPrivileges DEF ReviewIsConsole
<1>2. QED
    BY <1>1, SchemaInvariant, PTL

-----------------------------------------------------------------------------
(***************************************************************************)
(* What the services find at the last revision.                            *)
(***************************************************************************)

Served(role, needs) == \A need \in needs : Meets(SchemaOf(Head), role, need)

WorkerReads ==
    WorkerTables \cup {"recommendations", "feature_snapshots", "tenants", "event_type_mappings",
                      "incentives", "experiments", "audit_log"}
WorkerAdds ==
    WorkerTables \cup {"recommendations", "feature_snapshots", "experiments", "audit_log"}
ConsoleReads == ConsoleTables \cup {"feature_snapshots"}
ConsoleAdds == {"event_type_mappings", "incentives", "experiments", "pipeline_runs", "audit_log"}

Readable(role) == IF role = Worker THEN WorkerReads ELSE ConsoleReads
Addable(role) == IF role = Worker THEN WorkerAdds ELSE ConsoleAdds

LEMMA Apart == Worker # Console /\ "PART" # "SELECT" /\ "PART" # "INSERT" /\ "PART" # "UPDATE"
    BY DEF Worker, Console

LEMMA CanRead ==
    ASSUME NEW role \in {Worker, Console}, NEW t \in Readable(role)
    PROVE  <<role, "SELECT", t, "*">> \in GrantsOf(Head)
<1>1. CASE role = Worker
    <2>1. t \in WorkerReads
        BY <1>1 DEF Readable
    <2>2. CASE t \in WorkerTables
        BY <1>1, <2>2 DEF GrantsOf, Head, Worker0006, Cells, SelectInsert, All
    <2>3. CASE t = "recommendations"
        BY <1>1, <2>3 DEF GrantsOf, Head, Worker0007, Cells, All
    <2>4. CASE t = "feature_snapshots"
        BY <1>1, <2>4 DEF GrantsOf, Head, Grants0008, Cells, SelectInsert, All
    <2>5. CASE t \in {"tenants", "event_type_mappings", "incentives"}
        BY <1>1, <2>5 DEF GrantsOf, Head, Worker0009, Cells, All
    <2>6. CASE t \in {"experiments", "audit_log"}
        BY <1>1, <2>6 DEF GrantsOf, Head, Worker0011, Cells, SelectInsert, All
    <2>7. QED
        BY <2>1, <2>2, <2>3, <2>4, <2>5, <2>6 DEF WorkerReads
<1>2. CASE role = Console
    <2>1. t \in ConsoleReads
        BY <1>2, Apart DEF Readable
    <2>2. CASE t \in ConsoleTables
        BY <1>2, <2>2 DEF GrantsOf, Head, Console0006, Cells, All
    <2>3. CASE t = "feature_snapshots"
        BY <1>2, <2>3 DEF GrantsOf, Head, Grants0008, Cells, All
    <2>4. QED
        BY <2>1, <2>2, <2>3 DEF ConsoleReads
<1>3. QED
    BY <1>1, <1>2

LEMMA CanAdd ==
    ASSUME NEW role \in {Worker, Console}, NEW t \in Addable(role)
    PROVE  <<role, "INSERT", t, "*">> \in GrantsOf(Head)
<1>1. CASE role = Worker
    <2>1. t \in WorkerAdds
        BY <1>1 DEF Addable
    <2>2. CASE t \in WorkerTables
        BY <1>1, <2>2 DEF GrantsOf, Head, Worker0006, Cells, SelectInsert, All
    <2>3. CASE t = "recommendations"
        BY <1>1, <2>3 DEF GrantsOf, Head, Worker0006, Cells, All
    <2>4. CASE t = "feature_snapshots"
        BY <1>1, <2>4 DEF GrantsOf, Head, Grants0008, Cells, SelectInsert, All
    <2>5. CASE t \in {"experiments", "audit_log"}
        BY <1>1, <2>5 DEF GrantsOf, Head, Worker0011, Cells, SelectInsert, All
    <2>6. QED
        BY <2>1, <2>2, <2>3, <2>4, <2>5 DEF WorkerAdds
<1>2. CASE role = Console
    <2>1. t \in ConsoleAdds
        BY <1>2, Apart DEF Addable
    <2>2. QED
        BY <1>2, <2>1 DEF ConsoleAdds, GrantsOf, Head, Console0006, Cells, All
<1>3. QED
    BY <1>1, <1>2

\* Each form of need, and what serves it.
LEMMA ServedCell ==
    ASSUME NEW role, NEW privilege \in {"SELECT", "INSERT", "UPDATE"}, NEW t, NEW c,
           \/ <<role, privilege, t, "*">> \in GrantsOf(Head)
           \/ <<role, privilege, t, c>> \in GrantsOf(Head)
    PROVE  Meets(SchemaOf(Head), role, <<privilege, t, c>>)
    BY Apart DEF Meets, SchemaOf, Clean

LEMMA ServedReads ==
    ASSUME NEW role \in {Worker, Console}, NEW T, T \subseteq Readable(role)
    PROVE  Served(role, Reads(T))
<1>1. \A need \in Reads(T) : \E t \in T : need = <<"SELECT", t, "*">>
    BY DEF Reads, All
<1>2. \A t \in T : Meets(SchemaOf(Head), role, <<"SELECT", t, "*">>)
    BY CanRead, ServedCell
<1>3. QED
    BY <1>1, <1>2 DEF Served

LEMMA ServedAddsBlind ==
    ASSUME NEW role \in {Worker, Console}, NEW T, T \subseteq Addable(role)
    PROVE  Served(role, AddsBlind(T))
<1>1. \A need \in AddsBlind(T) : \E t \in T : need = <<"INSERT", t, "*">>
    BY DEF AddsBlind, All
<1>2. \A t \in T : Meets(SchemaOf(Head), role, <<"INSERT", t, "*">>)
    BY CanAdd, ServedCell
<1>3. QED
    BY <1>1, <1>2 DEF Served

LEMMA ServedBoth ==
    ASSUME NEW role, NEW A, NEW B, Served(role, A), Served(role, B)
    PROVE  Served(role, A \cup B)
    BY DEF Served

LEMMA ServedAdds ==
    ASSUME NEW role \in {Worker, Console}, NEW T, T \subseteq Readable(role),
           T \subseteq Addable(role)
    PROVE  Served(role, Adds(T))
<1>1. Adds(T) = Reads(T) \cup AddsBlind(T)
    BY DEF Adds, Reads, AddsBlind, SelectInsert
<1>2. QED
    BY <1>1, ServedReads, ServedAddsBlind, ServedBoth

LEMMA ServedWrites ==
    ASSUME NEW role \in {Worker, Console}, NEW t \in Readable(role), NEW columns,
           \A c \in columns : \/ <<role, "UPDATE", t, "*">> \in GrantsOf(Head)
                            \/ <<role, "UPDATE", t, c>> \in GrantsOf(Head)
    PROVE  Served(role, Writes(t, columns))
<1>1. \A need \in {"UPDATE"} \X {t} \X columns : \E c \in columns : need = <<"UPDATE", t, c>>
    OBVIOUS
<1>2. \A c \in columns : Meets(SchemaOf(Head), role, <<"UPDATE", t, c>>)
    BY ServedCell
<1>3. Served(role, {"UPDATE"} \X {t} \X columns)
    BY <1>1, <1>2 DEF Served
<1>4. Served(role, Reads({t}))
    BY ServedReads
<1>5. QED
    BY <1>3, <1>4, ServedBoth DEF Writes

LEMMA ServedPart ==
    ASSUME NEW role, NEW t, NEW names, \A x \in names : <<t, x>> \in PartsOf(Head)
    PROVE  Served(role, Part(t, names))
<1>1. \A need \in Part(t, names) : \E x \in names : need = <<"PART", t, x>>
    BY DEF Part
<1>2. SchemaOf(Head).parts = PartsOf(Head)
    BY DEF SchemaOf, Clean
<1>3. \A x \in names : Meets(SchemaOf(Head), role, <<"PART", t, x>>)
    BY <1>2 DEF Meets
<1>4. QED
    BY <1>1, <1>3 DEF Served

LEMMA ServedParts ==
    ASSUME NEW role
    PROVE  /\ Served(role, Part("raw_events", {"uq_raw_events_idempotency"}))
           /\ Served(role, Part("users", {"users_pkey"}))
           /\ Served(role, IncentiveColumns)
           /\ Served(role, Part("narrations", {"narrations_pkey"}))
           /\ Served(role, Part("experiment_assignments", {"experiment_assignments_pkey"}))
           /\ Served(role, Part("labeled_examples", {"uq_labeled_examples_dedupe"}))
           /\ Served(role, RunColumns)
<1>1. /\ <<"raw_events", "uq_raw_events_idempotency">> \in PartsOf(Head)
      /\ <<"users", "users_pkey">> \in PartsOf(Head)
      /\ \A x \in {"changes_credit_terms", "applicable_profile_types"} :
            <<"incentives", x>> \in PartsOf(Head)
      /\ <<"narrations", "narrations_pkey">> \in PartsOf(Head)
      /\ <<"experiment_assignments", "experiment_assignments_pkey">> \in PartsOf(Head)
      /\ <<"labeled_examples", "uq_labeled_examples_dedupe">> \in PartsOf(Head)
      /\ <<"pipeline_runs", "attempts">> \in PartsOf(Head)
    BY DEF PartsOf, Head, Parts0002, Parts0003, Parts0004, Parts0005, Incentives0008, Parts0012
<1>2. QED
    BY <1>1, ServedPart DEF IncentiveColumns, RunColumns

LEMMA WorkerMay ==
    /\ Worker \in {Worker, Console}
    /\ {"tenants", "event_type_mappings", "raw_events", "canonical_events", "users", "incentives",
        "external_signals", "risk_scores", "impact_scores", "transaction_circles", "contact_log",
        "policy_decisions", "allocation_runs", "narrations", "experiments",
        "experiment_assignments", "feature_snapshots", "outcome_events", "labeled_examples",
        "pipeline_runs", "recommendations", "audit_log"} \subseteq Readable(Worker)
    /\ {"raw_events", "canonical_events", "users", "external_signals", "risk_scores",
        "impact_scores", "transaction_circles", "circle_members", "policy_decisions",
        "allocation_runs", "allocation_candidates", "narrations", "experiments",
        "experiment_assignments", "outcome_events", "feature_snapshots", "labeled_examples",
        "recommendations", "audit_log"} \subseteq Addable(Worker)
    BY DEF Readable, Addable, WorkerReads, WorkerAdds, WorkerTables, Tables0002, Tables0003

LEMMA ConsoleMay ==
    /\ Console \in {Worker, Console}
    /\ {"tenants", "api_keys", "users", "risk_scores", "impact_scores", "canonical_events",
        "event_type_mappings", "incentives", "external_signals", "allocation_runs",
        "allocation_candidates", "experiments", "experiment_assignments", "outcome_events",
        "labeled_examples", "pipeline_runs", "audit_log", "recommendations"}
         \subseteq Readable(Console)
    /\ {"event_type_mappings", "pipeline_runs", "audit_log"} \subseteq Addable(Console)
    BY Apart DEF Readable, Addable, ConsoleReads, ConsoleAdds, ConsoleTables, Tables0001,
       Tables0002,
       Tables0003, Tables0004, Tables0005

LEMMA WritesServed ==
    /\ Served(Worker, Writes("raw_events", {"processed_at", "process_error"}))
    /\ Served(Worker, Writes("users", UserColumns))
    /\ Served(Worker, Writes("pipeline_runs", {"status", "started_at", "finished_at", "attempts",
                                              "stages", "error"}))
    /\ Served(Worker, Writes("recommendations", {"status", "delivered_at", "delivery_ref"}))
    /\ Served(Console, Writes("event_type_mappings",
                 {"canonical_event_type", "amount_field_path", "counterparty_field_path",
                  "occurred_at_field_path", "active"}))
    /\ Served(Console, Writes("recommendations", {"status", "reviewed_by", "reviewed_at",
                                                 "review_note"}))
<1>1. /\ \A t \in {"raw_events", "pipeline_runs"} : <<Worker, "UPDATE", t, "*">> \in Worker0006
      /\ \A c \in {"status", "delivered_at", "delivery_ref"} :
            <<Worker, "UPDATE", "recommendations", c>> \in Worker0006
    BY DEF Worker0006, Cells, All
<1>2. \A c \in UserColumns : <<Worker, "UPDATE", "users", c>> \in Worker0010
    BY DEF Worker0010, Cells
<1>3. /\ <<Console, "UPDATE", "event_type_mappings", "*">> \in Console0006
      /\ \A c \in {"status", "reviewed_by", "reviewed_at", "review_note"} :
            <<Console, "UPDATE", "recommendations", c>> \in Console0006
    BY DEF Console0006, Cells, All
<1>4. Worker0006 \cup Worker0010 \cup Console0006 \subseteq GrantsOf(Head)
    BY DEF GrantsOf, Head
<1>5. Served(Worker, Writes("raw_events", {"processed_at", "process_error"}))
    BY <1>1, <1>4, WorkerMay, ServedWrites
<1>6. Served(Worker, Writes("users", UserColumns))
    BY <1>2, <1>4, WorkerMay, ServedWrites
<1>7. Served(Worker, Writes("pipeline_runs", {"status", "started_at", "finished_at", "attempts",
                                              "stages", "error"}))
    BY <1>1, <1>4, WorkerMay, ServedWrites
<1>8. Served(Worker, Writes("recommendations", {"status", "delivered_at", "delivery_ref"}))
    BY <1>1, <1>4, WorkerMay, ServedWrites
<1>9. Served(Console, Writes("event_type_mappings",
               {"canonical_event_type", "amount_field_path", "counterparty_field_path",
                "occurred_at_field_path", "active"}))
    BY <1>3, <1>4, ConsoleMay, ServedWrites
<1>10. Served(Console, Writes("recommendations", {"status", "reviewed_by", "reviewed_at",
                                                 "review_note"}))
    BY <1>3, <1>4, ConsoleMay, ServedWrites
<1>11. QED
    BY <1>5, <1>6, <1>7, <1>8, <1>9, <1>10

LEMMA WorkerServed == Served(Worker, WorkerUses \cup IngestUses)
<1>1. Served(Worker, ListTenants)
    BY WorkerMay, ServedReads DEF ListTenants
<1>2. Served(Worker, ListMappings)
    BY WorkerMay, ServedReads DEF ListMappings
<1>3. Served(Worker, ClaimAndMark)
    BY WritesServed DEF ClaimAndMark
<1>4. Served(Worker, CanonicalEvents)
    BY WorkerMay, ServedReads, ServedAddsBlind, ServedBoth DEF CanonicalEvents
<1>5. Served(Worker, UpsertUser)
    BY WorkerMay, ServedAdds, WritesServed, ServedParts, ServedBoth DEF UpsertUser
<1>6. Served(Worker, ListIncentives)
    BY WorkerMay, ServedReads, ServedParts, ServedBoth DEF ListIncentives
<1>7. Served(Worker, InsertSignals)
    BY WorkerMay, ServedAdds DEF InsertSignals
<1>8. Served(Worker, WriteScores)
    BY WorkerMay, ServedAdds, ServedAddsBlind, ServedBoth DEF WriteScores
<1>9. Served(Worker, LoadContacts)
    BY WorkerMay, ServedReads DEF LoadContacts
<1>10. Served(Worker, WritePolicyDecisions)
    BY WorkerMay, ServedAdds DEF WritePolicyDecisions
<1>11. Served(Worker, WriteAllocation)
    BY WorkerMay, ServedAdds, ServedAddsBlind, ServedBoth DEF WriteAllocation
<1>12. Served(Worker, SaveNarration)
    BY WorkerMay, ServedAdds, ServedParts, ServedBoth DEF SaveNarration
<1>13. Served(Worker, GetOrCreateExperiment)
    BY WorkerMay, ServedAdds DEF GetOrCreateExperiment
<1>14. Served(Worker, RecordAssignment)
    BY WorkerMay, ServedAdds, ServedParts, ServedBoth DEF RecordAssignment
<1>15. Served(Worker, SaveSnapshots)
    BY WorkerMay, ServedAdds DEF SaveSnapshots
<1>16. Served(Worker, LoadOutcomes)
    BY WorkerMay, ServedReads DEF LoadOutcomes
<1>17. Served(Worker, InsertLabels)
    BY WorkerMay, ServedAdds, ServedParts, ServedBoth DEF InsertLabels
<1>18. Served(Worker, ReadLabels)
    BY WorkerMay, ServedReads DEF ReadLabels
<1>19. Served(Worker, AdvanceRun)
    BY WritesServed, ServedParts, ServedBoth DEF AdvanceRun
<1>20. Served(Worker, CreatePending)
    BY WorkerMay, ServedAdds DEF CreatePending
<1>21. Served(Worker, AppendAudit)
    BY WorkerMay, ServedAdds DEF AppendAudit
<1>22. Served(Worker, InsertRawEvent)
    BY WorkerMay, ServedAdds, ServedParts, ServedBoth DEF InsertRawEvent
<1>23. Served(Worker, RecordOutcome)
    BY WorkerMay, ServedReads, ServedAddsBlind, ServedBoth DEF RecordOutcome
<1>24. Served(Worker, ReadRecommendations)
    BY WorkerMay, ServedReads DEF ReadRecommendations
<1>25. Served(Worker, MarkDelivered)
    BY <1>21, WritesServed, ServedBoth DEF MarkDelivered
<1>26. \A need \in WorkerUses : Meets(SchemaOf(Head), Worker, need)
    BY <1>1, <1>2, <1>3, <1>4, <1>5, <1>6, <1>7, <1>8, <1>9, <1>10, <1>11, <1>12,
       <1>13, <1>14, <1>15, <1>16, <1>17, <1>18, <1>19, <1>20, <1>21 DEF Served, WorkerUses
<1>27. \A need \in IngestUses : Meets(SchemaOf(Head), Worker, need)
    BY <1>22, <1>23, <1>24, <1>25 DEF Served, IngestUses
<1>28. QED
    BY <1>26, <1>27 DEF Served

LEMMA ConsoleServed == Served(Console, ConsoleUses)
<1>1. Served(Console, ListTenants)
    BY ConsoleMay, ServedReads DEF ListTenants
<1>2. Served(Console, ResolveKey)
    BY ConsoleMay, ServedReads DEF ResolveKey
<1>3. Served(Console, ReadUsers)
    BY ConsoleMay, ServedReads DEF ReadUsers
<1>4. Served(Console, ReadSegments)
    BY ConsoleMay, ServedReads DEF ReadSegments
<1>5. Served(Console, ListMappings)
    BY ConsoleMay, ServedReads DEF ListMappings
<1>6. Served(Console, UpsertMapping)
    BY ConsoleMay, ServedAdds, WritesServed, ServedBoth DEF UpsertMapping
<1>7. Served(Console, ListIncentives)
    BY ConsoleMay, ServedReads, ServedParts, ServedBoth DEF ListIncentives
<1>8. Served(Console, ListSignals)
    BY ConsoleMay, ServedReads DEF ListSignals
<1>9. Served(Console, ReadAllocation)
    BY ConsoleMay, ServedReads DEF ReadAllocation
<1>10. Served(Console, ReadMeasurement)
    BY ConsoleMay, ServedReads DEF ReadMeasurement
<1>11. Served(Console, ReadLabels)
    BY ConsoleMay, ServedReads DEF ReadLabels
<1>12. Served(Console, CreateRun)
    BY ConsoleMay, ServedAdds, ServedParts, ServedBoth DEF CreateRun
<1>13. Served(Console, ReadRun)
    BY ConsoleMay, ServedReads, ServedParts, ServedBoth DEF ReadRun
<1>14. Served(Console, ReadAudit)
    BY ConsoleMay, ServedReads DEF ReadAudit
<1>15. Served(Console, ReadRecommendations)
    BY ConsoleMay, ServedReads DEF ReadRecommendations
<1>16. Served(Console, AppendAudit)
    BY ConsoleMay, ServedAdds DEF AppendAudit
<1>17. Served(Console, Review)
    BY <1>16, WritesServed, ServedBoth DEF Review
<1>18. QED
    BY <1>1, <1>2, <1>3, <1>4, <1>5, <1>6, <1>7, <1>8, <1>9, <1>10, <1>11, <1>12,
       <1>13, <1>14, <1>15, <1>17 DEF Served, ConsoleUses

\* HeadServes: at the last revision every transaction of the worker, the ingestion
\* routes and the console finds the privileges, columns and constraints it needs.
THEOREM ServicesAreServed == Spec => []HeadServes
<1>1. SchemaInv => HeadServes
    <2>. SUFFICES ASSUME SchemaInv, db.rev = Head, NEW role \in DOMAIN Uses, NEW need \in Uses[role]
                  PROVE  Meets(db, role, need)
        BY DEF HeadServes
    <2>1. db = SchemaOf(Head)
        BY SchemaShape, BlankShape DEF SchemaInv, Head
    <2>2. CASE role = Worker
        BY <2>1, <2>2, WorkerServed DEF Uses, Served
    <2>3. CASE role = Console
        BY <2>1, <2>3, Apart, ConsoleServed DEF Uses, Served
    <2>4. QED
        BY <2>2, <2>3 DEF Uses
<1>2. QED
    BY <1>1, SchemaInvariant, PTL

=============================================================================
