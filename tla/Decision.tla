------------------------------ MODULE Decision ------------------------------
(***************************************************************************)
(* The second half of a pipeline run: POLICY decides who may be offered    *)
(* what, users and circles are split into arms, the allocator and the      *)
(* naive baseline pick, EXPLAIN words each pick, PERSIST files             *)
(* recommendations, feature snapshots and audit rows.                      *)
(*                                                                         *)
(* Each save is a transaction of its own, and an execution may die between *)
(* any two of them.  The queue then executes the run again from the start, *)
(* with what the database holds by then; the rows of the execution before  *)
(* stay.  One tenant, its experiment, one worker replica.                  *)
(***************************************************************************)
EXTENDS Naturals, FiniteSets, Sequences

CONSTANTS
    User,          \* user pseudonyms
    Circle,        \* circle ids
    Members,       \* users in a circle, whose id is a hash of its members
    Offer,         \* individual incentives, numbered by (cost, code)
    GroupOffer,    \* group incentives
    Borrowing,     \* incentives that encourage borrowing
    CreditTerms,   \* incentives that change credit terms
    CapConfigured, \* both settings of the frequency cap are set
    CircleMin,     \* PIPELINE_CIRCLE_MIN_SIZE
    Split,         \* settings of MEASUREMENT_CONTROL_PCT and MEASUREMENT_NAIVE_PCT
    BucketMap,     \* what the HMAC may be: functions from units to buckets
    Situation,     \* what the stages before POLICY may find
    Text,          \* narrations of a fact sheet: the LLM's or the template's
    Run,           \* pipeline runs
    NoRun,         \* no run
    NoCode,        \* no incentive
    MaxAttempts    \* WORKER_MAX_RETRIES

Unit == User \cup Circle
Code == Offer \cup GroupOffer

\* users: users of the run; circles: its circles; available: the impact model has
\* rows enough; late: users with late repayments enough; capped: users contacted as
\* often as the cap allows; excluded: users in a segment that is not worth an
\* incentive; atRisk: users at or above the naive threshold.
Facts == [users : SUBSET User, circles : SUBSET Circle, available : BOOLEAN,
          late : SUBSET User, capped : SUBSET User, excluded : SUBSET User,
          atRisk : SUBSET User]

ASSUME DecisionAssumption ==
    /\ User \cap Circle = {}
    /\ Members \in [Circle -> SUBSET User]
    /\ Offer \subseteq Nat
    /\ Offer \cap GroupOffer = {}
    /\ CapConfigured \in BOOLEAN
    /\ CircleMin \in Nat
    /\ Split \subseteq [control : Nat, naive : Nat]
    /\ BucketMap \subseteq [Unit -> Nat]
    /\ Situation \subseteq Facts
    /\ NoRun \notin Run
    /\ NoCode \notin Code
    /\ MaxAttempts \in Nat

VARIABLES
    bucket,      \* the HMAC of each unit in the tenant's experiment
    split,       \* the percentages the worker was started with
    attempts,    \* executions of a run
    done,        \* runs whose last execution reached its end
    assignment,  \* experiment_assignments
    filed,       \* allocation_runs with their allocation_candidates
    narrations,  \* narrations, by fact sheet
    recs,        \* recommendations
    snaps,       \* feature_snapshots
    audited,     \* RECOMMENDATION_CREATED rows, one for each recommendation
    pc,          \* the next transaction of the execution
    run,         \* the run it executes
    found,       \* what it found
    arms,        \* arms it computed
    chosen,      \* items the allocator selected
    worded       \* picks with their text

dbVars   == <<attempts, done, assignment, filed, narrations, recs, snaps, audited>>
execVars == <<pc, run, found, arms, chosen, worded>>
vars == <<bucket, split, dbVars, execVars>>

NoArm == "NONE"
Arm == {"CONTROL", "NAIVE", "ENGINE"}

-----------------------------------------------------------------------------
(* POLICY and RANK.                                                        *)

\* Impact scores exist for every user of the run or for nobody.
Scored(s) == IF s.available THEN s.users ELSE {}

Individual(s) == {[user |-> u, offer |-> o, unit |-> u] : u \in Scored(s), o \in Offer}

BigCircles(s) == {g \in s.circles : Cardinality(Members[g] \cap Scored(s)) >= CircleMin}

Grouped(s) ==
    {c \in [user : Scored(s), offer : GroupOffer, unit : BigCircles(s)] : c.user \in Members[c.unit]}

Candidates(s) == Individual(s) \cup Grouped(s)

LendingDenies(s, c) == c.offer \in Borrowing /\ c.user \in s.late

CapDenies(s, c) == ~CapConfigured \/ c.user \in s.capped

HardDenied(s, c) == LendingDenies(s, c) \/ CapDenies(s, c) \/ c.offer \in CreditTerms

\* evaluate, with the segment rule.
Denied(s, c) == HardDenied(s, c) \/ c.user \in s.excluded

Bundle(s, c) == {m \in Candidates(s) : m.unit = c.unit /\ m.offer = c.offer}

\* Mutant: a denied member does not deny its bundle.
DeniedAlone(s) == {c \in Candidates(s) : Denied(s, c)}

\* A candidate is excluded with its own denial or with that of a bundle member.
Exclusions(s) == {c \in Candidates(s) : \E m \in Bundle(s, c) : Denied(s, m)}

Ranked(s) == Candidates(s) \ Exclusions(s)

-----------------------------------------------------------------------------
(* ALLOCATE.                                                               *)

\* assign_arm.
ArmOf(u) ==
    IF bucket[u] < split.control THEN "CONTROL"
    ELSE IF bucket[u] < split.control + split.naive THEN "NAIVE" ELSE "ENGINE"

Assigned(s) == s.users \cup {c.unit : c \in Candidates(s)}

Engine(s, a) == {c \in Ranked(s) : a[c.unit] = "ENGINE"}

\* The allocator's items, a single candidate or a bundle, by unit and code.
Items(s, a) == {[unit |-> c.unit, offer |-> c.offer] : c \in Engine(s, a)}

\* What the allocator may return, by the budget: at most one item for each unit.
Allocations(s, a) == {S \in SUBSET Items(s, a) : \A i, j \in S : i.unit = j.unit => i = j}

MembersOf(s, a, i) == {c.user : c \in {e \in Engine(s, a) : e.unit = i.unit /\ e.offer = i.offer}}

EnginePicks(s, a, S) ==
    {[arm |-> "ENGINE", unit |-> i.unit, offer |-> i.offer, members |-> MembersOf(s, a, i)] : i \in S}

NaiveUsers(s, a) == {u \in Scored(s) : a[u] = "NAIVE" /\ u \in s.atRisk}

\* Mutant: the naive arm is not subject to the hard rules.
AnyOffer(s, u) == Offer

\* The hard rules without the segment rule.
NaiveAllowed(s, u) == {o \in Offer : ~HardDenied(s, [user |-> u, offer |-> o])}

\* An allowed offer that comes first in the order of (cost, code).
IsNaiveOffer(s, u, o) == o \in NaiveAllowed(s, u) /\ \A p \in NaiveAllowed(s, u) : o <= p

NaivePicks(s, a) ==
    {[arm |-> "NAIVE", unit |-> c.unit, offer |-> c.offer, members |-> {c.user}] :
        c \in {i \in Individual(s) : i.user \in NaiveUsers(s, a) /\ IsNaiveOffer(s, i.user, i.offer)}}

Picks(s, a, S) == EnginePicks(s, a, S) \cup NaivePicks(s, a)

PolicyRows(s, a) == {<<c, "POLICY">> : c \in {e \in Exclusions(s) : a[e.unit] # "NAIVE"}}

\* Mutant: circles in CONTROL are not filed.
UsersHeldOut(s, a) ==
    {<<c, "CONTROL_HOLDOUT">> : c \in {r \in Ranked(s) : a[r.unit] = "CONTROL" /\ r.unit \in User}}

HoldoutRows(s, a) == {<<c, "CONTROL_HOLDOUT">> : c \in {r \in Ranked(s) : a[r.unit] = "CONTROL"}}

AllocatorRows(s, a, S) ==
    {<<c, IF [unit |-> c.unit, offer |-> c.offer] \in S THEN "SELECTED" ELSE "NOT_SELECTED">> :
        c \in Engine(s, a)}

NaiveReason(s, c) ==
    IF c.unit \in Circle THEN "NAIVE_NOT_CHOSEN"
    ELSE IF c.user \notin s.atRisk THEN "NAIVE_BELOW_THRESHOLD"
    ELSE IF HardDenied(s, c) THEN "POLICY" ELSE "NAIVE_NOT_CHOSEN"

NaivePicked(s, c) == c \in Individual(s) /\ c.user \in s.atRisk /\ IsNaiveOffer(s, c.user, c.offer)

\* The candidate of a naive pick gets no row.
NaiveRows(s, a) ==
    {<<c, NaiveReason(s, c)>> : c \in {n \in Candidates(s) : a[n.unit] = "NAIVE" /\ ~NaivePicked(s, n)}}

Rows(s, a, S) ==
    PolicyRows(s, a) \cup HoldoutRows(s, a) \cup AllocatorRows(s, a, S) \cup NaiveRows(s, a)

-----------------------------------------------------------------------------
(* The execution of a run.                                                 *)

NoFacts == [users |-> {}, circles |-> {}, available |-> FALSE, late |-> {}, capped |-> {},
            excluded |-> {}, atRisk |-> {}]

Item == [unit : Unit, offer : Code]
Pick == [arm : Arm, unit : Unit, offer : Code, members : SUBSET User]

Candidate == [user : User, offer : Code, unit : Unit]
Reason == {"POLICY", "CONTROL_HOLDOUT", "SELECTED", "NOT_SELECTED",
           "NAIVE_NOT_CHOSEN", "NAIVE_BELOW_THRESHOLD"}

Arms == [Unit -> Arm \cup {NoArm}]

\* An allocation run and its candidates; found and arms stand for the columns that
\* policy_decisions and allocation_candidates keep of them.
Filing == [run : Run, found : Facts, arms : Arms, chosen : SUBSET Item,
           rows : SUBSET (Candidate \X Reason)]

TypeOK ==
    /\ bucket \in BucketMap
    /\ split \in Split
    /\ attempts \in [Run -> 0..MaxAttempts]
    /\ done \subseteq Run
    /\ assignment \in Arms
    /\ filed \in Seq(Filing)
    /\ pc \in {"idle", "arms", "allocate", "explain", "snapshot", "audit"}
    /\ run \in Run \cup {NoRun}
    /\ found \in Facts
    /\ arms \in Arms
    /\ chosen \subseteq Item
    /\ \A w \in worded : w.pick \in Pick
    /\ \A r \in recs : r.alloc \in DOMAIN filed /\ r.pick \in Pick
    /\ audited \subseteq recs

Forget ==
    /\ pc' = "idle"
    /\ run' = NoRun
    /\ found' = NoFacts
    /\ arms' = [u \in Unit |-> NoArm]
    /\ chosen' = {}
    /\ worded' = {}

Init ==
    /\ bucket \in BucketMap
    /\ split \in Split
    /\ attempts = [r \in Run |-> 0]
    /\ done = {}
    /\ assignment = [u \in Unit |-> NoArm]
    /\ filed = <<>>
    /\ narrations = {}
    /\ recs = {}
    /\ snaps = {}
    /\ audited = {}
    /\ pc = "idle"
    /\ run = NoRun
    /\ found = NoFacts
    /\ arms = [u \in Unit |-> NoArm]
    /\ chosen = {}
    /\ worded = {}

\* The worker claims the run and gets as far as RANK.
Begin(r) ==
    /\ pc = "idle"
    /\ r \notin done
    /\ attempts[r] < MaxAttempts
    /\ attempts' = [attempts EXCEPT ![r] = @ + 1]
    /\ pc' = "arms"
    /\ run' = r
    /\ found' \in Situation
    /\ UNCHANGED <<bucket, split, done, assignment, filed, narrations, recs, snaps, audited,
                   arms, chosen, worded>>

\* save_arm_assignments keeps what is stored for a unit.
AssignArms ==
    /\ pc = "arms"
    /\ arms' = [u \in Unit |-> IF u \in Assigned(found) THEN ArmOf(u) ELSE NoArm]
    /\ assignment' = [u \in Unit |-> IF assignment[u] = NoArm THEN arms'[u] ELSE assignment[u]]
    /\ pc' = "allocate"
    /\ UNCHANGED <<bucket, split, attempts, done, filed, narrations, recs, snaps, audited,
                   run, found, chosen, worded>>

\* save_allocation: the run's row and those of its candidates in one transaction.
Allocate ==
    /\ pc = "allocate"
    /\ \E S \in Allocations(found, arms) :
        /\ chosen' = S
        /\ filed' = Append(filed, [run |-> run, found |-> found, arms |-> arms, chosen |-> S,
                                   rows |-> Rows(found, arms, S)])
    /\ pc' = "explain"
    /\ UNCHANGED <<bucket, split, attempts, done, assignment, narrations, recs, snaps, audited,
                   run, found, arms, worded>>

\* The hash of the fact sheet of a pick.
Digest(p) == [run |-> run, pick |-> p, found |-> found, arms |-> arms, chosen |-> chosen]

IsStored(d) == \E n \in narrations : n.digest = d

\* save_narration keeps what is stored for a fact sheet.
Keep(d, t) == IF IsStored(d) THEN {} ELSE {[digest |-> d, text |-> t]}

\* EXPLAIN words the picks in one fixed order.
ToWord == {p \in Picks(found, arms, chosen) : \A w \in worded : w.pick # p}

Narrate(t) ==
    /\ pc = "explain"
    /\ ToWord # {}
    /\ LET p == CHOOSE q \in ToWord : TRUE
       IN  /\ worded' = worded \cup {[pick |-> p, text |-> t]}
           /\ narrations' = narrations \cup Keep(Digest(p), t)
    /\ UNCHANGED <<bucket, split, attempts, done, assignment, filed, recs, snaps, audited,
                   pc, run, found, arms, chosen>>

Rec(w) == [alloc |-> Len(filed), pick |-> w.pick, text |-> w.text, digest |-> Digest(w.pick)]

\* create_recommendations: all of them in one transaction.
CreateRecs ==
    /\ pc = "explain"
    /\ ToWord = {}
    /\ recs' = recs \cup {Rec(w) : w \in worded}
    /\ pc' = "snapshot"
    /\ UNCHANGED <<bucket, split, attempts, done, assignment, filed, narrations, snaps, audited,
                   run, found, arms, chosen, worded>>

\* The offers of the picks that include a user; one of them gets into the snapshot.
OffersOf(u) ==
    LET mine == {p \in Picks(found, arms, chosen) : u \in p.members}
    IN  IF mine = {} THEN {NoCode} ELSE {p.offer : p \in mine}

HasSnapshot(r, u) == \E x \in snaps : x.run = r /\ x.user = u

\* Mutant: the snapshots are saved before the recommendations.
SnapshotsFirst ==
    /\ pc = "explain"
    /\ \A u \in found.users : ~HasSnapshot(run, u)
    /\ \E offer \in [found.users -> Code \cup {NoCode}] :
        /\ \A u \in found.users : offer[u] \in OffersOf(u)
        /\ snaps' = snaps \cup {[run |-> run, user |-> u, alloc |-> Len(filed), offer |-> offer[u]] :
                                   u \in found.users}
    /\ UNCHANGED <<bucket, split, attempts, done, assignment, filed, narrations, recs, audited, execVars>>

\* Mutant: a user who has a snapshot of the run keeps it.
KeepSnapshots ==
    /\ pc = "snapshot"
    /\ \E offer \in [found.users -> Code \cup {NoCode}] :
        /\ \A u \in found.users : offer[u] \in OffersOf(u)
        /\ snaps' = snaps \cup {[run |-> run, user |-> u, alloc |-> Len(filed), offer |-> offer[u]] :
                                   u \in {v \in found.users : ~HasSnapshot(run, v)}}
    /\ pc' = "audit"
    /\ UNCHANGED <<bucket, split, attempts, done, assignment, filed, narrations, recs, audited,
                   run, found, arms, chosen, worded>>

\* save_feature_snapshots: all of them in one transaction, which fails if a user
\* has a snapshot of the run.
SaveSnapshots ==
    /\ pc = "snapshot"
    /\ \A u \in found.users : ~HasSnapshot(run, u)
    /\ \E offer \in [found.users -> Code \cup {NoCode}] :
        /\ \A u \in found.users : offer[u] \in OffersOf(u)
        /\ snaps' = snaps \cup {[run |-> run, user |-> u, alloc |-> Len(filed), offer |-> offer[u]] :
                                   u \in found.users}
    /\ pc' = "audit"
    /\ UNCHANGED <<bucket, split, attempts, done, assignment, filed, narrations, recs, audited,
                   run, found, arms, chosen, worded>>

\* append_audit, a transaction for each recommendation of the execution.
Audit ==
    /\ pc = "audit"
    /\ \E r \in recs \ audited : r.alloc = Len(filed) /\ audited' = audited \cup {r}
    /\ UNCHANGED <<bucket, split, attempts, done, assignment, filed, narrations, recs, snaps, execVars>>

\* The run succeeds.
Finish ==
    /\ pc = "audit"
    /\ \A r \in recs : r.alloc = Len(filed) => r \in audited
    /\ done' = done \cup {run}
    /\ Forget
    /\ UNCHANGED <<bucket, split, attempts, assignment, filed, narrations, recs, snaps, audited>>

\* A stage raises or the worker dies; what was committed stays.
Fail ==
    /\ pc # "idle"
    /\ Forget
    /\ UNCHANGED <<bucket, split, dbVars>>

\* The worker is started with other percentages; the experiment goes on.
Reconfigure ==
    /\ pc = "idle"
    /\ split' \in Split \ {split}
    /\ UNCHANGED <<bucket, dbVars, execVars>>

Next ==
    \/ \E r \in Run : Begin(r)
    \/ AssignArms
    \/ Allocate
    \/ \E t \in Text : Narrate(t)
    \/ CreateRecs
    \/ SaveSnapshots
    \/ Audit
    \/ Finish
    \/ Fail
    \/ Reconfigure

Spec == Init /\ [][Next]_vars

-----------------------------------------------------------------------------
(* What the rules promise of every recommendation that was ever filed.     *)

\* What the execution that filed a recommendation had found, and its arms.
FoundBy(r) == filed[r.alloc].found
ArmsOf(r)  == filed[r.alloc].arms

\* No member of a recommendation, those of naive picks and of bundles included, is one
\* whom a hard rule denied the incentive in the execution that filed it ("These are
\* guarantees, not predictions": policy_guard/rules.py).
HardRulesHold ==
    \A r \in recs :
        /\ CapConfigured
        /\ r.pick.offer \notin CreditTerms
        /\ r.pick.members \cap FoundBy(r).capped = {}
        /\ r.pick.offer \in Borrowing => r.pick.members \cap FoundBy(r).late = {}

\* A recommendation to a circle reaches all scored members, none of whom the policy
\* denied, or is not made (the bundle loop of _policy, bundle_group).
BundleWhole ==
    \A r \in recs : r.pick.unit \in Circle =>
        /\ r.pick.members = Members[r.pick.unit] \cap Scored(FoundBy(r))
        /\ Cardinality(r.pick.members) >= CircleMin
        /\ r.pick.members \cap FoundBy(r).excluded = {}

\* The arms divide what is filed: a recommendation is of its unit's arm, and none is
\* of a unit in CONTROL, whose ranked candidates are all filed as held out.
HoldoutKept ==
    /\ \A r \in recs : r.pick.arm = ArmsOf(r)[r.pick.unit] /\ r.pick.arm # "CONTROL"
    /\ \A n \in DOMAIN filed : \A c \in Ranked(filed[n].found) :
          filed[n].arms[c.unit] = "CONTROL" => <<c, "CONTROL_HOLDOUT">> \in filed[n].rows

\* A candidate is filed with one reason, whichever of policy, holdout, allocator and
\* baseline gives it, and only a naive pick has none (_allocate and _naive_arm share
\* the bookkeeping).
OneReason ==
    \A n \in DOMAIN filed : \A c \in Candidates(filed[n].found) :
        LET rows == {w \in filed[n].rows : w[1] = c}
        IN  /\ \A v, w \in rows : v = w
            /\ rows = {} => \E p \in NaivePicks(filed[n].found, filed[n].arms) :
                               p.unit = c.unit /\ p.offer = c.offer

\* An execution recommends one incentive to a unit, and one of its candidates was
\* selected by the allocator or picked by the baseline (the sibling rule of the review
\* gate counts on it).
OnePerUnit ==
    \A r, q \in recs : r.alloc = q.alloc /\ r.pick.unit = q.pick.unit => r = q

\* What is committed piece by piece fits together: an incentive in a snapshot, from
\* which a labelled example is made, is one that the same execution recommended to
\* the user, and a snapshot without one is of a user it recommended nothing to.
SnapshotsTruthful ==
    \A x \in snaps :
        LET mine == {r \in recs : r.alloc = x.alloc /\ x.user \in r.pick.members}
        IN  IF x.offer = NoCode THEN mine = {} ELSE \E r \in mine : r.pick.offer = x.offer

\* A run that succeeded is complete, though executions before it may have died
\* anywhere: its users' snapshots are of one execution, whose picks are all
\* recommended and audited.
SuccessIsWhole ==
    \A r \in done : \E n \in DOMAIN filed :
        /\ filed[n].run = r
        /\ \A u \in filed[n].found.users : \E x \in snaps : x.run = r /\ x.user = u /\ x.alloc = n
        /\ \A p \in Picks(filed[n].found, filed[n].arms, filed[n].chosen) :
              \E q \in audited : q.alloc = n /\ q.pick = p

\* A user has one snapshot in a run, whatever is executed again (the unique key of
\* migration 0008).
OneSnapshot == \A x, y \in snaps : x.run = y.run /\ x.user = y.user => x = y

\* A fact sheet keeps its first narration, and each recommendation's is stored.
FirstTextKept ==
    /\ \A n, m \in narrations : n.digest = m.digest => n = m
    /\ \A r \in recs : \E n \in narrations : n.digest = r.digest

\* "A user's arm never changes within an experiment" (assignment.py): the arm of a
\* recommendation is the one stored for its unit.
ArmKept == \A r \in recs : r.pick.arm = assignment[r.pick.unit]

\* "CONTROL: randomly withheld from otherwise-qualifying candidates" (README of the
\* measurement package): nobody in CONTROL is a member of a recommendation.
ControlWithheld == \A r \in recs : \A m \in r.pick.members : ArmsOf(r)[m] # "CONTROL"

\* "Guarantees identical narration text on re-run of the same fact sheet"
\* (narrations.py): recommendations with one fact sheet have the stored text.
TextAsStored ==
    \A r \in recs : \A n \in narrations : n.digest = r.digest => n.text = r.text

\* "Every at-risk NAIVE user gets the cheapest individual incentive the hard rules
\* allow. No impact model" (_naive_arm): an execution picks something for them.
NaiveServed ==
    \A n \in DOMAIN filed : \A u \in filed[n].found.users \cap filed[n].found.atRisk :
        /\ filed[n].arms[u] = "NAIVE"
        /\ NaiveAllowed(filed[n].found, u) # {}
        => \E p \in NaivePicks(filed[n].found, filed[n].arms) : p.unit = u
=============================================================================
