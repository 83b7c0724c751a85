------------------------------ MODULE Feedback ------------------------------
(***************************************************************************)
(* The feedback loop: a run splits users into arms and files a snapshot of *)
(* what it knew of each; the client reports outcomes against the           *)
(* experiment; the FEEDBACK stage of a later run joins an outcome with its *)
(* user's arm and snapshot into a labelled example, and the models of that *)
(* run read all examples as their context.                                 *)
(*                                                                         *)
(* Each read and each write is a transaction, load_outcomes is two         *)
(* statements that each see what is committed by then, and replicas        *)
(* execute runs, or the same run after a stale claim, at the same time.    *)
(* One tenant; the settings of the split stay.                             *)
(***************************************************************************)
EXTENDS Naturals, FiniteSets, Sequences

CONSTANTS
    User,          \* user pseudonyms
    Run,           \* pipeline runs
    NoRun,         \* no run
    Replica,       \* worker replicas
    Report,        \* client_outcome_id: what the client calls an outcome
    ArmOf,         \* the arm of a user in an experiment, by HMAC
    MaxOutcomes,   \* bound: outcome rows
    MaxExecutions  \* bound: executions of all runs

Arm == {"CONTROL", "NAIVE", "ENGINE"}

\* Experiments are numbered by started_at; an execution creates one at most.
Experiment == 1..MaxExecutions

ASSUME FeedbackAssumption ==
    /\ NoRun \notin Run
    /\ IsFiniteSet(Replica)
    /\ MaxOutcomes \in Nat
    /\ MaxExecutions \in Nat
    /\ ArmOf \in [Experiment -> [User -> Arm]]

VARIABLES
    experiments, \* experiments: those committed
    begun,       \* creations begun so far
    assigned,    \* experiment_assignments: pairs of an experiment and a user
    outcomes,    \* outcome_events, in the order they came
    filed,       \* feature_snapshots: for each filing, its run and its users
    labels,      \* labeled_examples
    done,        \* runs that are finished
    executions,  \* executions begun so far
    pc,          \* the next transaction of a replica's execution
    run,         \* the run it executes
    users,       \* the users in its window
    exp,         \* the experiment it looked up
    joined,      \* the outcomes it loaded
    latest,      \* the latest snapshot of each user, by run
    known,       \* the outcomes it found labelled
    context,     \* the examples its models read
    due          \* history: outcomes that could be labelled when it began

loopVars  == <<experiments, begun, assigned, outcomes, filed, labels, done>>
localVars == <<pc, run, users, exp, joined, latest, known, context, due>>
vars == <<loopVars, executions, localVars>>

Step == {"idle", "outcomes", "latest", "labels", "save", "context", "lookup",
         "create", "arms", "file", "finish"}

\* seen: history, the snapshots of the user that were filed before the report.
Outcome == [exp : Experiment, user : User, kept : BOOLEAN, report : Report, seen : SUBSET Run]

\* by: history, who inserted the row, to tell rows of one outcome apart.
Label == [outcome : Nat, user : User, run : Run, arm : Arm, kept : BOOLEAN, by : Replica]

SetMax(S) == CHOOSE n \in S : \A m \in S : m <= n

-----------------------------------------------------------------------------
(* What the statements read.                                               *)

\* Mutant: the experiment does not matter to the join.
JoinedByUser ==
    {o \in DOMAIN outcomes : \E e \in experiments : <<e, outcomes[o].user>> \in assigned}

\* An outcome joins the assignment of its user in its own experiment.
Joined == {o \in DOMAIN outcomes : <<outcomes[o].exp, outcomes[o].user>> \in assigned}

Filings(u) == {i \in DOMAIN filed : u \in filed[i].users}

\* Mutant: only the last run is searched.
LatestOfLast ==
    [u \in User |-> IF filed # <<>> /\ u \in filed[Len(filed)].users
                    THEN filed[Len(filed)].run ELSE NoRun]

Latest == [u \in User |-> IF Filings(u) = {} THEN NoRun ELSE filed[SetMax(Filings(u))].run]

HasSnapshot(r, u) == \E i \in Filings(u) : filed[i].run = r

Example(w, o) ==
    [outcome |-> o, user |-> outcomes[o].user, run |-> latest[w][outcomes[o].user],
     arm |-> ArmOf[outcomes[o].exp][outcomes[o].user], kept |-> outcomes[o].kept, by |-> w]

\* to_labeled_examples: an outcome that is labelled or has no snapshot is skipped.
Unlabelled(w) ==
    {o \in joined[w] \ known[w] : HasSnapshot(latest[w][outcomes[o].user], outcomes[o].user)}

\* Mutant: the arm is that of the experiment that is active now.
NewExamplesActiveArm(w) ==
    {[Example(w, o) EXCEPT !.arm = ArmOf[SetMax(experiments)][outcomes[o].user]] : o \in Unlabelled(w)}

NewExamples(w) == {Example(w, o) : o \in Unlabelled(w)}

LabelledIn(S) == {l.outcome : l \in S}

\* Mutant: no unique constraint.
InsertAll(rows) == labels \cup rows

\* Mutant: ON CONFLICT DO UPDATE.
InsertOver(rows) == {l \in labels : l.outcome \notin LabelledIn(rows)} \cup rows

\* ON CONFLICT (tenant_id, source_outcome_id) DO NOTHING.
Insert(rows) == labels \cup {l \in rows : l.outcome \notin LabelledIn(labels)}

\* What could be labelled now.
Labelable == {o \in Joined : Filings(outcomes[o].user) # {}}

-----------------------------------------------------------------------------
(* One execution of a run.                                                 *)

Init ==
    /\ experiments = {} /\ begun = 0 /\ assigned = {} /\ outcomes = <<>>
    /\ filed = <<>> /\ labels = {} /\ done = {} /\ executions = 0
    /\ pc = [w \in Replica |-> "idle"]
    /\ run = [w \in Replica |-> NoRun]
    /\ users = [w \in Replica |-> {}]
    /\ exp = [w \in Replica |-> 0]
    /\ joined = [w \in Replica |-> {}]
    /\ latest = [w \in Replica |-> [u \in User |-> NoRun]]
    /\ known = [w \in Replica |-> {}]
    /\ context = [w \in Replica |-> {}]
    /\ due = [w \in Replica |-> {}]

Goto(w, step) == pc' = [pc EXCEPT ![w] = step]

\* Bound: there is somebody in its window.
Start(w, r, U) ==
    /\ pc[w] = "idle" /\ r \notin done /\ executions < MaxExecutions
    /\ executions' = executions + 1
    /\ Goto(w, "outcomes")
    /\ run' = [run EXCEPT ![w] = r]
    /\ users' = [users EXCEPT ![w] = U]
    /\ due' = [due EXCEPT ![w] = Labelable]
    /\ UNCHANGED <<loopVars, exp, joined, latest, known, context>>

ReadOutcomes(w) ==
    /\ pc[w] = "outcomes"
    /\ Goto(w, "latest")
    /\ joined' = [joined EXCEPT ![w] = Joined]
    /\ UNCHANGED <<loopVars, executions, run, users, exp, latest, known, context, due>>

ReadLatest(w) ==
    /\ pc[w] = "latest"
    /\ Goto(w, "labels")
    /\ latest' = [latest EXCEPT ![w] = Latest]
    /\ UNCHANGED <<loopVars, executions, run, users, exp, joined, known, context, due>>

ReadLabels(w) ==
    /\ pc[w] = "labels"
    /\ Goto(w, "save")
    /\ known' = [known EXCEPT ![w] = LabelledIn(labels)]
    /\ UNCHANGED <<loopVars, executions, run, users, exp, joined, latest, context, due>>

\* With the read of the snapshots before it: a snapshot that was found is never lost.
\* FEEDBACK_USE_IN_CONTEXT is on, otherwise nothing is saved.
SaveLabels(w) ==
    /\ pc[w] = "save"
    /\ Goto(w, "context")
    /\ labels' = Insert(NewExamples(w))
    /\ joined' = [joined EXCEPT ![w] = {}]
    /\ latest' = [latest EXCEPT ![w] = [u \in User |-> NoRun]]
    /\ known' = [known EXCEPT ![w] = {}]
    /\ UNCHANGED <<experiments, begun, assigned, outcomes, filed, done, executions, run, users, exp,
                   context, due>>

\* RISK reads the examples; IMPACT and RANK use the same ones.
ReadContext(w) ==
    /\ pc[w] = "context"
    /\ Goto(w, "lookup")
    /\ context' = [context EXCEPT ![w] = labels]
    /\ UNCHANGED <<loopVars, executions, run, users, exp, joined, latest, known, due>>

\* Mutant: a new experiment for each execution.
LookUpNothing(w) ==
    /\ pc[w] = "lookup" /\ begun < MaxExecutions
    /\ context' = [context EXCEPT ![w] = {}]
    /\ due' = [due EXCEPT ![w] = {}]
    /\ exp' = [exp EXCEPT ![w] = begun + 1]
    /\ Goto(w, "create")
    /\ begun' = begun + 1
    /\ UNCHANGED <<experiments, assigned, outcomes, filed, labels, done, executions, run, users,
                   joined, latest, known>>

\* Nothing says that another replica is about to create it, too.
LookUp(w) ==
    /\ pc[w] = "lookup"
    /\ context' = [context EXCEPT ![w] = {}]
    /\ due' = [due EXCEPT ![w] = {}]
    /\ IF experiments # {}
       THEN /\ exp' = [exp EXCEPT ![w] = SetMax(experiments)]
            /\ Goto(w, "arms")
            /\ begun' = begun
       ELSE /\ begun < MaxExecutions
            /\ exp' = [exp EXCEPT ![w] = begun + 1]
            /\ Goto(w, "create")
            /\ begun' = begun + 1
    /\ UNCHANGED <<experiments, assigned, outcomes, filed, labels, done, executions, run, users,
                   joined, latest, known>>

Create(w) ==
    /\ pc[w] = "create"
    /\ Goto(w, "arms")
    /\ experiments' = experiments \cup {exp[w]}
    /\ UNCHANGED <<begun, assigned, outcomes, filed, labels, done, executions, run, users, exp,
                   joined, latest, known, context, due>>

SaveArms(w) ==
    /\ pc[w] = "arms"
    /\ Goto(w, "file")
    /\ assigned' = assigned \cup ({exp[w]} \X users[w])
    /\ UNCHANGED <<experiments, begun, outcomes, filed, labels, done, executions, run, users, exp,
                   joined, latest, known, context, due>>

\* uq_feature_snapshots_run_user: the rows go in together or the stage fails.
FileSnapshots(w) ==
    /\ pc[w] = "file"
    /\ \A u \in users[w] : ~HasSnapshot(run[w], u)
    /\ Goto(w, "finish")
    /\ filed' = Append(filed, [run |-> run[w], users |-> users[w]])
    /\ UNCHANGED <<experiments, begun, assigned, outcomes, labels, done, executions, run, users,
                   exp, joined, latest, known, context, due>>

\* The execution is over; its memory is gone.
Leave(w) ==
    /\ Goto(w, "idle")
    /\ run' = [run EXCEPT ![w] = NoRun]
    /\ users' = [users EXCEPT ![w] = {}]
    /\ exp' = [exp EXCEPT ![w] = 0]
    /\ joined' = [joined EXCEPT ![w] = {}]
    /\ latest' = [latest EXCEPT ![w] = [u \in User |-> NoRun]]
    /\ known' = [known EXCEPT ![w] = {}]
    /\ context' = [context EXCEPT ![w] = {}]
    /\ due' = [due EXCEPT ![w] = {}]

Finish(w) ==
    /\ pc[w] = "finish"
    /\ Leave(w)
    /\ done' = done \cup {run[w]}
    /\ UNCHANGED <<experiments, begun, assigned, outcomes, filed, labels, executions>>

\* A stage raises or the worker dies, anywhere; the run is executed again.
Fail(w) ==
    /\ pc[w] # "idle"
    /\ Leave(w)
    /\ UNCHANGED <<loopVars, executions>>

-----------------------------------------------------------------------------
(* The client.                                                             *)

\* Only an experiment that exists: any other is a 404.  The user is not checked, and
\* the client's id of the outcome is not stored: a report that is sent again is
\* another row.
PostOutcome(e, u, kept, p) ==
    /\ Len(outcomes) < MaxOutcomes
    /\ outcomes' = Append(outcomes,
           [exp |-> e, user |-> u, kept |-> kept, report |-> p,
            seen |-> {r \in Run : HasSnapshot(r, u)}])
    /\ UNCHANGED <<experiments, begun, assigned, filed, labels, done, executions, localVars>>

Next ==
    \/ \E w \in Replica :
          \/ \E r \in Run, U \in (SUBSET User) \ {{}} : Start(w, r, U)
          \/ ReadOutcomes(w) \/ ReadLatest(w) \/ ReadLabels(w) \/ SaveLabels(w)
          \/ ReadContext(w) \/ LookUp(w) \/ Create(w) \/ SaveArms(w)
          \/ FileSnapshots(w) \/ Finish(w) \/ Fail(w)
    \/ \E e \in experiments, u \in User, k \in BOOLEAN, p \in Report : PostOutcome(e, u, k, p)

Spec == Init /\ [][Next]_vars

-----------------------------------------------------------------------------
(* Properties.                                                             *)

\* What the tables may hold.
StoreTyped ==
    /\ experiments \subseteq Experiment /\ begun \in 0..MaxExecutions
    /\ assigned \subseteq Experiment \X User
    /\ outcomes \in Seq(Outcome)
    /\ filed \in Seq([run : Run, users : SUBSET User])
    /\ labels \subseteq Label
    /\ done \subseteq Run /\ executions \in 0..MaxExecutions

\* What the executions may remember.
MemoryTyped ==
    /\ pc \in [Replica -> Step]
    /\ run \in [Replica -> Run \cup {NoRun}]
    /\ users \in [Replica -> SUBSET User]
    /\ exp \in [Replica -> 0..MaxExecutions]
    /\ joined \in [Replica -> SUBSET Nat] /\ known \in [Replica -> SUBSET Nat]
    /\ latest \in [Replica -> [User -> Run \cup {NoRun}]]
    /\ context \in [Replica -> SUBSET Label] /\ due \in [Replica -> SUBSET Nat]
    /\ \A w \in Replica : /\ pc[w] # "idle" => run[w] # NoRun
                          /\ pc[w] \in {"create", "arms"} => exp[w] # 0

\* The tables and the executions' memory keep to their kinds of value.
TypeOK == StoreTyped /\ MemoryTyped

\* However the executions overlap, an outcome becomes at most one example
\* (insert_labeled_examples).
OneLabelEach == \A l, m \in labels : l.outcome = m.outcome => l = m

\* An example repeats its outcome, carries the arm its user was assigned in the
\* experiment the outcome was reported for, and rests on a snapshot of that user, even
\* when two experiments are open or other runs file in the meantime (load_outcomes).
LabelsTruthful ==
    \A l \in labels :
        /\ l.outcome \in DOMAIN outcomes
        /\ LET o == outcomes[l.outcome] IN
             /\ l.user = o.user /\ l.kept = o.kept
             /\ <<o.exp, o.user>> \in assigned /\ l.arm = ArmOf[o.exp][o.user]
             /\ HasSnapshot(l.run, l.user)

\* What could be labelled when an execution began is in the context its models read:
\* by this execution or by one that overlaps it (ingest_outcomes before RISK).
ContextComplete ==
    \A w \in Replica : pc[w] = "lookup" => due[w] \subseteq LabelledIn(context[w])

\* An example is never changed or removed: what one run learned from, the next does too.
LabelsKept == [][labels \subseteq labels']_vars

\* No matter how many executions begin, replicas that race create one experiment each
\* at most, and every outcome and assignment belongs to one of these
\* (get_or_create_experiment).
ExperimentsBounded ==
    /\ Cardinality(experiments) <= Cardinality(Replica)
    /\ \A o \in DOMAIN outcomes : outcomes[o].exp \in experiments
    /\ \A a \in assigned : a[1] \in experiments

\* Refuted: "Uses the feature snapshot captured at recommendation time, never current
\* data, so labels cannot leak into features" (labeled_examples.py): the snapshot of an
\* example was filed before its outcome was reported, if there was one then.
NoLeak ==
    \A l \in labels : LET seen == outcomes[l.outcome].seen IN seen # {} => l.run \in seen

\* Refuted: "Duplicate outcome does not create a second example" (the package's README):
\* examples of one report of the client.
OnePerReport ==
    \A l, m \in labels : outcomes[l.outcome].report = outcomes[m.outcome].report => l = m
=============================================================================
