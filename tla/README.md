# Verification of ADA

TLA+ modules, TLC configurations and TLAPS proofs for the ADA retention engine:
the service that ingests a client's events, scores churn risk, allocates
incentives under a budget, puts every recommendation before a human reviewer,
and hands approved ones to the client. Paths below are relative to `src/`.

## 1. The system

| Part | State it keeps | Operations | Talks to |
| --- | --- | --- | --- |
| Review gate: `core_contracts/recommendation.py`, `repositories/recommendations.py`, `audit.py`, API routers, trigger of migration 0006 | `recommendations` (status, reviewed_by), `audit_log` | create_pending, approve, reject, mark_delivered | API requests, the worker's PERSIST stage |
| Run queue and worker loop: `repositories/pipeline.py`, `worker/main.py` | `pipeline_runs` (status, attempts, started_at, stages), shutdown event | create_run, reclaim_stale, claim_queued, update_stage, finish_run, requeue_or_fail, signals | console API (POST /pipeline/run), pipeline |
| Pipeline: `worker/pipeline.py` | one `_Run` in memory per execution | eleven stages INGEST ... PERSIST | every L1 package, the store |
| Postgres store: `worker/postgres_store.py` | most tables | one transaction per call | repositories |
| Ingestion API: `routers/ingest.py`, `repositories/events.py` | `raw_events`, `canonical_events`, `outcomes` | post_event, post_events_batch, post_outcome, list_approved, delivery_ack | clients |
| Allocator: `packages/allocator` | none (pure) | solve, greedy, allocate, bundle_group | ALLOCATE stage |
| Policy guard: `packages/policy-guard` | none; reads `contact_log` times | evaluate and four rules | POLICY stage |
| Measurement: `packages/measurement`, `repositories/measurement.py` | `experiments`, `arm_assignments` | assign_arm, get_or_create_experiment, compute_lift | ALLOCATE stage, console |
| Feedback: `packages/feedback`, `worker/outcomes.py` | `outcomes`, `labeled_examples`, `feature_snapshots` | post_outcome, label, summarize | FEEDBACK stage |
| Graph signal: `packages/graph-signal` | none (pure) | build_edges, find_circles, snapshots and ratios | GRAPH stage |
| External signals, impact, churn risk, ranker, explain | none (pure), models in memory | one function per stage | pipeline |
| Schema: `migrations` | tables, columns, grants, policies, the trigger, `alembic_version` | upgrade and downgrade of twelve migrations | an operator; every transaction of the services runs under its grants |
| Rate limiter, authentication: `api/rate_limit.py`, `api/auth.py` | token buckets | allow, require_* | every request |
| Web console: `apps/web` | none of its own | | console API |

Hard behaviours: requests that overlap on one row or on sibling rows; workers
that die, lose the database or are told to stop between any two transactions;
rows that come back after a timeout while somebody still works on them; reads
without a lock followed by writes; stages that commit one by one and are then
executed again; deliveries and outcomes sent twice.

PROJECT.json lists every component with its status and every hazard at its line
with the properties that cover it.

## 2. Plan

| Order | Module | Composes | Abstract specification | Status |
| --- | --- | --- | --- | --- |
| 1 | `ReviewGate` | | `ReviewLedger` | done, proved |
| 2 | `RunQueue` | | `RunLifecycle` | done, proved |
| 3 | `Ingest`: batches, deduplication, claim, mark, save | | | done, proved |
| 4 | `Decision`: policy, arms, picks, narrations, what PERSIST leaves behind when a run is executed again | the queue's attempts, an abstract allocator | | done, proved |
| 5 | `Allocator`: knapsack, greedy, reasons | | all choices of items; the `Allocations` of `Decision` | done, proved |
| 6 | `Feedback`: experiments, outcomes, snapshots, labelled examples | executions that overlap, as the queue allows | one label for each outcome | done, proved |
| 7 | `Circles`: union-find | | `Merging`, connected components | done, proved |
| 8 | `Schema`: the migrations; `Access`: what each transaction needs of them | `Access` extends `Schema` with the repositories | what upgrades alone build, in closed form | done, proved |

What is left has no protocol of its own that TLC could explore (section 13).

## 3. The review gate

`ReviewGate.tla`. One row of `recommendations` is an element of `Rec`; its
allocation run and its subject (user or circle) are constants, since no code
changes them. `status`, `reviewedBy` and `trail` (the audit rows of a
recommendation) are what the database holds. A request is a transaction in a
slot of `Txn`: `pc`, `req` and `reply` are the state of the API process.

| Action | Code |
| --- | --- |
| `CreatePending(a)` | the worker's `create_recommendations`, one transaction for an allocation run |
| `Begin` | the three handlers (approve, reject, delivery-ack, the last one from console or client) |
| `Acquire`, `Refuse` | `_load_for_update` returns, `assert_transition` passes or raises (409) |
| `SiblingClear`, `SiblingConflict` | `_assert_no_live_sibling`, approve only |
| `Commit` | the assignments, the audit row, the commit; guarded by the trigger and the CHECKs |
| `Lose` | process or connection dies before the commit |

Points where another transaction can get in are steps of their own; what a
transaction wrote before its commit is seen by nobody and is therefore part of
`Commit`. Isolation is PostgreSQL's READ COMMITTED, which the code does not
change. An unknown id (404) touches nothing and is not a step.

| Run | Bounds | Shows |
| --- | --- | --- |
| `gate_race` | 2 requests, 2 reviewers and the client, 2 sibling rows, fair | the lock serialises, the check is never stale, the trail is complete, the gate implements `ReviewLedger`, every request is answered |
| `sibling_race` (violation) | 2 requests, 2 sibling rows | two siblings can both be approved |

Two requests and two rows are enough for every pairwise race. Requests that do
not overlap leave one live sibling: that is proved (section 11), and so are
`TypeOK`, `RowSerialised`, `TriggerIsBackstop` and `OneWinner`, which the run
therefore does not repeat.

Fairness (`gate_race`): a request that can take a step takes it (the API
process runs), and one that waits for a row gets it if the row is free again and
again (PostgreSQL queues lock waiters). Nothing is assumed of callers, of the
worker or of failures.

## 4. The run queue

`RunQueue.tla`. Runs are numbered in the order of `created_at`, tenants in the
order of `list_tenants`. The variables `status`, `attempts`, `age` and `stages`
are columns (`age` is the distance from `started_at`, in ticks, counted no
further than the stale window); the others are the local state of each worker
process, lost in a crash. `ticket` is history: the attempt a claim made.

| Action | Code |
| --- | --- |
| `Enqueue` | `create_run` |
| `Tick` | time, for rows that are RUNNING |
| `BeginCycle`, `Exit`, `Start` | `while not shutdown.is_set()`, process start |
| `Poll`, `PollCommit` | `poll_tenant`: one transaction, `reclaim_stale` then `claim_queued`, both FOR UPDATE SKIP LOCKED; rows are locked at `Poll` and written at `PollCommit` |
| `ReadRow` | `get_run`, the unlocked read that starts every stage report and verdict |
| `ResetStage`, `StartStage`, `ReportStage` | `run_pipeline`'s `record_stage` calls, i.e. `update_stage` |
| `Work` | the stage function returns or raises |
| `RunRaises` | an exception outside a stage, caught by `execute_run` |
| `Settle` | `finish_run` or `requeue_or_fail` |
| `CycleFails` | an exception caught by `poll_forever`: the rest of the cycle is skipped |
| `Signal`, `Crash` | SIGTERM or SIGINT; the process is killed |

An ORM row writes only the attributes that were given a new value (`Flushed`),
so a verdict equal to the status that was read overwrites nothing. SKIP LOCKED
may skip a row whose worker has an uncommitted write (`MaybeLocked`).

| Run | Bounds | Shows |
| --- | --- | --- |
| `queue_solo` | 1 replica, 2 runs of 2 tenants, 1 stage, 2 attempts, window of 1 tick, fair | budget, claim, stages, life cycle (`RunLifecycle`), every queued run ends |
| `queue_pair` | 2 replicas, 1 run, 2 stages, 2 attempts | what survives a second replica |
| `double_run` (violation) | 2 replicas, 1 run | a live run is reclaimed and executed twice |

`docker-compose.yml` deploys one replica; `FOR UPDATE SKIP LOCKED`, its
docstring and `test_poll_loop.py` provide for a second one, and `queue_pair` and
`double_run` say what a second one meets. A window of one tick lets time pass between any two
steps, so an execution can be shorter or longer than the window. Two attempts
are the least with a retry in between. `queue_pair` has a second stage, where
reports of two workers mix; what `queue_solo` checks is proved for every number
of stages.

Fairness (`queue_solo`): a worker that is down is started (docker restarts a
crash, an operator one that was stopped), time passes, a worker that can take a
step takes it (stage calls end or time out), a worker started again and again
gets to its poll, and a poll of one tenant that is attempted again and again
succeeds at last. Crashes, signals and failures are unrestricted.

## 5. Ingestion

`Ingest.tla`: from `POST /events` and `/events/batch` to `canonical_events`. A
request is a transaction in a slot of `Request`, with the events of its body in
order; a worker executes the INGEST stage of one tenant. `raw` is the state of
each row (`processed_at`, `status`), `received` its place in `received_at`,
`canonical` counts canonical events for each raw one, `profile` the users whose
attributes were applied, `mapped` the event types with a mapping. `fresh` and
`told` are history: how often an event was answered as new, and which events a
client was told are stored.

| Action | Code |
| --- | --- |
| `BeginPost`, `CommitPost`, `LosePost` | a request, its commit and answer, or its end without either |
| `InsertRow`, `FindRow` | `insert_raw_event`: INSERT ... ON CONFLICT DO NOTHING, which waits for a transaction that inserted the same key, then the SELECT of the row that is there |
| `BreakDeadlock`, `RejectRow` | the savepoint of one row fails (PostgreSQL ends a cycle of waiting inserts; a row the schema refuses) and the batch goes on |
| `CreateMapping` | `upsert_mapping` |
| `StartRun`, `Stop` | a run begins with the mappings of `get_tenant`; the claim loop ends |
| `Claim`, `CommitClaim`, `ClaimNothing` | `claim_raw_events`: a transaction of its own, FOR UPDATE SKIP LOCKED, oldest first |
| `Normalize`, `MarkProcessed`, `MarkUnmapped`, `Raise` | the loop over claimed rows: attributes, then the mark, each in its own transaction |
| `Save` | `save_canonical_events`, after the last row of the batch |
| `Fail` | the execution ends anywhere; commits stay, memory is lost |

Whether a row resolves, fails to resolve or raises something else is a class of
events (`Unresolvable`, `Unconvertible`), as `normalize` is a pure function of
the payload and the mapping.

| Run | Bounds | Shows |
| --- | --- | --- |
| `ingest_solo` | 3 events of 2 types, the third unmapped at first and with an infinite amount, 2 requests with overlapping, reversed and repeating batches, 2 posts, 1 replica, batches of 2, 1 failure, fair | answers are true, nothing is saved or decided twice, a death loses one batch at most, every request ends, every event is decided unless the one that raises is in the way |

Three events and batches of two make a batch that is full and one that is not;
two requests are what a deadlock between inserts takes. `MaxFailures` bounds
deaths of the stage, `MaxPosts` the bodies posted. `claim_unprocessed` says "so
multiple worker replicas never process the same raw row twice", but its locks
end with its own transaction, before the rows are marked: with two replicas an
event may be saved twice, and `NoCopies` and `VerdictIsFinal` are properties of
one replica.

`DecidedUnlessStuck` is what is left of "the worker marks the raw row
`unmapped` and carries on" (`normalize.py:4`): an exception that is not a
`MappingError` ends the stage before the row is marked, so the row, and those
claimed with it, are taken up again by each run (`Stuck`).

Fairness: a request and an execution that can take a step take it, a run starts
again and again (the queue retries and the console starts runs), and PostgreSQL
ends a deadlock.

## 6. Decisions

`Decision.tla`: what a run does with its scores, from POLICY to PERSIST, and
what it leaves in the database when it dies and the queue executes it again.
`found` is what the stages before found: the users, the circles, whether the
impact model had rows enough, who repaid late, who is capped, who is in a
segment worth nothing, who is at risk. It is chosen anew for each execution, as
time passes and events arrive between two. `arms`, `chosen` and `worded` are the
rest of `_Run`; `assignment`, `filed`, `narrations`, `recs`, `snaps` and
`audited` are tables.

| Action | Code |
| --- | --- |
| `Begin` | the claim and the stages up to RANK; from POLICY on, everything is an operator on `found` (`Candidates`, `Denied`, `Exclusions`, `Ranked`) |
| `AssignArms` | `assign_arm` for each unit and `save_arm_assignments`, ON CONFLICT DO NOTHING |
| `Allocate` | the allocator, the naive arm and `save_allocation` |
| `Narrate` | one pick of `_explain`: the LLM's text or the template, `save_narration` keeps the first |
| `CreateRecs` | `create_recommendations`, one transaction |
| `SaveSnapshots` | `save_feature_snapshots`, one transaction under the unique key of migration 0008 |
| `Audit` | `append_audit`, a transaction for each recommendation |
| `Finish`, `Fail` | the run succeeds; a stage raises or the worker dies |
| `Reconfigure` | the worker is started with other percentages |

The allocator is any set with at most one item for each unit (`Allocations`),
so what is shown holds for both strategies and every budget. A picked incentive
gets into the snapshot of a user who is in several picks by the order of the
picks; the model leaves that order open. A feature snapshot and a recommendation
name the filing (`alloc`) of their execution, which stands for the values they
copy from it. `policy_decisions` hold what `found` determines.

| Run | Bounds | Shows |
| --- | --- | --- |
| `decision` | 2 users, their circle, 3 individual and 1 group incentive (one on credit terms, one and the group's on borrowing), 1 run of 2 executions, 2 settings of the percentages, 4 maps of units to buckets, 5 situations, 2 texts | the properties of the table below |

The buckets put the circle in an arm of its own beside members of every other
arm; the situations have nobody denied, a late user, an excluded user beside one
below the threshold, a capped user whose circle is too small, and no impact
model. Two executions are what it takes for rows of an execution that died to
meet those of the next.

| Property | Says |
| --- | --- |
| `HardRulesHold` | no recommendation, naive or bundled, reaches a member to whom a hard rule denies it |
| `BundleWhole` | a circle's recommendation is of all its scored members or of none |
| `HoldoutKept` | a recommendation is of its unit's arm; all ranked candidates of control units are filed as held out |
| `SnapshotsTruthful` | a snapshot, from which a labelled example is made, says what the same execution recommended |
| `SuccessIsWhole` | a run that succeeded has the snapshots, recommendations and audit rows of one whole execution |

`SuccessIsWhole` has a cost the model shows: an execution that dies after its
snapshots leaves a run that no later execution can finish, since the unique key
refuses the new ones; its retries end as FAILED. `OneReason` (four pieces of code
file reasons, a candidate gets exactly one, or none if it is a naive pick) and
`OnePerUnit` are proved only
(section 11).

## 7. The allocator

`Allocator.tla`: `allocate` as a step for each round of its loops. An item is a
candidate or a bundle; `input` holds costs, values, budget, scale, strategy and
cell limit. `best` and `table` are the rows of the dynamic program, `at` the
capacity on the way back, `rest` what the greedy loop has not looked at.

| Action | Code |
| --- | --- |
| `SolveNothing`, `SolveExactly`, `SolveGreedily` | the choice of the strategy in `allocate`, with `DPTooLarge` |
| `FillRow` | a round of `for key in keys`: the inner loops keep the first of the best improvements |
| `WalkBack`, `Take`, `Pass`, `WalkEnds` | the smallest best capacity, then the keys backwards |
| `Grab`, `LeaveOut`, `GreedyEnds` | `greedy.solve` |
| `Decide` | the reasons of `allocate` |

Values are integers: the floats of the code, and the 1e-9 by which an
improvement must be one, are not modelled, and densities are compared by
cross-multiplication. Rank and the runner-up mark are left out: they order what
was decided.

The run `allocator` has five items under three keys, costs 0 to 4, values below,
at and above zero, budgets 0 to 6, scales 1 to 3, both strategies, and a cell
limit that is sometimes exceeded: 40320 inputs. Costs and budgets that are no
multiples of the scale, an item of cost 0 and one dearer than the budget are
among them. `ExactIsOptimal` compares the result with every choice of items.
The function returns, so the run does not check for deadlock. `OnePerKey`, which
is proved, is what `Decision` assumes of its `Allocations`.

## 8. The feedback loop

`Feedback.tla`: what one run leaves for the next. `experiments`, `assigned`,
`outcomes`, `filed` (snapshots, in the order they are committed) and `labels`
are tables; `joined`, `latest`, `known` and `context` are what an execution has
read; `due` is history: the outcomes that could be labelled when it began.

| Action | Code |
| --- | --- |
| `Start` | an execution of a run begins; `users` is who is in its window |
| `ReadOutcomes`, `ReadLatest` | the two statements of `load_outcomes`: the join of outcomes with assignments, then the latest snapshots |
| `ReadLabels` | `load_labeled_examples`, for what is labelled already |
| `SaveLabels` | `to_labeled_examples` and `save_labeled_examples`, ON CONFLICT DO NOTHING |
| `ReadContext` | RISK loads the examples its models learn from |
| `LookUp`, `Create` | `get_or_create_experiment`: a read, then an insert, and nothing in between |
| `SaveArms`, `FileSnapshots`, `Finish`, `Fail` | arms, snapshots under their unique key, the end of an execution |
| `PostOutcome` | `POST /outcomes` |

| Run | Bounds | Shows |
| --- | --- | --- |
| `feedback` | 2 replicas (symmetric), 2 users whose arms differ and change places in a second experiment, 2 runs, 3 executions, 1 outcome | an outcome becomes one truthful example that stays, nothing due is missing from the context, a race creates one experiment for each replica at most |
| `leak` (violation) | 1 replica, 3 runs, 1 outcome | an example can rest on a snapshot that is younger than its outcome |

Outcomes are labelled row by row, so one is enough for what concerns an
outcome; three executions are two that overlap and one before or after. Each
execution has somebody in its window. `FEEDBACK_USE_IN_CONTEXT` is on, as in
`.env.example`; without it no example is saved. `NoLeak` compares the example's run with the snapshots its user
had when the outcome was reported (`seen`).

## 9. Circles

`Circles.tla`: `build_edges` (pairs with enough interactions) and
`find_circles`, a step for each round of a loop. `parent` is the dict of the
union-find, `x` the node `find` is at, `first` the root that was found for an
edge's first end while the second is looked for. Edges are taken in the order
of `build_edges`, nodes are put into groups in any order.

| Action | Code |
| --- | --- |
| `TakeEdge` | the next edge, `setdefault` for both ends |
| `Follow` | a round of `find`: the pointer is halved, then followed |
| `FoundFirst`, `FoundSecond` | `find` returns; the larger root is linked to the smaller |
| `AllTaken`, `TakeNode`, `FoundRoot` | the groups by root |
| `Return` | those that are large enough |

The run `circles` has five people and all 1024 graphs among them, each pair
with one interaction too few or just enough, circles of three and more. The
refinement of `Merging` (edges merge blocks) says that a half-rewritten path
never tears a block. A block is what hangs together by pointers: two nodes are in one
if every set that no pointer crosses (`Sealed`) has both or neither (`Tied`),
which says the same as equal roots and needs no recursion.
`CirclesAreComponents` compares the result with the
components, defined by the sets that no edge leaves; `Returns` is termination,
under the fairness that a function that was called goes on. Five people are what
a path of pointers that can be halved twice takes. The function ends, so there is
no check for deadlock.

## 10. Schema and access

`Schema.tla`: the twelve migrations as operators on a schema (`Up0001`,
`Down0001`, ...), built from statements that say what they change and when
PostgreSQL raises. A command is one transaction (`env.py`): `Begin`, `Upgrade`
and `Downgrade` step by step in `draft`, `Commit` or `Abort`. Columns appear only
if a later migration adds them or a grant names them; types and indexes do not.
`Access.tla` says what each repository's transactions need of the schema, by the
role they connect as, including what PostgreSQL asks for besides the verb
(RETURNING and ON CONFLICT read, FOR UPDATE needs UPDATE on a column).

The run `schema` has no parameters: it visits every state the migrations can be
in. The proof (section 11) says why it finds nothing.

| Property | Says |
| --- | --- |
| `Reversible` | every way to a revision leaves the schema that upgrades alone build |
| `NeverRaises` | no migration asks for what PostgreSQL refuses |
| `LaterTablesCovered` | tables of migrations after 0006 have their policy and are in the reports |
| `HeadServes` | at the last revision every transaction has its privileges, columns and constraints |
| `ReviewIsConsole` | only the console's role can write a review, and nobody an audit row that is there |

## 11. Proofs

`ReviewGateProofs.tla`, for every number of rows, reviewers and requests. The
properties are not inductive: `GateInv` adds that each transaction past the lock
is alone on its row and that its check still holds, and that the trail of a row
is a function of its status. From it follow type correctness, `RowSerialised`,
`CheckedStillHolds`, `TriggerIsBackstop`, `AuditTrail`, `OneWinner` and the
refinement of `ReviewLedger`. `OneLivePerSubject` is proved under the hypothesis
that requests do not overlap; `sibling_race` shows that it needs one.

`RunQueueProofs.tla`, for every finite number of replicas: `QueueInv` says that
locks of different polls are disjoint, that what a poll decided on is still so at
its commit, and that what a worker read and claimed is never ahead of the row.
From it follow `FailedOnlyWhenSpent` and `ClaimsDistinct`. `OverInv` counts: once
a budget is spent, the attempts made, the one that waits and the workers that
read the row before (`Behind`) stay within `MaxRetries` and all replicas but one,
because a verdict that queues the run again uses up such a worker and the claim
that spent the budget was made by one that had read nothing. That is
`OvershootBounded`.

For one replica and any number of runs, tenants, stages and retries, `SoloInv`
in the same module adds that an unlocked read is still current when
the transaction writes and that the stages behind the worker are DONE. From it
follow `RetryBudget`, `ClaimHolds`, `SucceededMeansAllDone` and the refinement
of `RunLifecycle`.

`IngestProofs.tla`, for any number of events, requests and replicas: a duplicate
is answered only about a committed row or one of the request's own, and what an
execution keeps in memory is marked, has its attributes and is no more than the
batch size. From it follow `NewOnce`, `ToldIsStored`, `AttributesFirst` and
`LossIsOneBatch`; under the hypothesis of one replica, `NoCopies`,
`SavedWasProcessed` and `VerdictIsFinal`, because a batch is then disjoint from
what was decided.

`DecisionProofs.tla`, for any users, circles, incentives, buckets, situations,
percentages and attempts: `CoreInv` ties the execution to its last filing and
each worded pick to that filing's picks; `RecsInv` says that every
recommendation is a pick of the filing it names and that two of one filing are
for different picks; `SnapInv` adds that the snapshots of an execution follow
its recommendations; `SuccessIsWhole` is then inductive. `OneSnapshot` and
`FirstTextKept` (a stored narration stays) come with them. The rules reach a
recommendation along lemmas about the operators: what is ranked is not denied,
a bundle is whole, an allocation takes one item for a unit. `ArmsNeverChange`
proves `ArmKept` under the hypothesis that the percentages stay.

`AllocatorProofs.tla`, for any items, keys, costs, values, budgets and scales:
the items in the table belong to their key and fit their capacity, and on the
way back what was spent and the scaled capacity that is left stay within the
budget, because a weight covers its cost. From it follow `WithinBudget` and
`OnePerKey`; that what the greedy loop has passed is picked, has a picked rival
or is too dear gives `GreedyIsMaximal`.

`ExactIsOptimal` takes three more invariants (`ExactInv`): a row of the table is
the best value of every capacity over all choices among the keys done so far
(`RowsInv`: a choice with one more key is a choice without it, and an item of
that key that fits or none); on the way back the items taken and the best value
of the keys and the capacity that are left make up the optimum (`WalkInv`); at
the end they are the optimum (`ResultInv`). `TotalValue` and `TotalWeight` are
folds of the library over a set; the lemmas `SumsExist`, `SumRecursion` and
`SumSplit` get from its definition what the invariants need, without induction
over data: a counterexample of least cardinality is refuted. `ExactIsOptimal`
is about the weights, that is costs rounded up; `OptimalForMultiples` says what
follows for the costs themselves: nothing is lost where the scale divides them
and the budget.

`FeedbackProofs.tla`, for any users, runs, reports, arms and finite number of
replicas: tables only grow (`GrowsStep`), so what an execution read stays true of
them (`Holds`), and an outcome that was due is joined, then has a snapshot, then
is known or inserted, then is in the context. From `LoopInv` follow
`OneLabelEach`, `LabelsTruthful`, `ContextComplete` and `LabelsKept`. `RaceInv`
counts experiments and replicas about to create one: whoever looked before the
first was committed is among the latter, and commits one. That is
`ExperimentsBounded`.

`CirclesProofs.tla`, for any finite graph and numbering: pointers lead to smaller
people only and a root that was found stays one (`PointersDown`), so each round
of `find` comes closer to its end (`FindAdvances`); a pointer never leaves a set
of people that no edge leaves (`BondInv`), which keeps strangers out of a group
offer (`NoStrangers`). For the other half, that nobody of a component is left
out, `TakenInv` says that the ends of an edge that was taken are tied and stay
so, and `RootsApart` that two roots are never tied: the nodes above a root are a
sealed set with one root in it. Hence groups by root are blocks, and blocks are
components once all edges are taken: `CirclesAreComponents`. Halving a
pointer leaves the sealed sets as they are (`SealedHalve`), and a link leaves
those that have both roots or neither (`SealedLink`), so it joins two blocks:
that is the refinement of `Merging`, step by step.

`SchemaProofs.tla`: `SchemaOf` writes the schema of each revision down in closed
form (tables, parts, grants, policies, trigger, roles). For each statement a
lemma says what it makes of a schema and when it is not refused
(`RevokeUndoesGrant`: REVOKE undoes a GRANT that gave nothing that was there
before; `DropMakes`: a dropped table takes with it what hangs on it), and for
each migration one says that its upgrade leads from `SchemaOf(r - 1)` to
`SchemaOf(r)` and its downgrade back (`ClimbStep`, `DescendStep`). So the closed
forms are all that is ever committed or under way (`SchemaInv`), and the
recursive `Built` is one of them (`BuiltIs`). The five properties are read off
`SchemaOf`: `WorkerCouldNot` is why the downgrades of the repairing migrations
take away no more than they gave, `WorkerServed` and `ConsoleServed` go through
the needs of every repository. The module has no parameters, so the theorems
hold of no more states than the run visits; they say why, and a new migration
extends them by one lemma.

What liveness rests on is proved too, up to the scheduler. Each theorem names a
number that the steps of a procedure bring down and says that the procedure is
not stuck before it reaches its end:

| Theorem | What runs down | Why it is not stuck |
| --- | --- | --- |
| `ExecutionsCannotHang` (run queue) | steps of an execution, at most seven a stage and two; a stage report that raises does not add to them | a write waits only for the commit of another worker's poll, which waits for nothing |
| `PostsCannotHang` (ingestion) | events a request has left | along the rows a request waits for there is one that goes on, or a deadlock that PostgreSQL breaks |
| `AllocateReturns` (allocator) | rounds, at most `4 * (Cardinality(Item) + 1)` | the greedy order is total and transitive, so what is left has a first item |
| `FindCirclesReturns` (circles) | edges, rounds of `find` (pointers lead down), people to group | the edges have an order, so those left have a first one |

With the fairness of the specifications these give `EveryPostEnds` and `Returns`,
and `EveryRunSettles` for a run that is executed; that inference is not made here.

Assumptions: the named ASSUMEs of the modules (constants of the right kind,
`MaxRetries` at least 1, finitely many replicas, `Unread` not a row), and the
hypothesis a theorem states: the replica, the requests that do not overlap, the
percentages that stay, and for the theorems of the table finitely many requests
and people.

Only model-checked: the liveness properties `Answered`, `EveryRunSettles`,
`DecidedUnlessStuck`, `EveryPostEnds` and `Returns`, as the prover has neither
fairness reasoning nor ENABLED. Every other property of a passing run is a
theorem. What a theorem does not say is left to the runs that expect a violation
and to the promises of section 12, which TLC refutes. `SUBSET Q \ S` is written
with its parentheses, `(SUBSET Q) \ S`: the two tools do not read it alike.

## 12. Promises the code does not keep

Three have a run (`sibling_race`, `double_run`, `leak`) and a finding in
PROJECT.json. The others are defined beside the properties, and TLC refutes them
when they replace the properties of a run's configuration:

| Definition | Promise | What happens |
| --- | --- | --- |
| `RetryBudget` with two replicas | retries are bounded | a second replica's attempt is counted from an old read (`OvershootBounded` is what remains) |
| `NoCopies` with two replicas | `repositories/events.py:87` | two replicas claim the same raw row |
| `EveryEventDecided` | `normalize.py:4` | an infinite amount raises something else than a `MappingError`: the row is never decided, nor the rows after it |
| `NoClaimAfterSignal` | `worker/main.py:143` | the tenants left in a cycle are still polled |
| `NaiveServed` | `worker/pipeline.py:540` | without an impact model nobody gets a naive pick |
| `ControlWithheld` | `core_contracts/measurement.py:9` | a circle in ENGINE is recommended to with a member in CONTROL |
| `ArmKept` with changing percentages | `measurement/assignment.py:8` | computed arms follow the settings, stored ones the past |
| `TextAsStored` | `repositories/narrations.py:1` | an execution again asks the LLM again and files the new text |
| `OptimalForCosts` | `allocator/knapsack.py:14` | the optimum is one of the rounded costs (the module's header says so): an item that would fit may be reported as BUDGET_EXHAUSTED |
| `OnePerReport` | `packages/feedback/README.md:17` | `client_outcome_id` is not stored: a report that is sent again is another row and another example |

Seen while modelling, without a definition of their own:

- `contact_log` is read (`repositories/contacts.py`) and never written by the
  services, so the frequency cap denies nobody unless rows come from elsewhere.
- `models.py:109` and `:401` declare indexes that no migration creates.
- `save_risk_scores` writes `features: {}`, from which
  `routers/console/users.py:121` reads the circle and the external signal.
- A run that is executed again inserts its risk, impact and circle rows again.
- A client that pages by offset through approved recommendations while it
  acknowledges them skips rows.

## 13. What is not modelled, and why

Scores are inputs: the churn, impact and ranking models are floating-point
inference, and so are the ratios, patterns and decayed weights of the graph
signal and the statistics of lift. So is the external signal attached to a user.
Time windows of the rules (late events, contacts) are sets of users. Wording,
validation of narrations, HMACs, field paths of the mapping and amounts are
data. API keys and signed cookies are checked before a transaction begins and
keep no state; every model of the services is of one tenant, or of tenants that
share only the worker. The rate limiter is a float bucket under one lock. The web
console and the read-only routes keep no state. `memory_store.py` and the
offline pass over fixtures are doubles for tests.
