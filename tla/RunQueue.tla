------------------------------ MODULE RunQueue ------------------------------
(***************************************************************************)
(* The queue of pipeline runs and the workers that poll it.                *)
(*                                                                         *)
(* The API inserts QUEUED rows.  A worker cycles through the tenants: in   *)
(* one transaction it recovers the tenant's stale rows and claims the      *)
(* oldest queued one, both with FOR UPDATE SKIP LOCKED; then it executes   *)
(* the claimed run stage by stage, each stage report and the final verdict *)
(* being a transaction that reads the row without a lock and writes it.    *)
(* Workers crash, are told to stop, and lose the database at any point.    *)
(* Runs are numbered in the order of created_at.                           *)
(***************************************************************************)
EXTENDS Naturals, FiniteSets

CONSTANTS
    Worker,        \* worker replicas
    Run,           \* rows of pipeline_runs, in the order of created_at
    TenantCount,   \* tenants, numbered as list_tenants returns them
    TenantOf,      \* column tenant_id
    StageCount,    \* Len(STAGES)
    MaxRetries,    \* WORKER_MAX_RETRIES
    StaleAge,      \* WORKER_STALE_CLAIM_SECONDS, in ticks
    NoRun,         \* no claim
    Unread         \* the row has not been read in this transaction

ASSUME QueueAssumption ==
    /\ IsFiniteSet(Worker)
    /\ Run \subseteq Nat
    /\ TenantCount \in Nat \ {0}
    /\ TenantOf \in [Run -> 1 .. TenantCount]
    /\ StageCount \in Nat \ {0}
    /\ MaxRetries \in Nat \ {0}
    /\ StaleAge \in Nat
    /\ NoRun \notin Run

VARIABLES
    status,    \* pipeline_runs.status; "NONE" is a row not inserted yet
    attempts,  \* pipeline_runs.attempts
    age,       \* ticks since pipeline_runs.started_at, up to StaleAge + 1
    stages,    \* pipeline_runs.stages
    pc,        \* where each worker is
    at,        \* the tenant it serves in this cycle
    hold,      \* rows its poll transaction has locked and will write
    job,       \* the run it executes
    ticket,    \* attempts as its claim left it
    step,      \* the stage it is at
    outcome,   \* how that stage, and so far the run, went
    seen,      \* the row as the transaction under way read it
    stopping   \* the shutdown event

rowVars  == <<status, attempts, age, stages>>
workVars == <<job, ticket, step, outcome, seen>>
vars == <<rowVars, pc, at, hold, workVars, stopping>>

-----------------------------------------------------------------------------
(* Rows.                                                                   *)

RunStatus   == {"QUEUED", "RUNNING", "SUCCEEDED", "FAILED"}
StageStatus == {"PENDING", "RUNNING", "DONE", "FAILED"}   \* SKIPPED is a DONE
Stage == 1 .. StageCount

\* What a transaction reads of a row.
ReadOfRow == [status : RunStatus \cup {"NONE"}, attempts : Nat, stages : [Stage -> StageStatus]]

ASSUME UnreadAssumption == Unread \notin ReadOfRow

Oldest(S) == CHOOSE r \in S : \A s \in S : r <= s

\* Mutant: one attempt too many.
SpentLate(n) == n > MaxRetries

\* row.attempts >= max_retries
Spent(n) == n >= MaxRetries

\* Mutant: reclaim_stale forgets the status filter.
OldRow(r) == status[r] # "NONE" /\ age[r] > StaleAge

\* Mutant: nothing is ever stale.
NeverStale(r) == FALSE

\* RUNNING and started_at < now - stale_seconds
Stale(r) == status[r] = "RUNNING" /\ age[r] > StaleAge

\* An attribute of an ORM row is in the UPDATE only if it was given a value
\* other than the one loaded; now is the value in the table by then.
Flushed(loaded, value, now) == IF value = loaded THEN now ELSE value

\* Rows the poll transaction of w has locked.
Held(w) == hold[w].retry \cup hold[w].spent \cup ({hold[w].claim} \ {NoRun})

\* Mutant: SELECT without FOR UPDATE SKIP LOCKED.
NothingHeld(w) == {}

\* Rows locked by the poll transactions of other workers.
HeldByOthers(w) == UNION {Held(u) : u \in Worker \ {w}}

\* Rows another worker is about to write or has written and not committed:
\* SKIP LOCKED may find them locked.
MaybeLocked(w) == {job[u] : u \in {v \in Worker \ {w} : seen[v] # Unread}}

NoHold == [retry |-> {}, spent |-> {}, claim |-> NoRun, attempt |-> 0]

Init ==
    /\ status = [r \in Run |-> "NONE"]
    /\ attempts = [r \in Run |-> 0]
    /\ age = [r \in Run |-> 0]
    /\ stages = [r \in Run |-> [k \in Stage |-> "PENDING"]]
    /\ pc = [w \in Worker |-> "down"]
    /\ at = [w \in Worker |-> 1]
    /\ hold = [w \in Worker |-> NoHold]
    /\ job = [w \in Worker |-> NoRun]
    /\ ticket = [w \in Worker |-> 0]
    /\ step = [w \in Worker |-> 1]
    /\ outcome = [w \in Worker |-> "DONE"]
    /\ seen = [w \in Worker |-> Unread]
    /\ stopping = [w \in Worker |-> FALSE]

\* POST /console/v1/pipeline/run: create_run.
Enqueue(r) ==
    /\ status[r] = "NONE"
    /\ \A s \in Run : s < r => status[s] # "NONE"
    /\ status' = [status EXCEPT ![r] = "QUEUED"]
    /\ UNCHANGED <<attempts, age, stages, pc, at, hold, workVars, stopping>>

\* Time passes, for every row that is running.
Tick ==
    LET young == {r \in Run : status[r] = "RUNNING" /\ age[r] <= StaleAge} IN
    /\ young # {}
    /\ age' = [r \in Run |-> IF r \in young THEN age[r] + 1 ELSE age[r]]
    /\ UNCHANGED <<status, attempts, stages, pc, at, hold, workVars, stopping>>

-----------------------------------------------------------------------------
(* The poll loop.                                                          *)

\* The worker is done with its tenant: on to the next, or to the next cycle.
NextTenant(w) ==
    /\ pc' = [pc EXCEPT ![w] = IF at[w] < TenantCount THEN "poll" ELSE "top"]
    /\ at' = [at EXCEPT ![w] = IF @ < TenantCount THEN @ + 1 ELSE 1]

\* What is left of a process or of an execution when it is over.
Forget(w) ==
    /\ hold' = [hold EXCEPT ![w] = NoHold]
    /\ job' = [job EXCEPT ![w] = NoRun]
    /\ ticket' = [ticket EXCEPT ![w] = 0]
    /\ step' = [step EXCEPT ![w] = 1]
    /\ outcome' = [outcome EXCEPT ![w] = "DONE"]
    /\ seen' = [seen EXCEPT ![w] = Unread]

\* The process starts: docker restarts a crashed worker, an operator one that
\* was told to stop.
Start(w) ==
    /\ pc[w] = "down"
    /\ pc' = [pc EXCEPT ![w] = "top"]
    /\ UNCHANGED <<rowVars, at, hold, workVars, stopping>>

\* while not shutdown.is_set(): the only place that looks at the event.
BeginCycle(w) ==
    /\ pc[w] = "top"
    /\ ~stopping[w]
    /\ pc' = [pc EXCEPT ![w] = "poll"]
    /\ UNCHANGED <<rowVars, at, hold, workVars, stopping>>

Exit(w) ==
    /\ pc[w] = "top"
    /\ stopping[w]
    /\ pc' = [pc EXCEPT ![w] = "down"]
    /\ stopping' = [stopping EXCEPT ![w] = FALSE]
    /\ UNCHANGED <<rowVars, at, hold, workVars>>

\* SIGTERM or SIGINT.
Signal(w) ==
    /\ pc[w] # "down"
    /\ ~stopping[w]
    /\ stopping' = [stopping EXCEPT ![w] = TRUE]
    /\ UNCHANGED <<rowVars, pc, at, hold, workVars>>

\* The process is killed; the database rolls its transaction back.
Crash(w) ==
    /\ pc[w] # "down"
    /\ pc' = [pc EXCEPT ![w] = "down"]
    /\ at' = [at EXCEPT ![w] = 1]
    /\ Forget(w)
    /\ stopping' = [stopping EXCEPT ![w] = FALSE]
    /\ UNCHANGED rowVars

\* An exception ends the cycle: nothing is polled for the tenants after this
\* one, and a claim stays where it is.
CycleFails(w) ==
    /\ pc[w] \in {"poll", "commit", "settle"}
    /\ pc' = [pc EXCEPT ![w] = "top"]
    /\ at' = [at EXCEPT ![w] = 1]
    /\ Forget(w)
    /\ UNCHANGED <<rowVars, stopping>>

\* poll_tenant's transaction locks what it will write: reclaim_stale the stale
\* rows, claim_queued the oldest queued row, one it has just requeued
\* included.  Locked rows are skipped.
Selects(w, skipped) ==
    LET mine   == {r \in Run : TenantOf[r] = at[w]} \ (skipped \cup HeldByOthers(w))
        stale  == {r \in mine : Stale(r)}
        retry  == {r \in stale : ~Spent(attempts[r])}
        queued == {r \in mine : status[r] = "QUEUED"} \cup retry
        claim  == IF queued = {} THEN NoRun ELSE Oldest(queued)
    IN  [retry   |-> retry,
         spent   |-> stale \ retry,
         claim   |-> claim,
         attempt |-> IF claim = NoRun THEN 0 ELSE attempts[claim] + 1]

Poll(w) ==
    /\ pc[w] = "poll"
    /\ \E skipped \in SUBSET MaybeLocked(w) :
           hold' = [hold EXCEPT ![w] = Selects(w, skipped)]
    /\ pc' = [pc EXCEPT ![w] = "commit"]
    /\ UNCHANGED <<rowVars, at, workVars, stopping>>

\* Mutant: a claim leaves the status to the first stage report.
ClaimWithoutStatus(h, r) ==
    IF r \in h.retry THEN "QUEUED" ELSE IF r \in h.spent THEN "FAILED" ELSE status[r]

\* The status a poll gives to a row.
PolledStatus(h, r) ==
    IF r = h.claim THEN "RUNNING"
    ELSE IF r \in h.retry THEN "QUEUED"
    ELSE IF r \in h.spent THEN "FAILED"
    ELSE status[r]

\* The transaction commits; with a claim, execute_run begins.
PollCommit(w) ==
    LET h == hold[w] IN
    /\ pc[w] = "commit"
    /\ status' = [r \in Run |-> PolledStatus(h, r)]
    /\ attempts' = [r \in Run |-> IF r = h.claim THEN h.attempt ELSE attempts[r]]
    /\ age' = [r \in Run |-> IF r = h.claim THEN 0 ELSE age[r]]
    /\ hold' = [hold EXCEPT ![w] = NoHold]
    /\ job' = [job EXCEPT ![w] = h.claim]
    /\ ticket' = [ticket EXCEPT ![w] = h.attempt]
    /\ IF h.claim = NoRun
          THEN NextTenant(w)
          ELSE pc' = [pc EXCEPT ![w] = "reset"] /\ UNCHANGED at
    /\ UNCHANGED <<stages, step, outcome, seen, stopping>>

-----------------------------------------------------------------------------
(* Execution of a claimed run.                                             *)

\* get_run: every stage report and the verdict start with a read that locks
\* nothing.
ReadRow(w) ==
    /\ pc[w] \in {"reset", "start", "report", "settle"}
    /\ seen[w] = Unread
    /\ LET r == job[w] IN
       seen' = [seen EXCEPT ![w] = [status   |-> status[r],
                                    attempts |-> attempts[r],
                                    stages   |-> stages[r]]]
    /\ UNCHANGED <<rowVars, pc, at, hold, job, ticket, step, outcome, stopping>>

\* update_stage writes: the whole stages column as it was read, with one entry
\* changed, and the status if it read QUEUED.  It waits for a poll that holds
\* the row.
UpdateStage(w, value) ==
    LET r   == job[w]
        row == seen[w]
    IN
    /\ row # Unread
    /\ r \notin HeldByOthers(w)
    /\ stages' = [stages EXCEPT ![r] =
                     Flushed(row.stages, [row.stages EXCEPT ![step[w]] = value], @)]
    /\ status' = [status EXCEPT ![r] = IF row.status = "QUEUED" THEN "RUNNING" ELSE @]
    /\ age' = [age EXCEPT ![r] = IF row.status = "QUEUED" THEN 0 ELSE @]
    /\ seen' = [seen EXCEPT ![w] = Unread]

\* run_pipeline reports every stage PENDING before it starts the first.
ResetStage(w) ==
    /\ pc[w] = "reset"
    /\ UpdateStage(w, "PENDING")
    /\ pc' = [pc EXCEPT ![w] = IF step[w] = StageCount THEN "start" ELSE "reset"]
    /\ step' = [step EXCEPT ![w] = IF @ = StageCount THEN 1 ELSE @ + 1]
    /\ UNCHANGED <<attempts, at, hold, job, ticket, outcome, stopping>>

StartStage(w) ==
    /\ pc[w] = "start"
    /\ UpdateStage(w, "RUNNING")
    /\ pc' = [pc EXCEPT ![w] = "work"]
    /\ UNCHANGED <<attempts, at, hold, job, ticket, step, outcome, stopping>>

\* The stage function returns, or raises.
Work(w) ==
    /\ pc[w] = "work"
    /\ \E result \in {"DONE", "FAILED"} : outcome' = [outcome EXCEPT ![w] = result]
    /\ pc' = [pc EXCEPT ![w] = "report"]
    /\ UNCHANGED <<rowVars, at, hold, job, ticket, step, seen, stopping>>

\* A failed stage ends the run; so does the last one.
ReportStage(w) ==
    LET over == outcome[w] = "FAILED" \/ step[w] = StageCount IN
    /\ pc[w] = "report"
    /\ UpdateStage(w, outcome[w])
    /\ pc' = [pc EXCEPT ![w] = IF over THEN "settle" ELSE "start"]
    /\ step' = [step EXCEPT ![w] = IF over THEN @ ELSE @ + 1]
    /\ UNCHANGED <<attempts, at, hold, job, ticket, outcome, stopping>>

\* A stage report, or what precedes the first one, raises: "one bad run must
\* not kill the worker".
RunRaises(w) ==
    /\ pc[w] \in {"reset", "start", "report"}
    /\ outcome' = [outcome EXCEPT ![w] = "FAILED"]
    /\ seen' = [seen EXCEPT ![w] = Unread]
    /\ pc' = [pc EXCEPT ![w] = "settle"]
    /\ UNCHANGED <<rowVars, at, hold, job, ticket, step, stopping>>

\* Mutant: the first failure is the last.
Impatient(w) == IF outcome[w] = "DONE" THEN "SUCCEEDED" ELSE "FAILED"

\* Mutant: the result of the pipeline is not looked at.
Optimistic(w) == IF Spent(seen[w].attempts) THEN "FAILED" ELSE "SUCCEEDED"

\* finish_run, or requeue_or_fail on the attempts it read.
Verdict(w) ==
    IF outcome[w] = "DONE" THEN "SUCCEEDED"
    ELSE IF Spent(seen[w].attempts) THEN "FAILED"
    ELSE "QUEUED"

\* The verdict is written, and the worker goes on with the next tenant.
Settle(w) ==
    /\ pc[w] = "settle"
    /\ seen[w] # Unread
    /\ job[w] \notin HeldByOthers(w)
    /\ status' = [status EXCEPT ![job[w]] = Flushed(seen[w].status, Verdict(w), @)]
    /\ NextTenant(w)
    /\ Forget(w)
    /\ UNCHANGED <<attempts, age, stages, stopping>>

Execute(w) ==
    \/ ReadRow(w)
    \/ ResetStage(w)
    \/ StartStage(w)
    \/ Work(w)
    \/ ReportStage(w)
    \/ Settle(w)

Loop(w) == BeginCycle(w) \/ Exit(w) \/ Poll(w) \/ PollCommit(w)

Next ==
    \/ \E r \in Run : Enqueue(r)
    \/ Tick
    \/ \E w \in Worker :
        \/ Start(w)
        \/ Loop(w)
        \/ Execute(w)
        \/ RunRaises(w)
        \/ CycleFails(w)
        \/ Signal(w)
        \/ Crash(w)

Spec == Init /\ [][Next]_vars

\* A worker that is down is started, time passes, and a worker that can take a
\* step takes it (a stage always ends: every call it makes has a timeout or is
\* finite).  A poll of a tenant that is attempted again and again succeeds at
\* last: the database is not down for ever.  Nothing is assumed of crashes,
\* signals and failures.
Fairness ==
    /\ WF_vars(Tick)
    /\ \A w \in Worker :
        /\ WF_vars(Start(w))
        /\ WF_vars(Loop(w) \/ Execute(w))
        /\ SF_vars(BeginCycle(w))
        /\ \A i \in 1 .. TenantCount :
            /\ SF_vars(at[w] = i /\ Poll(w))
            /\ SF_vars(at[w] = i /\ PollCommit(w))

FairSpec == Spec /\ Fairness

-----------------------------------------------------------------------------
(* What has to be true of it.                                              *)

Executes(w) == job[w] # NoRun

RowsTyped ==
    /\ status \in [Run -> RunStatus \cup {"NONE"}]
    /\ attempts \in [Run -> Nat]
    /\ age \in [Run -> 0 .. StaleAge + 1]
    /\ stages \in [Run -> [Stage -> StageStatus]]

LoopTyped ==
    /\ pc \in [Worker -> {"down", "top", "poll", "commit", "reset", "start",
                          "work", "report", "settle"}]
    /\ at \in [Worker -> 1 .. TenantCount]
    /\ hold \in [Worker -> [retry : SUBSET Run, spent : SUBSET Run,
                            claim : Run \cup {NoRun}, attempt : Nat]]
    /\ stopping \in [Worker -> BOOLEAN]

JobTyped ==
    /\ job \in [Worker -> Run \cup {NoRun}]
    /\ ticket \in [Worker -> Nat]
    /\ step \in [Worker -> Stage]
    /\ outcome \in [Worker -> {"DONE", "FAILED"}]
    /\ seen \in [Worker -> {Unread} \cup ReadOfRow]

\* Type invariant of the queue and its workers.
TypeOK == RowsTyped /\ LoopTyped /\ JobTyped

\* A run is FAILED only when its retries are used up, by whichever of
\* reclaim_stale and requeue_or_fail gives up on it, however late the attempts
\* it decided on were read.
FailedOnlyWhenSpent ==
    \A r \in Run : status[r] = "FAILED" => Spent(attempts[r])

\* A claim is an attempt of its own: no two workers execute a run on the same
\* attempt (claim_queued: a second replica takes different rows).
ClaimsDistinct ==
    \A u, w \in Worker :
        Executes(u) /\ job[u] = job[w] /\ ticket[u] = ticket[w] => u = w

\* With several replicas a verdict written on attempts read earlier can queue
\* a run whose budget is used up; each worker but the one that used it up can
\* do so once.
OvershootBounded ==
    \A r \in Run : attempts[r] <= MaxRetries + Cardinality(Worker) - 1

\* With one replica the retry budget is never exceeded, and a run that waits
\* in the queue has an attempt left ("retries up to WORKER_MAX_RETRIES,
\* counting a crashed claim as one attempt").
RetryBudget ==
    \A r \in Run :
        /\ attempts[r] <= MaxRetries
        /\ status[r] = "QUEUED" => attempts[r] < MaxRetries

\* With one replica a claim lasts as long as the execution: what the worker
\* runs stays RUNNING and on the attempt it claimed, however long it takes.
ClaimHolds ==
    \A w \in Worker :
        Executes(w) => status[job[w]] = "RUNNING" /\ attempts[job[w]] = ticket[w]

\* With one replica a run is SUCCEEDED only with every stage DONE, whatever
\* earlier attempts left in the stages column.
SucceededMeansAllDone ==
    \A r \in Run : status[r] = "SUCCEEDED" => \A k \in Stage : stages[r][k] = "DONE"

\* With one replica a run goes through the lifecycle that RunLifecycle states:
\* in particular SUCCEEDED and FAILED are final.
Lifecycle == INSTANCE RunLifecycle WITH
    Run <- Run, MaxRetries <- MaxRetries, status <- status, attempts <- attempts
LifecycleSpec == Lifecycle!LifecycleSpec

\* Every run that is queued ends, whatever crashes and failures strike the
\* worker and whatever happens to the runs and tenants before it.
EveryRunSettles ==
    \A r \in Run : status[r] = "QUEUED" ~> status[r] \in {"SUCCEEDED", "FAILED"}

\* No run is executed by two workers at a time (claim_queued: "takes different
\* rows instead of blocking or double-running one").
NoDoubleRun ==
    \A u, w \in Worker : Executes(u) /\ job[u] = job[w] => u = w

\* Once told to stop, a worker claims nothing more; a claim that the signal
\* finds half made is let through (install_signal_handlers: "stop the loop
\* after the run in flight finishes").
NoClaimAfterSignal ==
    [][\A w \in Worker :
          stopping[w] /\ hold[w].claim = NoRun => hold'[w].claim = NoRun]_vars

=============================================================================
