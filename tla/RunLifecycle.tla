---------------------------- MODULE RunLifecycle ----------------------------
(***************************************************************************)
(* What the run queue promises about one row of pipeline_runs, with no     *)
(* workers in it: a run waits, is attempted a bounded number of times, and *)
(* ends once, SUCCEEDED, or FAILED with every attempt used.                *)
(***************************************************************************)
EXTENDS Naturals

CONSTANTS
    Run,         \* rows of the table pipeline_runs
    MaxRetries   \* WORKER_MAX_RETRIES

VARIABLES
    status,      \* pipeline_runs.status; "NONE" is a row not inserted yet
    attempts     \* pipeline_runs.attempts

lifecycleVars == <<status, attempts>>

LifecycleInit ==
    /\ status = [r \in Run |-> "NONE"]
    /\ attempts = [r \in Run |-> 0]

Keeps(r) == status'[r] = status[r] /\ attempts'[r] = attempts[r]

Submitted(r) ==
    status[r] = "NONE" /\ status'[r] = "QUEUED" /\ attempts'[r] = attempts[r]

\* An attempt starts; an attempt nobody finished may be followed by the next
\* one at once.
Attempted(r) ==
    /\ status[r] \in {"QUEUED", "RUNNING"}
    /\ attempts[r] < MaxRetries
    /\ status'[r] = "RUNNING"
    /\ attempts'[r] = attempts[r] + 1

Succeeded(r) ==
    status[r] = "RUNNING" /\ status'[r] = "SUCCEEDED" /\ attempts'[r] = attempts[r]

Requeued(r) ==
    /\ status[r] = "RUNNING"
    /\ attempts[r] < MaxRetries
    /\ status'[r] = "QUEUED" /\ attempts'[r] = attempts[r]

Failed(r) ==
    /\ status[r] = "RUNNING"
    /\ attempts[r] = MaxRetries
    /\ status'[r] = "FAILED" /\ attempts'[r] = attempts[r]

\* One poll may move several rows.
LifecycleNext ==
    \A r \in Run :
        \/ Keeps(r)
        \/ Submitted(r)
        \/ Attempted(r)
        \/ Succeeded(r)
        \/ Requeued(r)
        \/ Failed(r)

LifecycleSpec == LifecycleInit /\ [][LifecycleNext]_lifecycleVars

=============================================================================
