--------------------------- MODULE RunQueueProofs ---------------------------
(***************************************************************************)
(* Proofs about RunQueue, for every number of replicas, runs, tenants,     *)
(* stages and retries.                                                     *)
(***************************************************************************)
EXTENDS RunQueue, FiniteSetTheorems, WellFoundedInduction, TLAPS

USE DEF ReadOfRow

Executing == {"reset", "start", "work", "report", "settle"}

\* A worker has a job exactly while it executes one, holds rows only between
\* the selection and the commit of its poll, and reads the row of its job only.
Places ==
    \A w \in Worker :
        /\ pc[w] \in Executing <=> job[w] \in Run
        /\ pc[w] # "commit" => hold[w] = NoHold
        /\ seen[w] # Unread => job[w] \in Run

\* No row is locked by two polls.
HoldsApart == \A u, w \in Worker : u # w => Held(u) \cap Held(w) = {}

\* What a poll decided on when it locked its rows is still so.
HoldsFresh ==
    \A w \in Worker :
        /\ \A r \in hold[w].spent : Spent(attempts[r])
        /\ hold[w].claim # NoRun => hold[w].attempt = attempts[hold[w].claim] + 1

\* What a worker read, and the attempt it claimed, is never ahead of the row.
ReadsBehind ==
    \A w \in Worker :
        /\ seen[w] # Unread => seen[w].attempts <= attempts[job[w]]
        /\ job[w] # NoRun => ticket[w] <= attempts[job[w]]

QueueInv ==
    /\ TypeOK
    /\ Places
    /\ HoldsApart
    /\ HoldsFresh
    /\ ReadsBehind
    /\ FailedOnlyWhenSpent
    /\ ClaimsDistinct

-----------------------------------------------------------------------------
(* Type correctness.                                                       *)

\* A set of runs that is not empty has an oldest run (claim_queued, ORDER BY
\* created_at LIMIT 1).
LEMMA OldestIn ==
    ASSUME NEW S \in SUBSET Nat, S # {}
    PROVE  Oldest(S) \in S
<1> DEFINE R == OpToRel(<, Nat)
<1>1. PICK x \in S : \A y \in S : ~ (<<y, x>> \in R)
    <2>1. IsWellFoundedOn(R, Nat)
        BY NatLessThanWellFounded
    <2>. QED
        BY <2>1, WFMin
<1>2. \A y \in S : x <= y
    <2>. SUFFICES ASSUME NEW y \in S  PROVE  x <= y
        OBVIOUS
    <2>1. ~ (y < x)
        BY <1>1 DEF OpToRel
    <2>. QED
        BY <2>1
<1>. QED
    BY <1>2 DEF Oldest

\* A poll selects rows of its tenant that no other poll holds: stale ones to
\* requeue while they have attempts left, stale ones to give up when they have
\* not, and one to claim that is queued or about to be.
LEMMA Selection ==
    ASSUME TypeOK, NEW w \in Worker, NEW skipped
    PROVE  LET h == Selects(w, skipped) IN
           /\ h.retry \subseteq Run /\ h.spent \subseteq Run
           /\ h.claim \in Run \cup {NoRun}
           /\ h.attempt \in Nat
           /\ (h.retry \cup h.spent \cup ({h.claim} \ {NoRun})) \cap HeldByOthers(w) = {}
           /\ \A r \in h.spent : Stale(r) /\ Spent(attempts[r])
           /\ \A r \in h.retry : Stale(r) /\ ~Spent(attempts[r])
           /\ h.claim # NoRun =>
                 /\ h.attempt = attempts[h.claim] + 1
                 /\ status[h.claim] = "QUEUED" \/ h.claim \in h.retry
<1> DEFINE mine   == {r \in Run : TenantOf[r] = at[w]} \ (skipped \cup HeldByOthers(w))
           stale  == {r \in mine : Stale(r)}
           retry  == {r \in stale : ~Spent(attempts[r])}
           queued == {r \in mine : status[r] = "QUEUED"} \cup retry
           claim  == IF queued = {} THEN NoRun ELSE Oldest(queued)
           h      == Selects(w, skipped)
<1>1. /\ h.retry = retry
      /\ h.spent = stale \ retry
      /\ h.claim = claim
      /\ h.attempt = IF claim = NoRun THEN 0 ELSE attempts[claim] + 1
    BY DEF Selects
<1>2. queued \subseteq mine /\ queued \in SUBSET Nat
    BY QueueAssumption
<1>3. claim # NoRun => claim \in queued
    BY <1>2, OldestIn
<1>4. claim \in Run \cup {NoRun}
    BY <1>2, <1>3
<1>5. h.attempt \in Nat
    BY <1>1, <1>4 DEF TypeOK, RowsTyped
<1>6. (h.retry \cup h.spent \cup ({h.claim} \ {NoRun})) \subseteq mine
    BY <1>1, <1>2, <1>3
<1>7. mine \subseteq Run /\ mine \cap HeldByOthers(w) = {}
    OBVIOUS
<1>8. /\ \A r \in h.spent : Stale(r) /\ Spent(attempts[r])
      /\ \A r \in h.retry : Stale(r) /\ ~Spent(attempts[r])
    BY <1>1
<1>9. h.claim # NoRun =>
        /\ h.attempt = attempts[h.claim] + 1
        /\ status[h.claim] = "QUEUED" \/ h.claim \in h.retry
    BY <1>1, <1>3
<1>. HIDE DEF mine, stale, retry, queued, claim, h
<1>10. /\ h.retry \subseteq Run /\ h.spent \subseteq Run
       /\ h.claim \in Run \cup {NoRun}
       /\ (h.retry \cup h.spent \cup ({h.claim} \ {NoRun})) \cap HeldByOthers(w) = {}
    BY <1>1, <1>4, <1>6, <1>7
<1>. QED
    BY <1>5, <1>8, <1>9, <1>10 DEF h

LEMMA NoHoldTyped ==
    NoHold \in [retry : SUBSET Run, spent : SUBSET Run,
                claim : Run \cup {NoRun}, attempt : Nat]
BY DEF NoHold

\* Moving on to the next tenant, or to the top of the loop, stays in bounds.
LEMMA NextTenantTyped ==
    ASSUME LoopTyped, NEW w \in Worker, NextTenant(w)
    PROVE  /\ at' \in [Worker -> 1 .. TenantCount]
           /\ pc' \in [Worker -> {"down", "top", "poll", "commit", "reset", "start",
                                  "work", "report", "settle"}]
<1>1. at[w] \in 1 .. TenantCount
    BY DEF LoopTyped
<1>2. (IF at[w] < TenantCount THEN at[w] + 1 ELSE 1) \in 1 .. TenantCount
    BY <1>1, QueueAssumption
<1>3. at' = [at EXCEPT ![w] = IF at[w] < TenantCount THEN at[w] + 1 ELSE 1]
    BY DEF NextTenant
<1>4. at' \in [Worker -> 1 .. TenantCount]
    BY <1>2, <1>3 DEF LoopTyped
<1>. QED
    BY <1>4 DEF NextTenant, LoopTyped

\* A worker that has forgotten its execution is well typed.
LEMMA ForgetTyped ==
    ASSUME LoopTyped, JobTyped, NEW w \in Worker, Forget(w)
    PROVE  /\ JobTyped'
           /\ hold' \in [Worker -> [retry : SUBSET Run, spent : SUBSET Run,
                                    claim : Run \cup {NoRun}, attempt : Nat]]
<1>1. 1 \in Stage
    BY QueueAssumption DEF Stage
<1>2. job' \in [Worker -> Run \cup {NoRun}] /\ ticket' \in [Worker -> Nat]
    BY DEF Forget, JobTyped
<1>3. step' \in [Worker -> Stage] /\ outcome' \in [Worker -> {"DONE", "FAILED"}]
    BY <1>1 DEF Forget, JobTyped
<1>4. seen' \in [Worker -> {Unread} \cup ReadOfRow]
    BY DEF Forget, JobTyped
<1>. QED
    BY <1>2, <1>3, <1>4, NoHoldTyped DEF Forget, JobTyped, LoopTyped

\* Type correctness goes together with where a worker has a job.
LEMMA TypeStep ==
    ASSUME TypeOK, Places, Next
    PROVE  TypeOK' /\ Places'
<1>. USE QueueAssumption DEF TypeOK
<1>1. ASSUME NEW r \in Run, Enqueue(r)
      PROVE  TypeOK' /\ Places'
    BY <1>1 DEF Enqueue, workVars, RowsTyped, LoopTyped, JobTyped, Places, RunStatus
<1>2. ASSUME Tick
      PROVE  TypeOK' /\ Places'
    BY <1>2 DEF Tick, workVars, RowsTyped, LoopTyped, JobTyped, Places
<1>3. ASSUME NEW w \in Worker, Start(w) \/ BeginCycle(w) \/ Exit(w) \/ Signal(w)
      PROVE  TypeOK' /\ Places'
    <2>1. /\ UNCHANGED <<rowVars, at, hold, workVars>>
          /\ \A v \in Worker : pc'[v] # pc[v] =>
                   /\ pc[v] \in {"down", "top"}
                   /\ pc'[v] \in {"down", "top", "poll"}
        BY <1>3 DEF Start, BeginCycle, Exit, Signal, LoopTyped
    <2>2. LoopTyped'
        <3>1. CASE Start(w) \/ BeginCycle(w)
            BY <3>1 DEF Start, BeginCycle, LoopTyped
        <3>2. CASE Exit(w)
            BY <3>2 DEF Exit, LoopTyped
        <3>3. CASE Signal(w)
            BY <3>3 DEF Signal, LoopTyped
        <3>. QED
            BY <1>3, <3>1, <3>2, <3>3
    <2>3. RowsTyped' /\ JobTyped'
        BY <2>1 DEF rowVars, workVars, RowsTyped, JobTyped
    <2>4. Places'
        BY <2>1 DEF workVars, Places, Executing
    <2>. QED
        BY <2>2, <2>3, <2>4
<1>4. ASSUME NEW w \in Worker, Crash(w) \/ CycleFails(w)
      PROVE  TypeOK' /\ Places'
    <2>1. RowsTyped'
        BY <1>4 DEF Crash, CycleFails, rowVars, RowsTyped
    <2>2. LoopTyped'
        <3>1. 1 \in 1 .. TenantCount
            OBVIOUS
        <3>2. at' \in [Worker -> 1 .. TenantCount]
            BY <1>4, <3>1 DEF Crash, CycleFails, LoopTyped
        <3>3. stopping' \in [Worker -> BOOLEAN]
            BY <1>4, Zenon DEF Crash, CycleFails, LoopTyped
        <3>. QED
            BY <1>4, <3>2, <3>3, ForgetTyped DEF Crash, CycleFails, LoopTyped
    <2>3. JobTyped'
        BY <1>4, ForgetTyped DEF Crash, CycleFails
    <2>4. Places'
        BY <1>4 DEF Crash, CycleFails, Forget, LoopTyped, JobTyped, Places, Executing
    <2>. QED
        BY <2>1, <2>2, <2>3, <2>4
<1>5. ASSUME NEW w \in Worker, Poll(w)
      PROVE  TypeOK' /\ Places'
    <2>1. PICK skipped : hold' = [hold EXCEPT ![w] = Selects(w, skipped)]
        BY <1>5 DEF Poll
    <2> DEFINE h == Selects(w, skipped)
    <2>2. h \in [retry : SUBSET Run, spent : SUBSET Run,
                 claim : Run \cup {NoRun}, attempt : Nat]
        BY Selection DEF Selects
    <2>. HIDE DEF h
    <2>. QED
        BY <1>5, <2>1, <2>2 DEF Poll, h, rowVars, workVars,
                                RowsTyped, LoopTyped, JobTyped, Places, Executing
<1>6. ASSUME NEW w \in Worker, PollCommit(w)
      PROVE  TypeOK' /\ Places'
    <2>1. /\ hold[w].claim \in Run \cup {NoRun}
          /\ hold[w].attempt \in Nat
        BY <1>6 DEF LoopTyped
    <2>2. RowsTyped'
        BY <1>6, <2>1 DEF PollCommit, PolledStatus, RowsTyped, RunStatus
    <2>3. LoopTyped'
        <3>1. hold' \in [Worker -> [retry : SUBSET Run, spent : SUBSET Run,
                                    claim : Run \cup {NoRun}, attempt : Nat]]
            BY <1>6, NoHoldTyped DEF PollCommit, PolledStatus, LoopTyped
        <3>. QED
            BY <1>6, <3>1, NextTenantTyped DEF PollCommit, PolledStatus, LoopTyped
    <2>4. JobTyped'
        BY <1>6, <2>1 DEF PollCommit, PolledStatus, JobTyped
    <2>5. Places'
        <3>1. /\ pc[w] = "commit" /\ pc'[w] # "commit"
              /\ pc'[w] \in Executing <=> hold[w].claim \in Run
            BY <1>6, <2>1 DEF PollCommit, NextTenant, LoopTyped, Executing
        <3>2. /\ hold'[w] = NoHold /\ job'[w] = hold[w].claim /\ seen' = seen
              /\ \A v \in Worker \ {w} : pc'[v] = pc[v] /\ hold'[v] = hold[v] /\ job'[v] = job[v]
            BY <1>6 DEF PollCommit, NextTenant, LoopTyped, JobTyped
        <3>3. seen[w] = Unread
            BY <3>1 DEF Places, Executing
        <3>. QED
            BY <3>1, <3>2, <3>3 DEF Places
    <2>. QED
        BY <2>2, <2>3, <2>4, <2>5
<1>7. ASSUME NEW w \in Worker, ReadRow(w)
      PROVE  TypeOK' /\ Places'
    BY <1>7 DEF ReadRow, rowVars, RowsTyped, LoopTyped, JobTyped, Places, Executing
<1>8. ASSUME NEW w \in Worker, Work(w) \/ RunRaises(w)
      PROVE  TypeOK' /\ Places'
    <2>0. RowsTyped' /\ LoopTyped'
        BY <1>8 DEF Work, RunRaises, rowVars, RowsTyped, LoopTyped
    <2>1. JobTyped'
        BY <1>8 DEF Work, RunRaises, JobTyped
    <2>2. Places'
        BY <1>8 DEF Work, RunRaises, LoopTyped, JobTyped, Places, Executing
    <2>. QED
        BY <2>0, <2>1, <2>2
<1>9. ASSUME NEW w \in Worker, ResetStage(w) \/ StartStage(w) \/ ReportStage(w)
      PROVE  TypeOK' /\ Places'
    <2>1. PICK value \in StageStatus : UpdateStage(w, value)
        BY <1>9 DEF ResetStage, StartStage, ReportStage, StageStatus, JobTyped
    <2>2. seen[w].stages \in [Stage -> StageStatus]
        BY <2>1 DEF UpdateStage, JobTyped
    <2>3. RowsTyped'
        <3>1. stages' \in [Run -> [Stage -> StageStatus]]
            BY <2>1, <2>2 DEF UpdateStage, Flushed, RowsTyped
        <3>2. status' \in [Run -> RunStatus \cup {"NONE"}]
            BY <2>1 DEF UpdateStage, RowsTyped, RunStatus
        <3>3. age' \in [Run -> 0 .. StaleAge + 1]
            <4>1. 0 \in 0 .. StaleAge + 1
                OBVIOUS
            <4>2. age' = [age EXCEPT ![job[w]] =
                             IF seen[w].status = "QUEUED" THEN 0 ELSE age[job[w]]]
                BY <2>1 DEF UpdateStage
            <4>. QED
                BY <4>1, <4>2 DEF RowsTyped
        <3>4. attempts' = attempts
            BY <1>9 DEF ResetStage, StartStage, ReportStage
        <3>. QED
            BY <3>1, <3>2, <3>3, <3>4 DEF RowsTyped
    <2>4. LoopTyped'
        BY <1>9 DEF ResetStage, StartStage, ReportStage, LoopTyped
    <2>5. JobTyped'
        <3>1. step[w] \in Stage /\ 1 \in Stage /\ (step[w] # StageCount => step[w] + 1 \in Stage)
            BY DEF JobTyped, Stage
        <3>2. step' \in [Worker -> Stage]
            BY <1>9, <3>1 DEF ResetStage, StartStage, ReportStage, JobTyped
        <3>3. seen' = [seen EXCEPT ![w] = Unread]
            BY <2>1 DEF UpdateStage
        <3>. QED
            BY <1>9, <3>2, <3>3 DEF ResetStage, StartStage, ReportStage, JobTyped
    <2>6. Places'
        BY <1>9 DEF ResetStage, StartStage, ReportStage, UpdateStage, LoopTyped, JobTyped,
                    Places, Executing
    <2>. QED
        BY <2>3, <2>4, <2>5, <2>6
<1>10. ASSUME NEW w \in Worker, Settle(w)
       PROVE  TypeOK' /\ Places'
    <2>1. RowsTyped'
        BY <1>10 DEF Settle, Verdict, Flushed, RowsTyped, RunStatus
    <2>2. LoopTyped'
        BY <1>10, NextTenantTyped, ForgetTyped DEF Settle, LoopTyped
    <2>3. JobTyped'
        BY <1>10, ForgetTyped DEF Settle
    <2>4. Places'
        BY <1>10 DEF Settle, NextTenant, Forget, LoopTyped, JobTyped, Places, Executing
    <2>. QED
        BY <2>1, <2>2, <2>3, <2>4
<1>. QED
    BY <1>1, <1>2, <1>3, <1>4, <1>5, <1>6, <1>7, <1>8, <1>9, <1>10
       DEF Next, Loop, Execute

\* Type correctness, for every instance of the queue.
THEOREM TypeCorrect == Spec => []TypeOK
<1>1. Init => TypeOK /\ Places
    <2>. SUFFICES ASSUME Init  PROVE TypeOK /\ Places
        OBVIOUS
    <2>1. 1 \in Stage /\ 1 \in 1 .. TenantCount /\ 0 \in 0 .. StaleAge + 1
        BY QueueAssumption DEF Stage
    <2>2. RowsTyped
        BY <2>1 DEF Init, RowsTyped, StageStatus
    <2>3. LoopTyped
        BY <2>1, NoHoldTyped DEF Init, LoopTyped
    <2>4. JobTyped
        BY <2>1 DEF Init, JobTyped
    <2>5. Places
        BY QueueAssumption DEF Init, Places, Executing
    <2>. QED
        BY <2>2, <2>3, <2>4, <2>5 DEF TypeOK
<1>2. (TypeOK /\ Places) /\ [Next]_vars => (TypeOK /\ Places)'
    <2>. SUFFICES ASSUME TypeOK, Places, [Next]_vars  PROVE (TypeOK /\ Places)'
        OBVIOUS
    <2>1. CASE Next
        BY <2>1, TypeStep
    <2>2. CASE UNCHANGED vars
        BY <2>2 DEF vars, rowVars, workVars, TypeOK, RowsTyped, LoopTyped, JobTyped, Places
    <2>. QED
        BY <2>1, <2>2
<1>. QED
    BY <1>1, <1>2, PTL DEF Spec

-----------------------------------------------------------------------------
(* Any number of replicas.                                                 *)

\* The steps that leave attempts and locks alone keep the invariant if they
\* fail no run and take no job.
LEMMA QuietStep ==
    ASSUME QueueInv, TypeOK', Places',
           UNCHANGED <<attempts, hold>>,
           \A r \in Run : status'[r] = "FAILED" => status[r] = "FAILED" \/ Spent(attempts[r]),
           \A w \in Worker :
              /\ job'[w] = NoRun \/ (job'[w] = job[w] /\ ticket'[w] = ticket[w])
              /\ seen'[w] = Unread \/ (seen'[w] = seen[w] /\ job'[w] = job[w])
                 \/ (job'[w] = job[w] /\ seen'[w].attempts = attempts[job[w]])
    PROVE  QueueInv'
<1>1. HoldsApart'
    BY DEF QueueInv, HoldsApart, Held
<1>2. HoldsFresh'
    BY DEF QueueInv, HoldsFresh, Spent
<1>3. ReadsBehind'
    BY DEF QueueInv, ReadsBehind, Places, TypeOK, RowsTyped, JobTyped
<1>4. FailedOnlyWhenSpent'
    BY DEF QueueInv, FailedOnlyWhenSpent, Spent
<1>5. ClaimsDistinct'
    BY DEF QueueInv, ClaimsDistinct, Executes
<1>. QED
    BY <1>1, <1>2, <1>3, <1>4, <1>5 DEF QueueInv

\* A worker that drops its locks and its job keeps the invariant.
LEMMA ForgetStep ==
    ASSUME QueueInv, TypeOK', Places', NEW w \in Worker, Forget(w),
           UNCHANGED attempts,
           \A r \in Run : status'[r] = "FAILED" => status[r] = "FAILED" \/ Spent(attempts[r])
    PROVE  QueueInv'
<1>1. \A u \in Worker : hold'[u] = IF u = w THEN NoHold ELSE hold[u]
    BY DEF Forget, QueueInv, TypeOK, LoopTyped
<1>2. Held(w)' = {} /\ \A u \in Worker \ {w} : Held(u)' = Held(u)
    BY <1>1 DEF Held, NoHold
<1>3. HoldsApart'
    BY <1>2 DEF QueueInv, HoldsApart
<1>4. HoldsFresh'
    BY <1>1 DEF QueueInv, HoldsFresh, Spent, NoHold
<1>5. \A u \in Worker :
        IF u = w THEN job'[u] = NoRun /\ seen'[u] = Unread
        ELSE job'[u] = job[u] /\ ticket'[u] = ticket[u] /\ seen'[u] = seen[u]
    BY DEF Forget, QueueInv, TypeOK, JobTyped
<1>6. ReadsBehind'
    BY <1>5 DEF QueueInv, ReadsBehind
<1>7. FailedOnlyWhenSpent'
    BY DEF QueueInv, FailedOnlyWhenSpent, Spent
<1>8. ClaimsDistinct'
    BY <1>5 DEF QueueInv, ClaimsDistinct, Executes
<1>. QED
    BY <1>3, <1>4, <1>6, <1>7, <1>8 DEF QueueInv

\* A poll takes locks nobody else holds, on rows as they are.
LEMMA PollStep ==
    ASSUME QueueInv, TypeOK', Places', NEW w \in Worker, Poll(w)
    PROVE  QueueInv'
<1>1. PICK skipped : hold' = [hold EXCEPT ![w] = Selects(w, skipped)]
    BY DEF Poll
<1> DEFINE h == Selects(w, skipped)
<1>2. /\ (h.retry \cup h.spent \cup ({h.claim} \ {NoRun})) \cap HeldByOthers(w) = {}
      /\ \A r \in h.spent : Spent(attempts[r])
      /\ h.claim # NoRun => h.attempt = attempts[h.claim] + 1
    BY Selection DEF QueueInv
<1>. HIDE DEF h
<1>3. \A u \in Worker : hold'[u] = IF u = w THEN h ELSE hold[u]
    BY <1>1 DEF h, QueueInv, TypeOK, LoopTyped
<1>4. \A u \in Worker \ {w} : Held(u)' = Held(u) /\ Held(w)' \cap Held(u) = {}
    BY <1>2, <1>3 DEF Held, HeldByOthers
<1>5. HoldsApart'
    BY <1>4 DEF QueueInv, HoldsApart
<1>6. HoldsFresh'
    BY <1>2, <1>3 DEF Poll, rowVars, QueueInv, HoldsFresh, Spent
<1>7. UNCHANGED <<status, attempts, job, ticket, seen>>
    BY DEF Poll, rowVars, workVars
<1>8. ReadsBehind' /\ FailedOnlyWhenSpent' /\ ClaimsDistinct'
    BY <1>7 DEF QueueInv, ReadsBehind, FailedOnlyWhenSpent, ClaimsDistinct, Executes, Spent
<1>. QED
    BY <1>5, <1>6, <1>8 DEF QueueInv

\* A poll commits: its claim is a new attempt, and the rows it gives up have
\* used theirs.
LEMMA CommitStep ==
    ASSUME QueueInv, TypeOK', Places', NEW w \in Worker, PollCommit(w)
    PROVE  QueueInv'
<1> DEFINE c == hold[w].claim
<1>1. /\ c \in Run \cup {NoRun}
      /\ c # NoRun => hold[w].attempt = attempts[c] + 1 /\ c \in Held(w)
      /\ hold[w].spent \subseteq Held(w)
    BY DEF QueueInv, TypeOK, LoopTyped, HoldsFresh, Held
<1>2. \A r \in Run : attempts'[r] = IF r = c THEN attempts[r] + 1 ELSE attempts[r]
    BY <1>1, QueueAssumption DEF PollCommit, PolledStatus
<1>3. \A r \in Run : attempts[r] \in Nat /\ attempts[r] <= attempts'[r]
    BY <1>2 DEF QueueInv, TypeOK, RowsTyped
<1>4. \A u \in Worker : hold'[u] = IF u = w THEN NoHold ELSE hold[u]
    BY DEF PollCommit, PolledStatus, QueueInv, TypeOK, LoopTyped
<1>5. Held(w)' = {} /\ \A u \in Worker \ {w} : Held(u)' = Held(u)
    BY <1>4 DEF Held, NoHold
<1>6. HoldsApart'
    BY <1>5 DEF QueueInv, HoldsApart
<1>7. HoldsFresh'
    <2>. SUFFICES ASSUME NEW u \in Worker, u # w
                  PROVE  /\ \A r \in hold[u].spent : Spent(attempts'[r])
                         /\ hold[u].claim # NoRun =>
                               hold[u].attempt = attempts'[hold[u].claim] + 1
        BY <1>4 DEF HoldsFresh, Spent, NoHold
    <2>1. Held(u) \subseteq Run /\ (c # NoRun => c \notin Held(u))
        BY <1>1 DEF QueueInv, HoldsApart, Held, TypeOK, LoopTyped
    <2>2. \A r \in Held(u) : attempts'[r] = attempts[r]
        BY <1>2, <2>1, QueueAssumption
    <2>3. hold[u].spent \subseteq Held(u)
          /\ (hold[u].claim # NoRun => hold[u].claim \in Held(u))
        BY DEF Held
    <2>. QED
        BY <2>2, <2>3 DEF QueueInv, HoldsFresh, Spent
<1>8. \A u \in Worker :
        IF u = w THEN job'[u] = c /\ ticket'[u] = hold[w].attempt
        ELSE job'[u] = job[u] /\ ticket'[u] = ticket[u]
    BY DEF PollCommit, PolledStatus, QueueInv, TypeOK, JobTyped
<1>9. seen' = seen /\ seen[w] = Unread
    BY DEF PollCommit, PolledStatus, QueueInv, Places, Executing, TypeOK, LoopTyped
<1>. HIDE DEF c
<1>10. ReadsBehind'
    <2>. SUFFICES ASSUME NEW u \in Worker
                  PROVE  /\ seen[u] # Unread => seen[u].attempts <= attempts'[job'[u]]
                         /\ job'[u] # NoRun => ticket'[u] <= attempts'[job'[u]]
        BY <1>9 DEF ReadsBehind
    <2>1. CASE u = w
        BY <2>1, <1>1, <1>2, <1>3, <1>8, <1>9 DEF c
    <2>2. CASE u # w
        <3>1. job'[u] = job[u] /\ ticket'[u] = ticket[u] /\ ticket[u] \in Nat
              /\ job[u] \in Run \cup {NoRun}
            BY <2>2, <1>8 DEF QueueInv, TypeOK, JobTyped
        <3>2. seen[u] # Unread =>
                 job[u] \in Run /\ seen[u].attempts \in Nat /\ seen[u].attempts <= attempts[job[u]]
            BY DEF QueueInv, Places, ReadsBehind, TypeOK, JobTyped
        <3>3. job[u] # NoRun => ticket[u] <= attempts[job[u]]
            BY DEF QueueInv, ReadsBehind
        <3>4. job[u] \in Run => attempts[job[u]] \in Nat /\ attempts'[job[u]] \in Nat
                                /\ attempts[job[u]] <= attempts'[job[u]]
            BY <1>2, <1>3
        <3>. QED
            BY <3>1, <3>2, <3>3, <3>4
    <2>. QED
        BY <2>1, <2>2
<1>11. FailedOnlyWhenSpent'
    <2>. SUFFICES ASSUME NEW r \in Run, status'[r] = "FAILED"
                  PROVE  Spent(attempts'[r])
        BY DEF FailedOnlyWhenSpent, Spent
    <2>1. r \in hold[w].spent \/ status[r] = "FAILED"
        BY DEF PollCommit, PolledStatus
    <2>2. Spent(attempts[r])
        BY <2>1 DEF QueueInv, FailedOnlyWhenSpent, HoldsFresh
    <2>. QED
        BY <2>2, <1>2, <1>3, QueueAssumption DEF Spent
<1>12. ClaimsDistinct'
    <2>. SUFFICES ASSUME NEW u \in Worker, NEW v \in Worker, u # v,
                         job'[u] # NoRun, job'[u] = job'[v], ticket'[u] = ticket'[v]
                  PROVE  FALSE
        BY DEF ClaimsDistinct, Executes
    <2>1. CASE u # w /\ v # w
        BY <2>1, <1>8 DEF QueueInv, ClaimsDistinct, Executes
    <2>2. ASSUME NEW x \in Worker, x # w, job'[w] # NoRun, job'[x] = job'[w],
                 ticket'[x] = ticket'[w]
          PROVE  FALSE
        <3>1. job[x] = c /\ c # NoRun /\ c \in Run /\ ticket[x] = attempts[c] + 1
            BY <2>2, <1>1, <1>8 DEF c
        <3>2. ticket[x] <= attempts[c]
            BY <3>1 DEF QueueInv, ReadsBehind
        <3>. QED
            BY <3>1, <3>2, <1>3
    <2>. QED
        BY <2>1, <2>2
<1>. QED
    BY <1>6, <1>7, <1>10, <1>11, <1>12 DEF QueueInv

\* The invariant of the queue.
THEOREM QueueInvariant == Spec => []QueueInv
<1>1. Init => HoldsApart /\ HoldsFresh /\ ReadsBehind /\ FailedOnlyWhenSpent /\ ClaimsDistinct
    BY DEF Init, HoldsApart, HoldsFresh, Held, NoHold, ReadsBehind, FailedOnlyWhenSpent,
           ClaimsDistinct, Executes
<1>2. Init => Places
    BY QueueAssumption DEF Init, Places, Executing
<1>3. ASSUME QueueInv, TypeOK', Next
      PROVE  QueueInv'
    <2>. Places'
        BY <1>3, TypeStep DEF QueueInv
    <2>. QueueInv /\ TypeOK' /\ TypeOK
        BY <1>3 DEF QueueInv
    <2>1. ASSUME NEW r \in Run, Enqueue(r)
          PROVE  QueueInv'
        BY <2>1, QuietStep DEF Enqueue, workVars, TypeOK, RowsTyped
    <2>2. CASE Tick
        BY <2>2, QuietStep DEF Tick, workVars
    <2>3. ASSUME NEW w \in Worker, Start(w) \/ BeginCycle(w) \/ Exit(w) \/ Signal(w)
          PROVE  QueueInv'
        BY <2>3, QuietStep DEF Start, BeginCycle, Exit, Signal, rowVars, workVars
    <2>4. ASSUME NEW w \in Worker, Crash(w) \/ CycleFails(w)
          PROVE  QueueInv'
        BY <2>4, ForgetStep DEF Crash, CycleFails, rowVars
    <2>5. ASSUME NEW w \in Worker, Poll(w)
          PROVE  QueueInv'
        BY <2>5, PollStep
    <2>6. ASSUME NEW w \in Worker, PollCommit(w)
          PROVE  QueueInv'
        BY <2>6, CommitStep
    <2>7. ASSUME NEW w \in Worker, ReadRow(w)
          PROVE  QueueInv'
        <3>1. \A u \in Worker : seen'[u] = seen[u] \/ seen'[u].attempts = attempts[job[u]]
            BY <2>7 DEF ReadRow, TypeOK, JobTyped
        <3>. QED
            BY <2>7, <3>1, QuietStep DEF ReadRow, rowVars
    <2>8. ASSUME NEW w \in Worker, Work(w) \/ RunRaises(w)
          PROVE  QueueInv'
        <3>1. \A u \in Worker : seen'[u] = seen[u] \/ seen'[u] = Unread
            BY <2>8 DEF Work, RunRaises, TypeOK, JobTyped
        <3>. QED
            BY <2>8, <3>1, QuietStep DEF Work, RunRaises, rowVars
    <2>9. ASSUME NEW w \in Worker, ResetStage(w) \/ StartStage(w) \/ ReportStage(w)
          PROVE  QueueInv'
        <3>1. PICK value : UpdateStage(w, value)
            BY <2>9 DEF ResetStage, StartStage, ReportStage
        <3>2. \A u \in Worker : seen'[u] = seen[u] \/ seen'[u] = Unread
            BY <3>1 DEF UpdateStage, TypeOK, JobTyped
        <3>3. \A r \in Run : status'[r] = "FAILED" => status[r] = "FAILED"
            BY <3>1 DEF UpdateStage, TypeOK, RowsTyped
        <3>4. UNCHANGED <<attempts, hold, job, ticket>>
            BY <2>9 DEF ResetStage, StartStage, ReportStage
        <3>. QED
            BY <3>2, <3>3, <3>4, QuietStep
    <2>10. ASSUME NEW w \in Worker, Settle(w)
           PROVE  QueueInv'
        <3>1. /\ job[w] \in Run
              /\ seen[w].attempts \in Nat
              /\ seen[w].attempts <= attempts[job[w]]
            BY <2>10 DEF Settle, QueueInv, Places, ReadsBehind, TypeOK, JobTyped
        <3>2. Verdict(w) = "FAILED" => Spent(attempts[job[w]])
            <4>1. Verdict(w) = "FAILED" => Spent(seen[w].attempts)
                BY DEF Verdict
            <4>2. attempts[job[w]] \in Nat
                BY <3>1 DEF TypeOK, RowsTyped
            <4>. QED
                BY <3>1, <4>1, <4>2, QueueAssumption DEF Spent
        <3>3. \A r \in Run : status'[r] = "FAILED" => status[r] = "FAILED" \/ Spent(attempts[r])
            BY <2>10, <3>1, <3>2 DEF Settle, Flushed, TypeOK, RowsTyped
        <3>. QED
            BY <2>10, <3>3, ForgetStep DEF Settle
    <2>. QED
        BY <1>3, <2>1, <2>2, <2>3, <2>4, <2>5, <2>6, <2>7, <2>8, <2>9, <2>10
           DEF Next, Loop, Execute
<1>4. ASSUME QueueInv, UNCHANGED vars
      PROVE  QueueInv'
    BY <1>4 DEF vars, rowVars, workVars, QueueInv, TypeOK, RowsTyped, LoopTyped, JobTyped,
                Places, HoldsApart, HoldsFresh, Held, ReadsBehind, FailedOnlyWhenSpent,
                ClaimsDistinct, Executes, Spent
<1>5. QueueInv /\ TypeOK' /\ [Next]_vars => QueueInv'
    BY <1>3, <1>4
<1>6. TypeOK /\ Init => QueueInv
    BY <1>1, <1>2 DEF QueueInv
<1>. QED
    BY <1>5, <1>6, TypeCorrect, PTL DEF Spec

\* However many replicas there are and whenever their verdicts are decided and
\* written, requeue_or_fail and reclaim_stale fail only runs with no retry left.
THEOREM FailsOnlyWhenSpent == Spec => []FailedOnlyWhenSpent
<1>1. QueueInv => FailedOnlyWhenSpent
    BY DEF QueueInv
<1>. QED
    BY <1>1, QueueInvariant, PTL

\* However many replicas poll a tenant, each claim is an attempt of its own.
THEOREM ClaimsAreDistinct == Spec => []ClaimsDistinct
<1>1. QueueInv => ClaimsDistinct
    BY DEF QueueInv
<1>. QED
    BY <1>1, QueueInvariant, PTL

-----------------------------------------------------------------------------
(* How far replicas can exceed the budget.  A run whose budget is spent is *)
(* queued again only by a worker that read its row before; the claim that  *)
(* spent the budget was made by a worker that had read nothing.            *)

Behind(r) == {w \in Worker : job[w] = r /\ seen[w] # Unread /\ ~Spent(seen[w].attempts)}

Waits(r) == IF status[r] = "QUEUED" THEN 1 ELSE 0

\* The attempts made, the one that waits and those that late verdicts may queue.
CountHolds(r) ==
    Spent(attempts[r]) =>
        attempts[r] + Waits(r) + Cardinality(Behind(r)) <= MaxRetries + Cardinality(Worker) - 1

\* A row that is not inserted has no attempts; a locked row stays as it was found.
RowsHold ==
    /\ \A r \in Run : status[r] = "NONE" => attempts[r] = 0
    /\ \A w \in Worker :
         /\ \A r \in hold[w].retry : ~Spent(attempts[r])
         /\ hold[w].claim # NoRun =>
              status[hold[w].claim] = "QUEUED" \/ hold[w].claim \in hold[w].retry

OverInv == RowsHold /\ \A r \in Run : CountHolds(r)

LEMMA BehindCount ==
    ASSUME NEW r
    PROVE  /\ IsFiniteSet(Behind(r)) /\ Cardinality(Behind(r)) \in Nat
           /\ Cardinality(Worker) \in Nat
           /\ \A w \in Worker \ Behind(r) : Cardinality(Behind(r)) <= Cardinality(Worker) - 1
<1>1. Behind(r) \in SUBSET Worker /\ IsFiniteSet(Worker)
    BY QueueAssumption DEF Behind
<1>2. IsFiniteSet(Behind(r)) /\ Cardinality(Behind(r)) \in Nat /\ Cardinality(Worker) \in Nat
    BY <1>1, FS_Subset, FS_CardinalityType
<1>3. ASSUME NEW w \in Worker \ Behind(r)
      PROVE  Cardinality(Behind(r)) <= Cardinality(Worker) - 1
    <2>1. Behind(r) \in SUBSET (Worker \ {w}) /\ IsFiniteSet(Worker \ {w})
        BY <1>1, FS_RemoveElement
    <2>2. Cardinality(Worker \ {w}) = Cardinality(Worker) - 1
        BY <1>1, FS_RemoveElement
    <2>. QED
        BY <2>1, <2>2, FS_Subset
<1>. QED
    BY <1>2, <1>3

\* Nobody new is behind, and nothing new waits.
LEMMA CountStays ==
    ASSUME TypeOK, NEW r \in Run, CountHolds(r), attempts'[r] = attempts[r],
           Spent(attempts[r]) =>
              /\ status'[r] = "QUEUED" => status[r] = "QUEUED"
              /\ Behind(r)' \subseteq Behind(r)
    PROVE  CountHolds(r)'
<1>. SUFFICES ASSUME Spent(attempts[r])
              PROVE  attempts[r] + Waits(r)' + Cardinality(Behind(r)')
                        <= MaxRetries + Cardinality(Worker) - 1
    BY DEF CountHolds, Spent
<1>1. Cardinality(Behind(r)') <= Cardinality(Behind(r)) /\ Cardinality(Behind(r)') \in Nat
    BY BehindCount, FS_Subset, FS_CardinalityType
<1>2. Waits(r)' <= Waits(r) /\ Waits(r) \in Nat /\ Waits(r)' \in Nat
    BY DEF Waits
<1>3. attempts[r] \in Nat /\ MaxRetries \in Nat
    BY QueueAssumption DEF TypeOK, RowsTyped
<1>. QED
    BY <1>1, <1>2, <1>3, BehindCount DEF CountHolds

\* Locks that stay protect their rows.
LEMMA RowsStay ==
    ASSUME TypeOK, RowsHold, UNCHANGED attempts,
           \A w \in Worker : hold'[w] = hold[w] \/ hold'[w] = NoHold,
           \A r \in Run : status'[r] # status[r] => attempts[r] = 0 \/ status'[r] # "NONE",
           \A r \in Run, w \in Worker :
              status'[r] # status[r] => status'[r] = "QUEUED" \/ r \notin Held(w)
    PROVE  RowsHold'
<1>1. \A r \in Run : status'[r] = "NONE" => attempts'[r] = 0
    BY DEF RowsHold
<1>2. ASSUME NEW w \in Worker
      PROVE  /\ \A r \in hold'[w].retry : ~Spent(attempts'[r])
             /\ hold'[w].claim # NoRun =>
                  status'[hold'[w].claim] = "QUEUED" \/ hold'[w].claim \in hold'[w].retry
    <2>1. CASE hold'[w] = NoHold
        BY <2>1 DEF NoHold
    <2>2. CASE hold'[w] = hold[w]
        <3>1. hold[w].claim # NoRun => hold[w].claim \in Run /\ hold[w].claim \in Held(w)
            BY DEF TypeOK, LoopTyped, Held
        <3>. QED
            BY <2>2, <3>1 DEF RowsHold
    <2>. QED
        BY <1>2, <2>1, <2>2
<1>. QED
    BY <1>1, <1>2 DEF RowsHold, Spent

\* The step of one worker that executes: a row it may write is locked by nobody.
LEMMA UnlockedJob ==
    ASSUME TypeOK, Places, NEW w \in Worker, pc[w] # "commit", job[w] \notin HeldByOthers(w)
    PROVE  \A u \in Worker : job[w] \notin Held(u)
<1>1. hold[w] = NoHold
    BY DEF Places
<1>2. Held(w) = {}
    BY <1>1 DEF Held, NoHold
<1>. QED
    BY <1>2 DEF HeldByOthers

LEMMA OverCommit ==
    ASSUME QueueInv, OverInv, NEW w \in Worker, PollCommit(w)
    PROVE  OverInv'
<1> DEFINE h == hold[w]
<1>1. /\ h.claim \in Run \cup {NoRun} /\ h.retry \subseteq Run
      /\ h.claim # NoRun => h.attempt = attempts[h.claim] + 1 /\ h.claim \in Held(w)
      /\ h.retry \subseteq Held(w) /\ h.spent \subseteq Held(w)
    BY DEF QueueInv, TypeOK, LoopTyped, HoldsFresh, Held
<1>2. \A r \in Run : /\ attempts'[r] = IF r = h.claim THEN attempts[r] + 1 ELSE attempts[r]
                     /\ status'[r] = PolledStatus(h, r)
                     /\ attempts[r] \in Nat
    BY <1>1, QueueAssumption DEF PollCommit, QueueInv, TypeOK, RowsTyped
<1>3. \A u \in Worker : hold'[u] = IF u = w THEN NoHold ELSE hold[u]
    BY DEF PollCommit, QueueInv, TypeOK, LoopTyped
<1>4. \A r \in Run \ Held(w) : attempts'[r] = attempts[r] /\ status'[r] = status[r]
    BY <1>1, <1>2, QueueAssumption DEF PolledStatus
<1>5. \A u \in Worker : /\ seen'[u] = seen[u]
                        /\ u # w => job'[u] = job[u]
    BY DEF PollCommit, QueueInv, TypeOK, JobTyped
<1>6. seen[w] = Unread
    BY DEF PollCommit, QueueInv, Places, Executing, TypeOK, LoopTyped
<1>7. ASSUME NEW r PROVE Behind(r)' = Behind(r)
    BY <1>5, <1>6 DEF Behind, Spent
<1>8. RowsHold'
    <2>1. \A r \in Run : status'[r] = "NONE" => attempts'[r] = 0
        BY <1>2 DEF OverInv, RowsHold, PolledStatus
    <2>2. ASSUME NEW u \in Worker
          PROVE  /\ \A r \in hold'[u].retry : ~Spent(attempts'[r])
                 /\ hold'[u].claim # NoRun =>
                      status'[hold'[u].claim] = "QUEUED" \/ hold'[u].claim \in hold'[u].retry
        <3>1. CASE u = w
            BY <1>3, <3>1 DEF NoHold
        <3>2. CASE u # w
            <4>1. /\ hold[u].retry \subseteq Run \ Held(w)
                  /\ hold[u].claim # NoRun => hold[u].claim \in Run \ Held(w)
                BY <3>2 DEF QueueInv, HoldsApart, Held, TypeOK, LoopTyped
            <4>. QED
                BY <1>3, <1>4, <3>2, <4>1 DEF OverInv, RowsHold
        <3>. QED
            BY <3>1, <3>2
    <2>. QED
        BY <2>1, <2>2 DEF RowsHold, Spent
<1>9. ASSUME NEW r \in Run, Spent(attempts'[r])
      PROVE  attempts'[r] + Waits(r)' + Cardinality(Behind(r)')
                <= MaxRetries + Cardinality(Worker) - 1
    <2>1. CountHolds(r) /\ attempts[r] \in Nat /\ MaxRetries \in Nat
        BY <1>2, QueueAssumption DEF OverInv
    <2>2. CASE r = h.claim /\ Spent(attempts[r])
        <3>1. status[r] = "QUEUED"
            BY <2>2, QueueAssumption DEF OverInv, RowsHold
        <3>2. Waits(r) = 1 /\ Waits(r)' = 0 /\ attempts'[r] = attempts[r] + 1
            BY <1>2, <2>2, <3>1 DEF Waits, PolledStatus
        <3>. QED
            BY <1>7, <2>1, <2>2, <3>2, BehindCount DEF CountHolds
    <2>3. CASE r = h.claim /\ ~Spent(attempts[r])
        <3>1. attempts'[r] = MaxRetries
            BY <1>2, <1>9, <2>1, <2>3 DEF Spent
        <3>2. Waits(r)' = 0
            BY <1>2, <2>3 DEF Waits, PolledStatus
        <3>3. Cardinality(Behind(r)) <= Cardinality(Worker) - 1
            BY <1>6, BehindCount DEF Behind
        <3>. QED
            BY <1>7, <2>1, <3>1, <3>2, <3>3, BehindCount
    <2>4. CASE r # h.claim
        <3>1. attempts'[r] = attempts[r] /\ Spent(attempts[r])
            BY <1>2, <1>9, <2>4
        <3>2. r \notin h.retry
            BY <3>1 DEF OverInv, RowsHold
        <3>3. Waits(r)' <= Waits(r) /\ Waits(r)' \in Nat /\ Waits(r) \in Nat
            BY <1>2, <2>4, <3>2 DEF Waits, PolledStatus
        <3>. QED
            BY <1>7, <2>1, <3>1, <3>3, BehindCount DEF CountHolds
    <2>. QED
        BY <2>2, <2>3, <2>4
<1>. QED
    BY <1>8, <1>9 DEF OverInv, CountHolds, Spent

LEMMA OverSettle ==
    ASSUME QueueInv, OverInv, NEW w \in Worker, Settle(w)
    PROVE  OverInv'
<1>1. /\ job[w] \in Run /\ UNCHANGED attempts
      /\ status' = [status EXCEPT ![job[w]] = Flushed(seen[w].status, Verdict(w), status[job[w]])]
      /\ \A u \in Worker : IF u = w THEN seen'[u] = Unread
                                    ELSE seen'[u] = seen[u] /\ job'[u] = job[u]
      /\ \A u \in Worker : hold'[u] = hold[u] \/ hold'[u] = NoHold
    BY DEF Settle, Forget, QueueInv, Places, TypeOK, JobTyped, LoopTyped
<1>2. \A r \in Run : status'[r] # status[r] => r = job[w] /\ status'[r] = Verdict(w)
    BY <1>1 DEF Flushed, QueueInv, TypeOK, RowsTyped
<1>3. \A u \in Worker : job[w] \notin Held(u)
    BY UnlockedJob DEF Settle, QueueInv
<1>4. RowsHold'
    <2>1. Verdict(w) # "NONE"
        BY DEF Verdict
    <2>. QED
        BY <1>1, <1>2, <1>3, <2>1, RowsStay DEF QueueInv, OverInv
<1>5. ASSUME NEW r PROVE Behind(r)' = Behind(r) \ {w}
    BY <1>1 DEF Behind, Spent
<1>6. ASSUME NEW r \in Run PROVE CountHolds(r)'
    <2>0. CountHolds(r) /\ attempts[r] \in Nat /\ MaxRetries \in Nat /\ attempts'[r] = attempts[r]
        BY <1>1, QueueAssumption DEF OverInv, QueueInv, TypeOK, RowsTyped
    <2>1. CASE status'[r] = "QUEUED" /\ status[r] # "QUEUED"
        <3>1. r = job[w] /\ ~Spent(seen[w].attempts) /\ seen[w] # Unread
            BY <1>2, <2>1 DEF Verdict, Settle
        <3>2. w \in Behind(r)
            BY <3>1 DEF Behind
        <3>3. Cardinality(Behind(r)') = Cardinality(Behind(r)) - 1
            BY <1>5, <3>2, BehindCount, FS_RemoveElement
        <3>4. Waits(r)' = 1 /\ Waits(r) = 0
            BY <2>1 DEF Waits
        <3>. QED
            BY <2>0, <3>3, <3>4, BehindCount DEF CountHolds, Spent
    <2>2. CASE status'[r] = "QUEUED" => status[r] = "QUEUED"
        BY <1>5, <2>0, <2>2, CountStays DEF QueueInv
    <2>. QED
        BY <2>1, <2>2
<1>. QED
    BY <1>4, <1>6 DEF OverInv

\* Steps that claim nothing and decide nothing.
LEMMA OverQuiet ==
    ASSUME QueueInv, OverInv, UNCHANGED attempts,
           \A w \in Worker : hold'[w] = hold[w] \/ hold'[w] = NoHold,
           \A r \in Run : status'[r] # status[r] =>
              /\ status'[r] # "NONE" /\ (status'[r] = "QUEUED" => attempts[r] = 0)
              /\ status'[r] = "QUEUED" \/ \A w \in Worker : r \notin Held(w),
           \A w \in Worker : \/ seen'[w] = Unread
                             \/ seen'[w] = seen[w] /\ job'[w] = job[w]
                             \/ job'[w] = job[w] /\ seen'[w].attempts = attempts[job[w]]
    PROVE  OverInv'
<1>1. RowsHold'
    BY RowsStay DEF QueueInv, OverInv
<1>2. ASSUME NEW r \in Run PROVE CountHolds(r)'
    <2>1. Spent(attempts[r]) => (status'[r] = "QUEUED" => status[r] = "QUEUED")
        BY QueueAssumption DEF Spent
    <2>2. Spent(attempts[r]) => Behind(r)' \subseteq Behind(r)
        BY DEF Behind, Spent
    <2>. QED
        BY <2>1, <2>2, CountStays DEF QueueInv, OverInv
<1>. QED
    BY <1>1, <1>2 DEF OverInv

LEMMA OverStep ==
    ASSUME QueueInv, OverInv, [Next]_vars
    PROVE  OverInv'
<1>0. TypeOK /\ Places
    BY DEF QueueInv
<1>1. ASSUME NEW r \in Run, Enqueue(r) PROVE OverInv'
    <2>1. \A s \in Run : status'[s] # status[s] => s = r /\ status'[s] = "QUEUED"
        BY <1>0, <1>1 DEF Enqueue, TypeOK, RowsTyped
    <2>2. attempts[r] = 0 /\ ~Spent(attempts[r])
        BY <1>1, QueueAssumption DEF Enqueue, OverInv, RowsHold, Spent
    <2>. QED
        BY <1>1, <2>1, <2>2, OverQuiet DEF Enqueue, workVars
<1>2. CASE Tick
    BY <1>2, OverQuiet DEF Tick, workVars
<1>3. ASSUME NEW w \in Worker, Start(w) \/ BeginCycle(w) \/ Exit(w) \/ Signal(w)
      PROVE  OverInv'
    BY <1>3, OverQuiet DEF Start, BeginCycle, Exit, Signal, rowVars, workVars
<1>4. ASSUME NEW w \in Worker, Crash(w) \/ CycleFails(w) PROVE OverInv'
    <2>1. UNCHANGED rowVars /\ Forget(w)
        BY <1>4 DEF Crash, CycleFails
    <2>2. \A u \in Worker : /\ hold'[u] = hold[u] \/ hold'[u] = NoHold
                            /\ seen'[u] = Unread \/ (seen'[u] = seen[u] /\ job'[u] = job[u])
        BY <1>0, <2>1 DEF Forget, TypeOK, LoopTyped, JobTyped
    <2>. QED
        BY <2>1, <2>2, OverQuiet DEF rowVars
<1>5. ASSUME NEW w \in Worker, Poll(w) PROVE OverInv'
    <2>1. PICK skipped : hold' = [hold EXCEPT ![w] = Selects(w, skipped)]
        BY <1>5 DEF Poll
    <2> DEFINE h == Selects(w, skipped)
    <2>2. /\ \A r \in h.retry : ~Spent(attempts[r])
          /\ h.claim # NoRun => status[h.claim] = "QUEUED" \/ h.claim \in h.retry
        BY <1>0, Selection
    <2>. HIDE DEF h
    <2>3. \A u \in Worker : hold'[u] = IF u = w THEN h ELSE hold[u]
        BY <1>0, <2>1 DEF h, TypeOK, LoopTyped
    <2>4. UNCHANGED <<status, attempts, job, seen>>
        BY <1>5 DEF Poll, rowVars, workVars
    <2>5. RowsHold'
        BY <2>2, <2>3, <2>4 DEF OverInv, RowsHold, Spent
    <2>6. \A r \in Run : CountHolds(r)'
        BY <2>4 DEF OverInv, CountHolds, Waits, Behind, Spent
    <2>. QED
        BY <2>5, <2>6 DEF OverInv
<1>6. ASSUME NEW w \in Worker, PollCommit(w) PROVE OverInv'
    BY <1>6, OverCommit
<1>7. ASSUME NEW w \in Worker, ReadRow(w) PROVE OverInv'
    <2>1. \A u \in Worker : seen'[u] = seen[u] \/ seen'[u].attempts = attempts[job[u]]
        BY <1>0, <1>7 DEF ReadRow, TypeOK, JobTyped
    <2>. QED
        BY <1>7, <2>1, OverQuiet DEF ReadRow, rowVars
<1>8. ASSUME NEW w \in Worker, Work(w) \/ RunRaises(w) PROVE OverInv'
    <2>1. \A u \in Worker : seen'[u] = seen[u] \/ seen'[u] = Unread
        BY <1>0, <1>8 DEF Work, RunRaises, TypeOK, JobTyped
    <2>. QED
        BY <1>8, <2>1, OverQuiet DEF Work, RunRaises, rowVars
<1>9. ASSUME NEW w \in Worker, ResetStage(w) \/ StartStage(w) \/ ReportStage(w)
      PROVE  OverInv'
    <2>1. PICK value : UpdateStage(w, value)
        BY <1>9 DEF ResetStage, StartStage, ReportStage
    <2>2. \A u \in Worker : seen'[u] = seen[u] \/ seen'[u] = Unread
        BY <1>0, <2>1 DEF UpdateStage, TypeOK, JobTyped
    <2>3. \A r \in Run : status'[r] # status[r] => r = job[w] /\ status'[r] = "RUNNING"
        BY <1>0, <2>1 DEF UpdateStage, TypeOK, RowsTyped
    <2>4. \A u \in Worker : job[w] \notin Held(u)
        BY <1>0, <1>9, <2>1, UnlockedJob DEF ResetStage, StartStage, ReportStage, UpdateStage
    <2>5. UNCHANGED <<attempts, hold, job>>
        BY <1>9 DEF ResetStage, StartStage, ReportStage
    <2>. QED
        BY <2>2, <2>3, <2>4, <2>5, OverQuiet
<1>10. ASSUME NEW w \in Worker, Settle(w) PROVE OverInv'
    BY <1>10, OverSettle
<1>11. CASE UNCHANGED vars
    BY <1>11, OverQuiet DEF vars, rowVars, workVars
<1>. QED
    BY <1>1, <1>2, <1>3, <1>4, <1>5, <1>6, <1>7, <1>8, <1>9, <1>10, <1>11
       DEF Next, Loop, Execute

\* Late verdicts take a run beyond its budget by one attempt less than there are replicas.
THEOREM LateVerdictsBounded == Spec => []OvershootBounded
<1>1. Init => OverInv
    <2>. SUFFICES ASSUME Init PROVE OverInv
        OBVIOUS
    <2>1. \A r \in Run : attempts[r] = 0 /\ ~Spent(attempts[r])
        BY QueueAssumption DEF Init, Spent
    <2>. QED
        BY <2>1 DEF Init, OverInv, RowsHold, CountHolds, NoHold
<1>2. QueueInv /\ OverInv => OvershootBounded
    <2>. SUFFICES ASSUME QueueInv, OverInv, NEW r \in Run
                  PROVE  attempts[r] <= MaxRetries + Cardinality(Worker) - 1
        BY DEF OvershootBounded
    <2>1. attempts[r] \in Nat /\ MaxRetries \in Nat /\ Waits(r) \in Nat
        BY QueueAssumption DEF QueueInv, TypeOK, RowsTyped, Waits
    <2>2. CASE Spent(attempts[r])
        BY <2>1, <2>2, BehindCount DEF OverInv, CountHolds
    <2>3. CASE ~Spent(attempts[r])
        BY <2>1, <2>3, BehindCount DEF Spent
    <2>. QED
        BY <2>2, <2>3
<1>3. QueueInv /\ OverInv /\ [Next]_vars => OverInv'
    BY OverStep
<1>. QED
    BY <1>1, <1>2, <1>3, QueueInvariant, PTL DEF Spec

-----------------------------------------------------------------------------
(* One worker replica, the deployment of docker-compose.yml, for every     *)
(* number of runs, tenants, stages and retries.  With two replicas none of *)
(* the facts below holds.                                                  *)

OneReplica == \A u, w \in Worker : u = w

\* A row that is not inserted has no attempt.
Fresh == \A r \in Run : status[r] = "NONE" => attempts[r] = 0

\* The unlocked read of a transaction is still current when it writes.
SeenCurrent ==
    \A w \in Worker : seen[w] # Unread =>
        /\ seen[w].status = status[job[w]]
        /\ seen[w].attempts = attempts[job[w]]
        /\ seen[w].stages = stages[job[w]]

\* What a poll is about to write fits the rows it locked.
HoldCurrent ==
    \A w \in Worker :
        /\ \A r \in hold[w].retry : status[r] = "RUNNING" /\ ~Spent(attempts[r])
        /\ \A r \in hold[w].spent : status[r] = "RUNNING" /\ Spent(attempts[r])
        /\ hold[w].claim # NoRun =>
              /\ status[hold[w].claim] \in {"QUEUED", "RUNNING"}
              /\ ~Spent(attempts[hold[w].claim])

\* The stages behind the one a worker is at are DONE in the row.
Progress ==
    \A w \in Worker :
        /\ pc[w] \in {"start", "work", "report"} =>
              \A k \in Stage : k < step[w] => stages[job[w]][k] = "DONE"
        /\ pc[w] = "settle" /\ outcome[w] = "DONE" =>
              \A k \in Stage : stages[job[w]][k] = "DONE"

SoloInv ==
    /\ Fresh
    /\ SeenCurrent
    /\ HoldCurrent
    /\ Progress
    /\ RetryBudget
    /\ ClaimHolds
    /\ SucceededMeansAllDone

-----------------------------------------------------------------------------

\* Attempts are left exactly when they are not used up.
LEMMA Budget ==
    ASSUME TypeOK, NEW r \in Run
    PROVE  /\ attempts[r] \in Nat
           /\ Spent(attempts[r]) <=> attempts[r] >= MaxRetries
           /\ ~Spent(attempts[r]) <=> attempts[r] < MaxRetries
           /\ ~Spent(attempts[r]) => attempts[r] + 1 <= MaxRetries
BY QueueAssumption DEF TypeOK, RowsTyped, Spent

\* A poll selects rows that fit what it will do with them.
LEMMA SoloPoll ==
    ASSUME TypeOK, QueueInv, SoloInv, OneReplica, NEW w \in Worker, Poll(w)
    PROVE  SoloInv'
<1>1. PICK skipped : hold' = [hold EXCEPT ![w] = Selects(w, skipped)]
    BY DEF Poll
<1> DEFINE h == Selects(w, skipped)
<1>2. /\ h.retry \subseteq Run /\ h.spent \subseteq Run /\ h.claim \in Run \cup {NoRun}
      /\ \A r \in h.retry : status[r] = "RUNNING" /\ ~Spent(attempts[r])
      /\ \A r \in h.spent : status[r] = "RUNNING" /\ Spent(attempts[r])
      /\ h.claim # NoRun => status[h.claim] = "QUEUED" \/ h.claim \in h.retry
    BY Selection DEF Stale
<1>. HIDE DEF h
<1>3. \A u \in Worker : hold'[u] = h
    BY <1>1 DEF h, OneReplica, TypeOK, LoopTyped
<1>4. UNCHANGED <<status, attempts, age, stages, at, job, ticket, step, outcome, seen>>
    BY DEF Poll, rowVars, workVars
<1>5. \A r \in Run : status[r] = "QUEUED" => ~Spent(attempts[r])
    BY Budget DEF SoloInv, RetryBudget
<1>6. HoldCurrent'
    BY <1>2, <1>3, <1>4, <1>5 DEF HoldCurrent, Spent
<1>7. \A u \in Worker : pc'[u] = "commit"
    BY DEF Poll, OneReplica, TypeOK, LoopTyped
<1>8. Progress'
    BY <1>7 DEF Progress
<1>9. Fresh' /\ SeenCurrent' /\ RetryBudget' /\ ClaimHolds' /\ SucceededMeansAllDone'
    BY <1>4 DEF SoloInv, Fresh, SeenCurrent, RetryBudget, ClaimHolds,
                SucceededMeansAllDone, Executes
<1>. QED
    BY <1>6, <1>8, <1>9 DEF SoloInv

\* A poll commits.
LEMMA SoloCommit ==
    ASSUME TypeOK, QueueInv, SoloInv, OneReplica, NEW w \in Worker, PollCommit(w)
    PROVE  SoloInv'
<1> DEFINE c == hold[w].claim
<1>1. /\ c \in Run \cup {NoRun}
      /\ c # NoRun =>
            /\ hold[w].attempt = attempts[c] + 1
            /\ status[c] \in {"QUEUED", "RUNNING"}
            /\ ~Spent(attempts[c])
      /\ \A r \in hold[w].retry : status[r] = "RUNNING" /\ ~Spent(attempts[r])
      /\ \A r \in hold[w].spent : status[r] = "RUNNING" /\ Spent(attempts[r])
    BY DEF TypeOK, LoopTyped, QueueInv, HoldsFresh, SoloInv, HoldCurrent
<1>2. /\ \A r \in Run : attempts'[r] = IF r = c THEN attempts[r] + 1 ELSE attempts[r]
      /\ \A r \in Run : status'[r] = IF r = c THEN "RUNNING"
                                     ELSE IF r \in hold[w].retry THEN "QUEUED"
                                     ELSE IF r \in hold[w].spent THEN "FAILED"
                                     ELSE status[r]
      /\ UNCHANGED <<stages, step, outcome, seen>>
    BY <1>1, QueueAssumption DEF PollCommit, PolledStatus
<1>3. \A u \in Worker : u = w /\ hold'[u] = NoHold /\ job'[u] = c /\ ticket'[u] = hold[w].attempt
    BY DEF PollCommit, PolledStatus, OneReplica, TypeOK, LoopTyped, JobTyped
<1>4. \A u \in Worker : seen'[u] = Unread
    BY <1>2 DEF PollCommit, PolledStatus, QueueInv, Places, Executing, OneReplica
<1>5. \A u \in Worker : pc'[u] \in {"poll", "top", "reset"}
    BY DEF PollCommit, PolledStatus, NextTenant, OneReplica, TypeOK, LoopTyped
<1>. HIDE DEF c
<1>6. SeenCurrent' /\ HoldCurrent' /\ Progress'
    BY <1>3, <1>4, <1>5 DEF SeenCurrent, HoldCurrent, Progress, NoHold
<1>7. RetryBudget'
    <2>. SUFFICES ASSUME NEW r \in Run
                  PROVE  /\ attempts'[r] <= MaxRetries
                         /\ status'[r] = "QUEUED" => attempts'[r] < MaxRetries
        BY DEF RetryBudget
    <2>1. CASE r = c
        <3>1. ~Spent(attempts[r])
            BY <2>1, <1>1, QueueAssumption
        <3>. QED
            BY <2>1, <3>1, <1>2, Budget
    <2>2. CASE r # c
        BY <2>2, <1>1, <1>2, Budget DEF SoloInv, RetryBudget
    <2>. QED
        BY <2>1, <2>2
<1>8. Fresh'
    BY <1>1, <1>2 DEF SoloInv, Fresh
<1>9. ClaimHolds'
    BY <1>1, <1>2, <1>3 DEF ClaimHolds, Executes
<1>10. SucceededMeansAllDone'
    BY <1>2 DEF SoloInv, SucceededMeansAllDone
<1>. QED
    BY <1>6, <1>7, <1>8, <1>9, <1>10 DEF SoloInv

\* A stage report changes one entry of the row's stages and nothing else.
LEMMA SoloUpdate ==
    ASSUME TypeOK, QueueInv, SoloInv, NEW w \in Worker, NEW value, UpdateStage(w, value)
    PROVE  /\ job[w] \in Run
           /\ UNCHANGED <<status, age>>
           /\ stages' = [stages EXCEPT ![job[w]] = [@ EXCEPT ![step[w]] = value]]
<1>1. job[w] \in Run /\ status[job[w]] = "RUNNING"
    BY QueueAssumption DEF UpdateStage, QueueInv, Places, SoloInv, ClaimHolds, Executes
<1>2. seen[w].status = status[job[w]] /\ seen[w].stages = stages[job[w]]
    BY DEF UpdateStage, SoloInv, SeenCurrent
<1>3. status' = [status EXCEPT ![job[w]] = @] /\ age' = [age EXCEPT ![job[w]] = @]
    BY <1>1, <1>2 DEF UpdateStage
<1>4. status' = status /\ age' = age
    BY <1>1, <1>3 DEF TypeOK, RowsTyped
<1>5. Flushed(seen[w].stages, [seen[w].stages EXCEPT ![step[w]] = value], stages[job[w]])
        = [stages[job[w]] EXCEPT ![step[w]] = value]
    BY <1>2 DEF Flushed
<1>. QED
    BY <1>1, <1>4, <1>5 DEF UpdateStage

\* Stage reports: the stage reported DONE is the one the worker leaves behind.
LEMMA SoloReport ==
    ASSUME TypeOK, QueueInv, SoloInv, OneReplica, NEW w \in Worker,
           ResetStage(w) \/ StartStage(w) \/ ReportStage(w)
    PROVE  SoloInv'
<1>1. PICK value :
        /\ UpdateStage(w, value)
        /\ ReportStage(w) => value = outcome[w]
    BY DEF ResetStage, StartStage, ReportStage
<1>2. /\ job[w] \in Run
      /\ UNCHANGED <<status, age, attempts, job, ticket, hold, outcome>>
      /\ stages' = [stages EXCEPT ![job[w]] = [@ EXCEPT ![step[w]] = value]]
    BY <1>1, SoloUpdate DEF ResetStage, StartStage, ReportStage
<1>3. \A u \in Worker : u = w /\ seen'[u] = Unread
    BY <1>1 DEF UpdateStage, OneReplica, TypeOK, JobTyped
<1>4. Fresh' /\ HoldCurrent' /\ RetryBudget' /\ ClaimHolds' /\ SeenCurrent'
    BY <1>2, <1>3 DEF SoloInv, Fresh, HoldCurrent, RetryBudget, ClaimHolds, SeenCurrent,
                      Executes, Spent
<1>5. SucceededMeansAllDone'
    <2>1. status[job[w]] = "RUNNING"
        BY <1>2, QueueAssumption DEF SoloInv, ClaimHolds, Executes
    <2>2. \A r \in Run : status[r] = "SUCCEEDED" => stages'[r] = stages[r]
        BY <2>1, <1>2 DEF TypeOK, RowsTyped
    <2>. QED
        BY <2>2, <1>2 DEF SoloInv, SucceededMeansAllDone
<1>6. /\ step[w] \in Stage
      /\ \A k \in Stage : stages'[job[w]][k] =
            IF k = step[w] THEN value ELSE stages[job[w]][k]
    BY <1>2 DEF TypeOK, RowsTyped, JobTyped
<1>7. Progress'
    <2>1. CASE ResetStage(w)
        <3>1. pc'[w] = "reset" \/ (pc'[w] = "start" /\ step'[w] = 1)
            BY <2>1 DEF ResetStage, TypeOK, LoopTyped, JobTyped
        <3>2. \A k \in Stage : ~(k < 1)
            BY DEF Stage
        <3>. QED
            BY <1>3, <3>1, <3>2 DEF Progress
    <2>2. CASE StartStage(w)
        <3>1. pc[w] = "start" /\ pc'[w] = "work" /\ step'[w] = step[w]
            BY <2>2 DEF StartStage, TypeOK, LoopTyped, JobTyped
        <3>2. \A k \in Stage : k < step[w] => k # step[w]
            BY <1>6 DEF Stage
        <3>. QED
            BY <1>2, <1>3, <1>6, <3>1, <3>2 DEF SoloInv, Progress
    <2>3. CASE ReportStage(w)
        <3>1. /\ pc[w] = "report" /\ value = outcome[w]
              /\ outcome[w] \in {"DONE", "FAILED"}
              /\ \A k \in Stage : k < step[w] => stages[job[w]][k] = "DONE"
            BY <2>3, <1>1 DEF ReportStage, SoloInv, Progress, TypeOK, JobTyped
        <3>2. outcome[w] = "DONE" =>
                 \A k \in Stage : k <= step[w] => stages'[job[w]][k] = "DONE"
            BY <1>6, <3>1 DEF Stage
        <3>3. CASE outcome[w] = "FAILED" \/ step[w] = StageCount
            <4>1. pc'[w] = "settle"
                BY <2>3, <3>3 DEF ReportStage, TypeOK, LoopTyped
            <4>2. \A k \in Stage : k <= StageCount
                BY QueueAssumption DEF Stage
            <4>. QED
                BY <1>2, <1>3, <3>2, <3>3, <4>1, <4>2 DEF Progress
        <3>4. CASE outcome[w] = "DONE" /\ step[w] # StageCount
            <4>1. pc'[w] = "start" /\ step'[w] = step[w] + 1
                BY <2>3, <3>4 DEF ReportStage, TypeOK, LoopTyped, JobTyped
            <4>2. \A k \in Stage : k < step[w] + 1 => k <= step[w]
                BY <1>6 DEF Stage
            <4>. QED
                BY <1>2, <1>3, <3>2, <3>4, <4>1, <4>2 DEF Progress
        <3>. QED
            BY <3>1, <3>3, <3>4
    <2>. QED
        BY <2>1, <2>2, <2>3
<1>. QED
    BY <1>4, <1>5, <1>7 DEF SoloInv

\* What the verdict does to the row of the job, and to no other row.
LEMMA SoloVerdict ==
    ASSUME TypeOK, QueueInv, SoloInv, NEW w \in Worker, Settle(w)
    PROVE  /\ job[w] \in Run
           /\ status[job[w]] = "RUNNING"
           /\ status' = [status EXCEPT ![job[w]] = Verdict(w)]
           /\ Verdict(w) \in {"SUCCEEDED", "FAILED", "QUEUED"}
           /\ Verdict(w) = "SUCCEEDED" => outcome[w] = "DONE"
           /\ Verdict(w) = "FAILED" => Spent(attempts[job[w]])
           /\ Verdict(w) = "QUEUED" => ~Spent(attempts[job[w]])
<1>1. job[w] \in Run /\ status[job[w]] = "RUNNING"
    BY QueueAssumption DEF Settle, QueueInv, Places, SoloInv, ClaimHolds, Executes
<1>2. seen[w].status = "RUNNING" /\ seen[w].attempts = attempts[job[w]]
    BY <1>1 DEF Settle, SoloInv, SeenCurrent
<1>3. /\ Verdict(w) \in {"SUCCEEDED", "FAILED", "QUEUED"}
      /\ Verdict(w) = "SUCCEEDED" => outcome[w] = "DONE"
      /\ Verdict(w) = "FAILED" => Spent(attempts[job[w]])
      /\ Verdict(w) = "QUEUED" => ~Spent(attempts[job[w]])
    BY <1>2 DEF Verdict
<1>4. Flushed(seen[w].status, Verdict(w), status[job[w]]) = Verdict(w)
    BY <1>2, <1>3 DEF Flushed
<1>. QED
    BY <1>1, <1>3, <1>4 DEF Settle

LEMMA SoloSettle ==
    ASSUME TypeOK, QueueInv, SoloInv, OneReplica, NEW w \in Worker, Settle(w)
    PROVE  SoloInv'
<1>1. /\ \A u \in Worker : u = w /\ hold'[u] = NoHold /\ job'[u] = NoRun /\ seen'[u] = Unread
      /\ UNCHANGED <<attempts, stages>>
      /\ \A u \in Worker : pc'[u] \in {"poll", "top"}
    BY DEF Settle, Forget, NextTenant, OneReplica, TypeOK, LoopTyped, JobTyped
<1>2. SeenCurrent' /\ HoldCurrent' /\ Progress' /\ ClaimHolds'
    BY <1>1 DEF SeenCurrent, HoldCurrent, Progress, ClaimHolds, Executes, NoHold
<1>3. \A r \in Run : status'[r] = IF r = job[w] THEN Verdict(w) ELSE status[r]
    BY SoloVerdict DEF TypeOK, RowsTyped
<1>4. Fresh'
    BY <1>1, <1>3, SoloVerdict DEF SoloInv, Fresh
<1>5. RetryBudget'
    <2>1. Verdict(w) = "QUEUED" => attempts[job[w]] < MaxRetries
        BY SoloVerdict, Budget
    <2>. QED
        BY <1>1, <1>3, <2>1 DEF SoloInv, RetryBudget
<1>6. SucceededMeansAllDone'
    <2>1. Verdict(w) = "SUCCEEDED" => \A k \in Stage : stages[job[w]][k] = "DONE"
        BY SoloVerdict DEF Settle, SoloInv, Progress
    <2>. QED
        BY <1>1, <1>3, <2>1 DEF SoloInv, SucceededMeansAllDone
<1>. QED
    BY <1>2, <1>4, <1>5, <1>6 DEF SoloInv

\* Every step of a single replica keeps the invariant.
LEMMA SoloStep ==
    ASSUME TypeOK, QueueInv, SoloInv, OneReplica, [Next]_vars
    PROVE  SoloInv'
<1>1. ASSUME NEW r \in Run, Enqueue(r)
      PROVE  SoloInv'
    <2>1. /\ status[r] = "NONE" /\ attempts[r] = 0
          /\ status' = [status EXCEPT ![r] = "QUEUED"]
          /\ UNCHANGED <<attempts, stages, pc, hold, job, ticket, step, outcome, seen>>
        BY <1>1 DEF Enqueue, workVars, SoloInv, Fresh
    <2>2. \A s \in Run : status'[s] = IF s = r THEN "QUEUED" ELSE status[s]
        BY <2>1 DEF TypeOK, RowsTyped
    <2>3. Fresh' /\ RetryBudget'
        BY <2>1, <2>2, QueueAssumption DEF SoloInv, Fresh, RetryBudget
    <2>4. ClaimHolds' /\ SeenCurrent'
        <3>1. \A w \in Worker : job[w] # NoRun =>
                 job[w] \in Run /\ job[w] # r /\ status'[job[w]] = status[job[w]]
            BY <2>1, <2>2 DEF SoloInv, ClaimHolds, Executes, TypeOK, JobTyped
        <3>2. \A w \in Worker : seen[w] # Unread => job[w] # NoRun
            BY QueueAssumption DEF QueueInv, Places
        <3>3. ClaimHolds'
            BY <2>1, <3>1 DEF SoloInv, ClaimHolds, Executes
        <3>4. SeenCurrent'
            BY <2>1, <3>1, <3>2 DEF SoloInv, SeenCurrent
        <3>. QED
            BY <3>3, <3>4
    <2>5. HoldCurrent'
        BY <2>1, <2>2 DEF SoloInv, HoldCurrent, Spent, TypeOK, LoopTyped
    <2>6. Progress' /\ SucceededMeansAllDone'
        BY <2>1, <2>2 DEF SoloInv, Progress, SucceededMeansAllDone
    <2>. QED
        BY <2>3, <2>4, <2>5, <2>6 DEF SoloInv
<1>2. CASE Tick
    <2>. UNCHANGED <<status, attempts, stages, pc, hold, job, ticket, step, outcome, seen>>
        BY <1>2 DEF Tick, workVars
    <2>. QED
        BY DEF SoloInv, Fresh, SeenCurrent, HoldCurrent, Progress, RetryBudget, ClaimHolds,
               SucceededMeansAllDone, Executes, Spent
<1>3. ASSUME NEW w \in Worker, Start(w) \/ BeginCycle(w) \/ Exit(w) \/ Signal(w)
      PROVE  SoloInv'
    <2>1. UNCHANGED <<status, attempts, stages, hold, job, ticket, step, outcome, seen>>
        BY <1>3 DEF Start, BeginCycle, Exit, Signal, rowVars, workVars
    <2>2. \A u \in Worker : pc'[u] = pc[u] \/ pc'[u] \in {"top", "poll", "down"}
        BY <1>3 DEF Start, BeginCycle, Exit, Signal, TypeOK, LoopTyped
    <2>3. Progress'
        BY <2>1, <2>2 DEF SoloInv, Progress
    <2>. QED
        BY <2>1, <2>3 DEF SoloInv, Fresh, SeenCurrent, HoldCurrent, RetryBudget, ClaimHolds,
                          SucceededMeansAllDone, Executes, Spent
<1>4. ASSUME NEW w \in Worker, Crash(w) \/ CycleFails(w)
      PROVE  SoloInv'
    <2>1. UNCHANGED <<status, attempts, stages>>
        BY <1>4 DEF Crash, CycleFails, rowVars
    <2>2. \A u \in Worker : /\ hold'[u] = NoHold /\ job'[u] = NoRun /\ seen'[u] = Unread
                            /\ pc'[u] \in {"down", "top"}
        BY <1>4 DEF Crash, CycleFails, Forget, OneReplica, TypeOK, LoopTyped, JobTyped
    <2>. QED
        BY <2>1, <2>2 DEF SoloInv, Fresh, SeenCurrent, HoldCurrent, Progress, RetryBudget,
                          ClaimHolds, SucceededMeansAllDone, Executes, NoHold
<1>5. ASSUME NEW w \in Worker, ReadRow(w)
      PROVE  SoloInv'
    <2>1. UNCHANGED <<status, attempts, stages, pc, hold, job, ticket, step, outcome>>
        BY <1>5 DEF ReadRow, rowVars
    <2>2. \A u \in Worker : seen'[u] = [status   |-> status[job[u]],
                                        attempts |-> attempts[job[u]],
                                        stages   |-> stages[job[u]]]
        BY <1>5 DEF ReadRow, OneReplica, TypeOK, JobTyped
    <2>3. SeenCurrent'
        <3>. SUFFICES ASSUME NEW u \in Worker
                      PROVE  /\ seen'[u].status = status'[job'[u]]
                             /\ seen'[u].attempts = attempts'[job'[u]]
                             /\ seen'[u].stages = stages'[job'[u]]
            BY Zenon DEF SeenCurrent
        <3>1. seen'[u] = [status   |-> status[job[u]],
                          attempts |-> attempts[job[u]],
                          stages   |-> stages[job[u]]]
            BY <2>2
        <3>2. status' = status /\ attempts' = attempts /\ stages' = stages /\ job' = job
            BY <2>1
        <3>. QED
            BY <3>1, <3>2
    <2>4. Progress'
        BY <2>1 DEF SoloInv, Progress
    <2>. QED
        BY <2>1, <2>3, <2>4 DEF SoloInv, Fresh, HoldCurrent, RetryBudget, ClaimHolds,
                                SucceededMeansAllDone, Executes, Spent
<1>6. ASSUME NEW w \in Worker, Work(w) \/ RunRaises(w)
      PROVE  SoloInv'
    <2>1. UNCHANGED <<status, attempts, stages, hold, job, ticket, step>>
        BY <1>6 DEF Work, RunRaises, rowVars
    <2>2. \A u \in Worker : u = w /\ (seen'[u] = seen[u] \/ seen'[u] = Unread)
        BY <1>6 DEF Work, RunRaises, OneReplica, TypeOK, JobTyped
    <2>3. \/ pc[w] = "work" /\ pc'[w] = "report"
          \/ pc'[w] = "settle" /\ outcome'[w] = "FAILED"
        BY <1>6 DEF Work, RunRaises, TypeOK, LoopTyped, JobTyped
    <2>4. Progress'
        BY <2>1, <2>2, <2>3 DEF SoloInv, Progress
    <2>. QED
        BY <2>1, <2>2, <2>4 DEF SoloInv, Fresh, SeenCurrent, HoldCurrent, RetryBudget,
                                ClaimHolds, SucceededMeansAllDone, Executes, Spent
<1>7. CASE UNCHANGED vars
    BY <1>7 DEF vars, rowVars, workVars, SoloInv, Fresh, SeenCurrent, HoldCurrent, Progress,
                RetryBudget, ClaimHolds, SucceededMeansAllDone, Executes, Spent
<1>. QED
    BY <1>1, <1>2, <1>3, <1>4, <1>5, <1>6, <1>7,
       SoloPoll, SoloCommit, SoloReport, SoloSettle DEF Next, Loop, Execute

\* The invariant of a queue with one replica.
THEOREM SoloInvariant ==
    ASSUME OneReplica
    PROVE  Spec => []SoloInv
<1>1. Init => SoloInv
    BY QueueAssumption
       DEF Init, SoloInv, Fresh, SeenCurrent, HoldCurrent, Progress, RetryBudget, ClaimHolds,
           SucceededMeansAllDone, Executes, NoHold
<1>2. TypeOK /\ QueueInv /\ SoloInv /\ [Next]_vars => SoloInv'
    BY SoloStep
<1>. QED
    BY <1>1, <1>2, TypeCorrect, QueueInvariant, PTL DEF Spec

\* With one replica no run gets more attempts than WORKER_MAX_RETRIES, and no
\* run waits in the queue with none left, crashes counted.
THEOREM BudgetKept ==
    ASSUME OneReplica
    PROVE  Spec => []RetryBudget
<1>1. SoloInv => RetryBudget
    BY DEF SoloInv
<1>. QED
    BY <1>1, SoloInvariant, PTL

\* With one replica nobody touches a run while a worker executes it: the stale
\* window never strikes a live run.
THEOREM ClaimsHold ==
    ASSUME OneReplica
    PROVE  Spec => []ClaimHolds
<1>1. SoloInv => ClaimHolds
    BY DEF SoloInv
<1>. QED
    BY <1>1, SoloInvariant, PTL

\* With one replica SUCCEEDED means that every stage of the last attempt is DONE.
THEOREM SuccessIsComplete ==
    ASSUME OneReplica
    PROVE  Spec => []SucceededMeansAllDone
<1>1. SoloInv => SucceededMeansAllDone
    BY DEF SoloInv
<1>. QED
    BY <1>1, SoloInvariant, PTL

\* With one replica the queue implements the lifecycle of a run: attempts are
\* counted and bounded, and SUCCEEDED and FAILED are final.
THEOREM QueueImplementsLifecycle ==
    ASSUME OneReplica
    PROVE  Spec => LifecycleSpec
<1>1. Init => Lifecycle!LifecycleInit
    BY DEF Init, Lifecycle!LifecycleInit
<1>2. TypeOK /\ QueueInv /\ SoloInv /\ [Next]_vars
        => [Lifecycle!LifecycleNext]_<<status, attempts>>
    <2>. SUFFICES ASSUME TypeOK, QueueInv, SoloInv, [Next]_vars
                  PROVE  Lifecycle!LifecycleNext \/ UNCHANGED <<status, attempts>>
        BY DEF Lifecycle!lifecycleVars
    <2>1. ASSUME NEW r \in Run, Enqueue(r)
          PROVE  Lifecycle!LifecycleNext
        <3>1. \A s \in Run : IF s = r THEN Lifecycle!Submitted(s) ELSE Lifecycle!Keeps(s)
            BY <2>1 DEF Enqueue, Lifecycle!Submitted, Lifecycle!Keeps, TypeOK, RowsTyped
        <3>. QED
            BY <3>1 DEF Lifecycle!LifecycleNext
    <2>2. ASSUME NEW w \in Worker, PollCommit(w)
          PROVE  Lifecycle!LifecycleNext
        <3>. SUFFICES ASSUME NEW r \in Run
                      PROVE  \/ Lifecycle!Keeps(r) \/ Lifecycle!Attempted(r)
                             \/ Lifecycle!Requeued(r) \/ Lifecycle!Failed(r)
            BY DEF Lifecycle!LifecycleNext
        <3>1. /\ status'[r] = IF r = hold[w].claim THEN "RUNNING"
                              ELSE IF r \in hold[w].retry THEN "QUEUED"
                              ELSE IF r \in hold[w].spent THEN "FAILED"
                              ELSE status[r]
              /\ attempts'[r] = IF r = hold[w].claim THEN hold[w].attempt ELSE attempts[r]
            BY <2>2 DEF PollCommit, PolledStatus
        <3>2. attempts[r] <= MaxRetries
            BY DEF SoloInv, RetryBudget
        <3>3. CASE r = hold[w].claim
            <4>1. /\ hold[w].attempt = attempts[r] + 1
                  /\ status[r] \in {"QUEUED", "RUNNING"}
                  /\ ~Spent(attempts[r])
                BY <3>3, QueueAssumption DEF QueueInv, HoldsFresh, SoloInv, HoldCurrent
            <4>. QED
                BY <3>1, <3>3, <4>1, Budget DEF Lifecycle!Attempted
        <3>4. CASE r # hold[w].claim /\ r \in hold[w].retry
            <4>1. status[r] = "RUNNING" /\ ~Spent(attempts[r])
                BY <3>4 DEF SoloInv, HoldCurrent
            <4>. QED
                BY <3>1, <3>4, <4>1, Budget DEF Lifecycle!Requeued
        <3>5. CASE r # hold[w].claim /\ r \notin hold[w].retry /\ r \in hold[w].spent
            <4>1. status[r] = "RUNNING" /\ Spent(attempts[r])
                BY <3>5 DEF SoloInv, HoldCurrent
            <4>2. attempts[r] = MaxRetries
                BY <3>2, <4>1, Budget, QueueAssumption
            <4>. QED
                BY <3>1, <3>5, <4>1, <4>2 DEF Lifecycle!Failed
        <3>6. CASE r # hold[w].claim /\ r \notin hold[w].retry /\ r \notin hold[w].spent
            BY <3>1, <3>6 DEF Lifecycle!Keeps
        <3>. QED
            BY <3>3, <3>4, <3>5, <3>6
    <2>3. ASSUME NEW w \in Worker, Settle(w)
          PROVE  Lifecycle!LifecycleNext
        <3>1. /\ \A s \in Run : status'[s] = IF s = job[w] THEN Verdict(w) ELSE status[s]
              /\ attempts' = attempts
            BY <2>3, SoloVerdict DEF Settle, TypeOK, RowsTyped
        <3>2. \A s \in Run \ {job[w]} : Lifecycle!Keeps(s)
            BY <3>1 DEF Lifecycle!Keeps
        <3>3. attempts[job[w]] <= MaxRetries /\ job[w] \in Run
            BY <2>3, SoloVerdict DEF SoloInv, RetryBudget
        <3>4. /\ Verdict(w) = "FAILED" => attempts[job[w]] = MaxRetries
              /\ Verdict(w) = "QUEUED" => attempts[job[w]] < MaxRetries
            <4>1. /\ Verdict(w) = "FAILED" => Spent(attempts[job[w]])
                  /\ Verdict(w) = "QUEUED" => ~Spent(attempts[job[w]])
                BY <2>3, SoloVerdict
            <4>2. attempts[job[w]] \in Nat
                BY <3>3 DEF TypeOK, RowsTyped
            <4>. QED
                BY <3>3, <4>1, <4>2, QueueAssumption DEF Spent
        <3>5. \/ Lifecycle!Succeeded(job[w]) \/ Lifecycle!Failed(job[w])
              \/ Lifecycle!Requeued(job[w])
            BY <2>3, <3>1, <3>3, <3>4, SoloVerdict
               DEF Lifecycle!Succeeded, Lifecycle!Failed, Lifecycle!Requeued
        <3>. QED
            BY <3>2, <3>5 DEF Lifecycle!LifecycleNext
    <2>4. ASSUME NEW w \in Worker, ResetStage(w) \/ StartStage(w) \/ ReportStage(w)
          PROVE  UNCHANGED <<status, attempts>>
        <3>1. PICK value : UpdateStage(w, value)
            BY <2>4 DEF ResetStage, StartStage, ReportStage
        <3>. QED
            BY <2>4, <3>1, SoloUpdate DEF ResetStage, StartStage, ReportStage
    <2>5. ASSUME NEW w \in Worker,
                 \/ Start(w) \/ BeginCycle(w) \/ Exit(w) \/ Signal(w) \/ Crash(w)
                 \/ CycleFails(w) \/ Poll(w) \/ ReadRow(w) \/ Work(w) \/ RunRaises(w)
          PROVE  UNCHANGED <<status, attempts>>
        BY <2>5 DEF Start, BeginCycle, Exit, Signal, Crash, CycleFails, Poll, ReadRow, Work,
                    RunRaises, rowVars
    <2>6. CASE Tick \/ UNCHANGED vars
        BY <2>6 DEF Tick, vars, rowVars
    <2>. QED
        BY <2>1, <2>2, <2>3, <2>4, <2>5, <2>6 DEF Next, Loop, Execute
<1>. QED
    BY <1>1, <1>2, TypeCorrect, QueueInvariant, SoloInvariant, PTL
        DEF Spec, LifecycleSpec, Lifecycle!LifecycleSpec, Lifecycle!lifecycleVars

-----------------------------------------------------------------------------
(* What liveness rests on: an execution runs down, and waits for no more   *)
(* than the commit of a poll.                                              *)

\* The steps a worker has left in its execution, at most: a read and a write
\* for each stage to reset, two of each and the stage itself for each stage to
\* run, a read and a write for the verdict.
Remaining(place, k, read) ==
    LET r == IF read = Unread THEN 0 ELSE 1 IN
    CASE place = "reset"  -> 2 * (StageCount - k) + 5 * StageCount + 4 - r
      [] place = "start"  -> 5 * (StageCount - k) + 7 - r
      [] place = "work"   -> 5 * (StageCount - k) + 5
      [] place = "report" -> 5 * (StageCount - k) + 4 - r
      [] place = "settle" -> 2 - r
      [] OTHER            -> 0

StepsLeft(w) == Remaining(pc[w], step[w], seen[w])

\* A run is being executed only while steps are left, and there are at most
\* seven a stage and two for the verdict.
StepsBounded ==
    \A w \in Worker :
        /\ StepsLeft(w) \in 0 .. 7 * StageCount + 2
        /\ pc[w] \in Executing <=> StepsLeft(w) > 0

\* A step of an execution leaves its worker fewer of them, a stage report that
\* raises included; nothing anybody else does, nor time, adds to them.
RunsDown ==
    \A w \in Worker :
        pc[w] \in Executing =>
            /\ StepsLeft(w)' <= StepsLeft(w)
            /\ Execute(w) \/ RunRaises(w) => StepsLeft(w)' < StepsLeft(w)

ExecutionsRunDown == [][RunsDown]_vars

\* A write that has to wait for its row waits for a worker that is about to
\* commit its poll, a step nothing holds up.
WaitsAreShort ==
    \A w \in Worker :
        pc[w] \in Executing /\ seen[w] # Unread /\ job[w] \in HeldByOthers(w) =>
            \E u \in Worker \ {w} : pc[u] = "commit" /\ job[w] \in Held(u)

\* Where the steps left are.
LEMMA RemainingIn ==
    ASSUME NEW place \in {"down", "top", "poll", "commit"} \cup Executing,
           NEW k \in Stage, NEW read
    PROVE  /\ Remaining(place, k, read) \in 0 .. 7 * StageCount + 2
           /\ place \in Executing <=> Remaining(place, k, read) > 0
<1>1. StageCount \in Nat /\ k \in Nat /\ 1 <= k /\ k <= StageCount
    BY QueueAssumption DEF Stage
<1> DEFINE r == IF read = Unread THEN 0 ELSE 1
<1>2. r \in {0, 1}
    OBVIOUS
<1>3. /\ Remaining("reset", k, read) = 2 * (StageCount - k) + 5 * StageCount + 4 - r
      /\ Remaining("start", k, read) = 5 * (StageCount - k) + 7 - r
      /\ Remaining("work", k, read) = 5 * (StageCount - k) + 5
      /\ Remaining("report", k, read) = 5 * (StageCount - k) + 4 - r
      /\ Remaining("settle", k, read) = 2 - r
    BY DEF Remaining
<1>. HIDE DEF r
<1>4. ASSUME place \in Executing
      PROVE  Remaining(place, k, read) \in 1 .. 7 * StageCount + 2
    <2>1. CASE place = "reset"
        BY <1>1, <1>2, <1>3, <2>1
    <2>2. CASE place = "start"
        BY <1>1, <1>2, <1>3, <2>2
    <2>3. CASE place = "work"
        BY <1>1, <1>2, <1>3, <2>3
    <2>4. CASE place = "report"
        BY <1>1, <1>2, <1>3, <2>4
    <2>5. CASE place = "settle"
        BY <1>1, <1>2, <1>3, <2>5
    <2>. QED
        BY <1>4, <2>1, <2>2, <2>3, <2>4, <2>5 DEF Executing
<1>5. ASSUME place \notin Executing
      PROVE  Remaining(place, k, read) = 0
    BY <1>5 DEF Remaining, Executing
<1>. QED
    BY <1>1, <1>4, <1>5

\* A step of an execution, by where it leaves the worker.
LEMMA ExecutionStep ==
    ASSUME TypeOK, Places, TypeOK', NEW w \in Worker, Execute(w) \/ RunRaises(w)
    PROVE  StepsLeft(w)' < StepsLeft(w) /\ StepsLeft(w)' \in Nat
<1>1. /\ StageCount \in Nat \ {0} /\ step[w] \in Nat
      /\ 1 <= step[w] /\ step[w] <= StageCount
    BY QueueAssumption DEF TypeOK, JobTyped, Stage
<1>2. StepsLeft(w)' = Remaining(pc'[w], step'[w], seen'[w])
    BY DEF StepsLeft
<1>0. StepsLeft(w)' \in Nat
    <2>1. /\ pc'[w] \in {"down", "top", "poll", "commit"} \cup Executing
          /\ step'[w] \in Stage
        BY DEF TypeOK, LoopTyped, JobTyped, Executing
    <2>2. Remaining(pc'[w], step'[w], seen'[w]) \in 0 .. 7 * StageCount + 2
        BY <2>1, RemainingIn
    <2>. QED
        BY <1>1, <1>2, <2>2
<1>3. CASE ReadRow(w)
    <2>1. /\ pc'[w] = pc[w] /\ step'[w] = step[w] /\ seen[w] = Unread
          /\ pc[w] \in {"reset", "start", "report", "settle"}
        BY <1>3 DEF ReadRow
    <2>2. seen'[w] # Unread
        <3>1. [status |-> status[job[w]], attempts |-> attempts[job[w]],
               stages |-> stages[job[w]]] \in ReadOfRow
            BY <2>1 DEF TypeOK, RowsTyped, Places, Executing
        <3>. QED
            BY <1>3, <3>1, UnreadAssumption DEF ReadRow, TypeOK, JobTyped
    <2>. QED
        BY <1>1, <1>2, <2>1, <2>2 DEF StepsLeft, Remaining
<1>4. CASE ResetStage(w)
    <2>1. /\ pc[w] = "reset" /\ seen[w] # Unread /\ seen'[w] = Unread
          /\ pc'[w] = IF step[w] = StageCount THEN "start" ELSE "reset"
          /\ step'[w] = IF step[w] = StageCount THEN 1 ELSE step[w] + 1
        BY <1>4 DEF ResetStage, UpdateStage, TypeOK, LoopTyped, JobTyped
    <2>2. CASE step[w] = StageCount
        BY <1>1, <1>2, <2>1, <2>2 DEF StepsLeft, Remaining
    <2>3. CASE step[w] # StageCount
        BY <1>1, <1>2, <2>1, <2>3 DEF StepsLeft, Remaining
    <2>. QED
        BY <2>2, <2>3
<1>5. CASE StartStage(w)
    <2>1. /\ pc[w] = "start" /\ seen[w] # Unread /\ pc'[w] = "work" /\ step'[w] = step[w]
        BY <1>5 DEF StartStage, UpdateStage, TypeOK, LoopTyped
    <2>. QED
        BY <1>1, <1>2, <2>1 DEF StepsLeft, Remaining
<1>6. CASE Work(w)
    <2>1. /\ pc[w] = "work" /\ pc'[w] = "report" /\ step'[w] = step[w]
        BY <1>6 DEF Work, TypeOK, LoopTyped
    <2>. QED
        BY <1>1, <1>2, <2>1 DEF StepsLeft, Remaining
<1>7. CASE ReportStage(w)
    <2>1. /\ pc[w] = "report" /\ seen[w] # Unread /\ seen'[w] = Unread
          /\ \/ pc'[w] = "settle" /\ step'[w] = step[w]
             \/ pc'[w] = "start" /\ step'[w] = step[w] + 1 /\ step[w] # StageCount
        BY <1>7 DEF ReportStage, UpdateStage, TypeOK, LoopTyped, JobTyped
    <2>2. CASE pc'[w] = "settle"
        BY <1>1, <1>2, <2>1, <2>2 DEF StepsLeft, Remaining
    <2>3. CASE pc'[w] = "start"
        BY <1>1, <1>2, <2>1, <2>3 DEF StepsLeft, Remaining
    <2>. QED
        BY <2>1, <2>2, <2>3
<1>8. CASE Settle(w)
    <2>1. pc[w] = "settle"
        BY <1>8 DEF Settle
    <2>2. pc'[w] \in {"poll", "top"}
        BY <1>8 DEF Settle, NextTenant, TypeOK, LoopTyped
    <2>3. StepsLeft(w)' = 0
        BY <1>2, <2>2 DEF Remaining
    <2>. QED
        BY <2>1, <2>3 DEF StepsLeft, Remaining
<1>9. CASE RunRaises(w)
    <2>1. /\ pc[w] \in {"reset", "start", "report"} /\ pc'[w] = "settle" /\ seen'[w] = Unread
        BY <1>9 DEF RunRaises, TypeOK, LoopTyped, JobTyped
    <2>2. StepsLeft(w)' = 2
        BY <1>2, <2>1 DEF Remaining
    <2>3. CASE pc[w] = "reset"
        BY <1>1, <2>2, <2>3 DEF StepsLeft, Remaining
    <2>4. CASE pc[w] = "start"
        BY <1>1, <2>2, <2>4 DEF StepsLeft, Remaining
    <2>5. CASE pc[w] = "report"
        BY <1>1, <2>2, <2>5 DEF StepsLeft, Remaining
    <2>. QED
        BY <2>1, <2>3, <2>4, <2>5
<1>. QED
    BY <1>0, <1>3, <1>4, <1>5, <1>6, <1>7, <1>8, <1>9 DEF Execute

\* Whatever else happens, an execution goes on where it was or is over.
LEMMA ExecutionKeeps ==
    ASSUME TypeOK, NEW w \in Worker, pc[w] \in Executing,
           [Next]_vars, ~Execute(w), ~RunRaises(w)
    PROVE  \/ pc'[w] = pc[w] /\ step'[w] = step[w] /\ seen'[w] = seen[w]
           \/ pc'[w] \in {"down", "top"}
<1>. USE DEF TypeOK, LoopTyped, JobTyped
<1>1. CASE Tick \/ UNCHANGED vars \/ \E r \in Run : Enqueue(r)
    BY <1>1 DEF Tick, Enqueue, vars, workVars
<1>2. CASE Start(w) \/ Loop(w)
    BY <1>2 DEF Start, Loop, BeginCycle, Exit, Poll, PollCommit, Executing
<1>3. CASE CycleFails(w) \/ Crash(w)
    BY <1>3 DEF CycleFails, Crash
<1>4. CASE Signal(w)
    BY <1>4 DEF Signal, workVars
<1>5. ASSUME NEW u \in Worker, u # w,
             \/ Start(u) \/ Loop(u) \/ Execute(u) \/ RunRaises(u)
             \/ CycleFails(u) \/ Signal(u) \/ Crash(u)
      PROVE  pc'[w] = pc[w] /\ step'[w] = step[w] /\ seen'[w] = seen[w]
    <2>1. CASE Start(u) \/ Signal(u) \/ Loop(u)
        BY <1>5, <2>1 DEF Start, Signal, Loop, BeginCycle, Exit, Poll, PollCommit, NextTenant,
                          workVars
    <2>2. CASE RunRaises(u) \/ CycleFails(u) \/ Crash(u)
        BY <1>5, <2>2 DEF RunRaises, CycleFails, Crash, Forget
    <2>3. CASE ReadRow(u) \/ Work(u) \/ Settle(u)
        BY <1>5, <2>3 DEF ReadRow, Work, Settle, NextTenant, Forget
    <2>4. CASE ResetStage(u) \/ StartStage(u) \/ ReportStage(u)
        BY <1>5, <2>4 DEF ResetStage, StartStage, ReportStage, UpdateStage
    <2>. QED
        BY <1>5, <2>1, <2>2, <2>3, <2>4 DEF Execute
<1>. QED
    BY <1>1, <1>2, <1>3, <1>4, <1>5 DEF Next

\* For every number of replicas: the execution of a claimed run takes its
\* worker at most seven steps a stage and two for the verdict, and the only
\* thing a step of it ever waits for is the commit of a poll that holds the
\* row, which waits for nothing; with a scheduler that lets workers go on,
\* every execution that is not cut off ends.
THEOREM ExecutionsCannotHang ==
    Spec => []StepsBounded /\ ExecutionsRunDown /\ []WaitsAreShort
<1>1. TypeOK => StepsBounded
    <2>. SUFFICES ASSUME TypeOK, NEW w \in Worker
                  PROVE  /\ StepsLeft(w) \in 0 .. 7 * StageCount + 2
                         /\ pc[w] \in Executing <=> StepsLeft(w) > 0
        BY DEF StepsBounded
    <2>1. /\ pc[w] \in {"down", "top", "poll", "commit"} \cup Executing
          /\ step[w] \in Stage
        BY DEF TypeOK, LoopTyped, JobTyped, Executing
    <2>. QED
        BY <2>1, RemainingIn DEF StepsLeft
<1>2. QueueInv => WaitsAreShort
    <2>. SUFFICES ASSUME QueueInv, NEW w \in Worker, job[w] \in HeldByOthers(w),
                         pc[w] \in Executing
                  PROVE  \E u \in Worker \ {w} : pc[u] = "commit" /\ job[w] \in Held(u)
        BY DEF WaitsAreShort
    <2>1. PICK u \in Worker \ {w} : job[w] \in Held(u)
        BY DEF HeldByOthers
    <2>2. hold[u] # NoHold
        BY <2>1 DEF Held, NoHold
    <2>. QED
        BY <2>1, <2>2 DEF QueueInv, Places
<1>3. QueueInv /\ TypeOK' /\ [Next]_vars => RunsDown
    <2>. SUFFICES ASSUME QueueInv, TypeOK', [Next]_vars, NEW w \in Worker, pc[w] \in Executing
                  PROVE  /\ StepsLeft(w)' <= StepsLeft(w)
                         /\ Execute(w) \/ RunRaises(w) => StepsLeft(w)' < StepsLeft(w)
        BY DEF RunsDown
    <2>1. /\ TypeOK /\ Places /\ StepsLeft(w) \in Nat
        BY <1>1, QueueAssumption DEF QueueInv, StepsBounded
    <2>2. CASE Execute(w) \/ RunRaises(w)
        BY <2>1, <2>2, ExecutionStep
    <2>3. CASE ~Execute(w) /\ ~RunRaises(w)
        <3>1. StepsLeft(w)' = Remaining(pc'[w], step'[w], seen'[w])
            BY DEF StepsLeft
        <3>2. CASE pc'[w] = pc[w] /\ step'[w] = step[w] /\ seen'[w] = seen[w]
            BY <2>1, <2>3, <3>1, <3>2 DEF StepsLeft
        <3>3. CASE pc'[w] \in {"down", "top"}
            <4>1. StepsLeft(w)' = 0
                BY <3>1, <3>3 DEF Remaining
            <4>. QED
                BY <2>1, <2>3, <4>1
        <3>. QED
            BY <2>1, <2>3, <3>2, <3>3, ExecutionKeeps
    <2>. QED
        BY <2>2, <2>3
<1>. QED
    BY <1>1, <1>2, <1>3, TypeCorrect, QueueInvariant, PTL DEF Spec, ExecutionsRunDown

=============================================================================
