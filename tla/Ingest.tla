------------------------------- MODULE Ingest -------------------------------
(***************************************************************************)
(* From the client's events to canonical events, for one tenant.           *)
(*                                                                         *)
(* The API stores events in raw_events, one transaction for a request, one *)
(* savepoint for an event, and answers which were new.  A worker's INGEST  *)
(* stage claims unprocessed rows in batches, maps each one, marks it in a  *)
(* transaction of its own, and saves the canonical events of the batch in  *)
(* a last one.  Requests overlap, clients repeat them, executions of the   *)
(* stage die anywhere, and a second replica may execute it too.            *)
(***************************************************************************)
EXTENDS Naturals, FiniteSets, Sequences

CONSTANTS
    Event,         \* client_event_ids
    Type,          \* client event types
    TypeOf,        \* field event_type of an event
    Unresolvable,  \* events with a field that normalize cannot resolve
    Unconvertible, \* events whose amount is not finite
    Profiled,      \* events that carry user attributes
    Body,          \* what a client may post: sequences of events
    Request,       \* requests that can be under way at once
    Worker,        \* worker replicas
    BatchSize,     \* WORKER_BATCH_SIZE
    MaxPosts,      \* bound: requests in a behaviour
    MaxFailures    \* bound: executions that die in a behaviour

ASSUME IngestAssumption ==
    /\ IsFiniteSet(Event)
    /\ TypeOf \in [Event -> Type]
    /\ Unresolvable \subseteq Event
    /\ Unconvertible \subseteq Event \ Unresolvable
    /\ Profiled \subseteq Event
    /\ Body \subseteq Seq(Event)
    /\ BatchSize \in Nat \ {0}
    /\ MaxPosts \in Nat
    /\ MaxFailures \in Nat

VARIABLES
    raw,        \* raw_events: processed_at and process_error; "ABSENT" is no row
    received,   \* raw_events.received_at: the start of the inserting transaction
    canonical,  \* canonical_events: how many rows an event has
    profile,    \* events whose attributes went into users
    mapped,     \* event_type_mappings: types with an active row
    todo,       \* events a request still has to insert
    wrote,      \* rows a request has inserted and not committed
    found,      \* events a request found stored already
    began,      \* when a request's transaction began; 0 is no transaction
    posts,      \* requests so far, the clock of received_at
    fresh,      \* how often an event was answered as new
    told,       \* events answered as stored, new or not
    pc,         \* where each worker is
    config,     \* the mapping its execution has loaded
    batch,      \* claimed rows it has not finished
    kept,       \* canonical events it has not saved
    failures    \* executions that died

dbVars   == <<raw, received, canonical, profile, mapped>>
apiVars  == <<todo, wrote, found, began, posts, fresh, told>>
workVars == <<pc, config, batch, kept, failures>>
vars == <<dbVars, apiVars, workVars>>

Init ==
    /\ raw = [e \in Event |-> "ABSENT"]
    /\ received = [e \in Event |-> 0]
    /\ canonical = [e \in Event |-> 0]
    /\ profile = {}
    /\ mapped \in SUBSET Type
    /\ todo = [q \in Request |-> <<>>]
    /\ wrote = [q \in Request |-> {}]
    /\ found = [q \in Request |-> {}]
    /\ began = [q \in Request |-> 0]
    /\ posts = 0
    /\ fresh = [e \in Event |-> 0]
    /\ told = {}
    /\ pc = [w \in Worker |-> "off"]
    /\ config = [w \in Worker |-> {}]
    /\ batch = [w \in Worker |-> {}]
    /\ kept = [w \in Worker |-> {}]
    /\ failures = 0

-----------------------------------------------------------------------------
(* The API.                                                                *)

Busy(q) == began[q] > 0

\* Requests with an uncommitted row for e: an INSERT of e waits for them.
Writers(e) == {q \in Request : e \in wrote[q]}

\* The request is over.
Forget(q) ==
    /\ todo' = [todo EXCEPT ![q] = <<>>]
    /\ wrote' = [wrote EXCEPT ![q] = {}]
    /\ found' = [found EXCEPT ![q] = {}]
    /\ began' = [began EXCEPT ![q] = 0]

\* POST /v1/events or /v1/events:batch: the transaction begins.
BeginPost(q) ==
    /\ ~Busy(q)
    /\ posts < MaxPosts
    /\ posts' = posts + 1
    /\ began' = [began EXCEPT ![q] = posts + 1]
    /\ \E b \in Body : todo' = [todo EXCEPT ![q] = b]
    /\ UNCHANGED <<dbVars, wrote, found, fresh, told, workVars>>

\* Mutant: ON CONFLICT is missing, so the index is all there is to stop a copy.
InsertBlindly(q) ==
    /\ Busy(q) /\ todo[q] # <<>>
    /\ wrote' = [wrote EXCEPT ![q] = @ \cup {Head(todo[q])}]
    /\ todo' = [todo EXCEPT ![q] = Tail(@)]
    /\ UNCHANGED <<dbVars, found, began, posts, fresh, told, workVars>>

\* INSERT ... ON CONFLICT DO NOTHING inserts the row.
InsertRow(q) ==
    /\ Busy(q) /\ todo[q] # <<>>
    /\ raw[Head(todo[q])] = "ABSENT"
    /\ Writers(Head(todo[q])) = {}
    /\ wrote' = [wrote EXCEPT ![q] = @ \cup {Head(todo[q])}]
    /\ todo' = [todo EXCEPT ![q] = Tail(@)]
    /\ UNCHANGED <<dbVars, found, began, posts, fresh, told, workVars>>

\* Mutant: a row another request has not committed counts as stored.
FindAnyRow(q) ==
    /\ Busy(q) /\ todo[q] # <<>>
    /\ raw[Head(todo[q])] # "ABSENT" \/ Writers(Head(todo[q])) # {}
    /\ found' = [found EXCEPT ![q] = @ \cup {Head(todo[q])}]
    /\ todo' = [todo EXCEPT ![q] = Tail(@)]
    /\ UNCHANGED <<dbVars, wrote, began, posts, fresh, told, workVars>>

\* Mutant: a row of the request's own transaction is not seen.
FindCommitted(q) ==
    /\ Busy(q) /\ todo[q] # <<>>
    /\ raw[Head(todo[q])] # "ABSENT"
    /\ found' = [found EXCEPT ![q] = @ \cup {Head(todo[q])}]
    /\ todo' = [todo EXCEPT ![q] = Tail(@)]
    /\ UNCHANGED <<dbVars, wrote, began, posts, fresh, told, workVars>>

\* It inserts nothing: the row is committed, or it is the request's own.
FindRow(q) ==
    /\ Busy(q) /\ todo[q] # <<>>
    /\ raw[Head(todo[q])] # "ABSENT" \/ Head(todo[q]) \in wrote[q]
    /\ found' = [found EXCEPT ![q] = @ \cup {Head(todo[q])}]
    /\ todo' = [todo EXCEPT ![q] = Tail(@)]
    /\ UNCHANGED <<dbVars, wrote, began, posts, fresh, told, workVars>>

\* Each request of Q waits for a row of another one of Q.
WaitForEachOther(Q) ==
    \A q \in Q : /\ Busy(q) /\ todo[q] # <<>>
                 /\ Writers(Head(todo[q])) \cap (Q \ {q}) # {}

\* A cycle of waiting requests: no part of it waits for itself alone.
Deadlocked(Q) ==
    /\ Q # {} /\ WaitForEachOther(Q)
    /\ \A P \in (SUBSET Q) \ {{}, Q} : ~WaitForEachOther(P)

\* An event is refused, by validation or by the INSERT, and the savepoint
\* undoes nothing but its own row: the batch goes on.
RejectRow(q) ==
    /\ Busy(q) /\ todo[q] # <<>>
    /\ todo' = [todo EXCEPT ![q] = Tail(@)]
    /\ UNCHANGED <<dbVars, wrote, found, began, posts, fresh, told, workVars>>

\* Two batches hold rows the other one needs.  PostgreSQL fails the INSERT of
\* one of them; the event is answered as not stored and the batch goes on.
BreakDeadlock(q) ==
    /\ \E Q \in SUBSET Request : q \in Q /\ Deadlocked(Q)
    /\ RejectRow(q)

\* The transaction commits and the answer counts new events and duplicates.
CommitPost(q) ==
    /\ Busy(q) /\ todo[q] = <<>>
    /\ raw' = [e \in Event |-> IF e \in wrote[q] THEN "NEW" ELSE raw[e]]
    /\ received' = [e \in Event |-> IF e \in wrote[q] THEN began[q] ELSE received[e]]
    /\ fresh' = [e \in Event |-> IF e \in wrote[q] THEN fresh[e] + 1 ELSE fresh[e]]
    /\ told' = told \cup wrote[q] \cup found[q]
    /\ Forget(q)
    /\ UNCHANGED <<canonical, profile, mapped, posts, workVars>>

\* The process or its connection dies before the commit.
LosePost(q) ==
    /\ Busy(q)
    /\ Forget(q)
    /\ UNCHANGED <<dbVars, posts, fresh, told, workVars>>

\* POST /console/v1/mappings; nothing deactivates a mapping.
CreateMapping(t) ==
    /\ t \notin mapped
    /\ mapped' = mapped \cup {t}
    /\ UNCHANGED <<raw, received, canonical, profile, apiVars, workVars>>

-----------------------------------------------------------------------------
(* The INGEST stage.                                                       *)

\* The execution of the stage is over and its memory is gone.
Stop(w) ==
    /\ pc' = [pc EXCEPT ![w] = "off"]
    /\ config' = [config EXCEPT ![w] = {}]
    /\ batch' = [batch EXCEPT ![w] = {}]
    /\ kept' = [kept EXCEPT ![w] = {}]

\* run_pipeline loads the tenant with its active mappings.
StartRun(w) ==
    /\ pc[w] = "off"
    /\ pc' = [pc EXCEPT ![w] = "claim"]
    /\ config' = [config EXCEPT ![w] = mapped]
    /\ UNCHANGED <<dbVars, apiVars, batch, kept, failures>>

Unprocessed == {e \in Event : raw[e] = "NEW"}

\* Rows that another replica's claim has locked.
Locked(w) == UNION {batch[v] : v \in {u \in Worker \ {w} : pc[u] = "claiming"}}

\* Rows that another replica may be marking while the claim scans the table.
MaybeLocked(w) == UNION {batch[v] : v \in {u \in Worker \ {w} : pc[u] \in {"rows", "mark"}}}

\* The first n rows of S in the order of received_at.
IsPrefix(P, S, n) ==
    /\ P \subseteq S
    /\ Cardinality(P) = (IF Cardinality(S) < n THEN Cardinality(S) ELSE n)
    /\ \A e \in P, f \in S \ P : received[e] <= received[f]

\* Mutant: claim_unprocessed without processed_at IS NULL.
ClaimAnything(w) ==
    /\ pc[w] = "claim"
    /\ \E P \in SUBSET {e \in Event : raw[e] # "ABSENT"} :
        /\ P # {} /\ Cardinality(P) <= BatchSize
        /\ batch' = [batch EXCEPT ![w] = P]
    /\ pc' = [pc EXCEPT ![w] = "claiming"]
    /\ UNCHANGED <<dbVars, apiVars, config, kept, failures>>

\* claim_unprocessed: SELECT ... FOR UPDATE SKIP LOCKED.
Claim(w) ==
    /\ pc[w] = "claim"
    /\ \E skipped \in SUBSET MaybeLocked(w) :
        \E P \in SUBSET Event :
            /\ P # {}
            /\ IsPrefix(P, (Unprocessed \ Locked(w)) \ skipped, BatchSize)
            /\ batch' = [batch EXCEPT ![w] = P]
    /\ pc' = [pc EXCEPT ![w] = "claiming"]
    /\ UNCHANGED <<dbVars, apiVars, config, kept, failures>>

\* The claim commits and with it the row locks are gone.
CommitClaim(w) ==
    /\ pc[w] = "claiming"
    /\ pc' = [pc EXCEPT ![w] = "rows"]
    /\ UNCHANGED <<dbVars, apiVars, config, batch, kept, failures>>

\* The claim returns nothing and the stage is over.
ClaimNothing(w) ==
    /\ pc[w] = "claim"
    /\ Unprocessed \subseteq Locked(w) \cup MaybeLocked(w)
    /\ Stop(w)
    /\ UNCHANGED <<dbVars, apiVars, failures>>

\* e is the row of its batch that w is at.
At(w, e) == e \in batch[w] /\ \A f \in batch[w] : received[e] <= received[f]

Resolves(w, e) == TypeOf[e] \in config[w] /\ e \notin Unresolvable

\* Mutant: a row that cannot be mapped is left as it is.
SkipUnmapped(w) ==
    /\ pc[w] = "rows"
    /\ \E e \in Event :
        /\ At(w, e) /\ ~Resolves(w, e)
        /\ batch' = [batch EXCEPT ![w] = @ \ {e}]
    /\ UNCHANGED <<dbVars, apiVars, pc, config, kept, failures>>

\* normalize raises MappingError: the row is marked UNMAPPED.
MarkUnmapped(w) ==
    /\ pc[w] = "rows"
    /\ \E e \in Event :
        /\ At(w, e) /\ ~Resolves(w, e)
        /\ raw' = [raw EXCEPT ![e] = "UNMAPPED"]
        /\ batch' = [batch EXCEPT ![w] = @ \ {e}]
    /\ UNCHANGED <<received, canonical, profile, mapped, apiVars, pc, config, kept, failures>>

\* normalize raises something else: int() of an amount that is not finite is
\* an OverflowError, and the stage fails.
Raise(w) ==
    /\ pc[w] = "rows"
    /\ \E e \in Event : At(w, e) /\ Resolves(w, e) /\ e \in Unconvertible
    /\ Stop(w)
    /\ UNCHANGED <<dbVars, apiVars, failures>>

\* Mutant: the list of canonical events starts anew with every row.
KeepLast(w) ==
    /\ pc[w] = "rows"
    /\ \E e \in Event :
        /\ At(w, e) /\ Resolves(w, e) /\ e \notin Unconvertible
        /\ profile' = profile \cup ({e} \cap Profiled)
        /\ kept' = [kept EXCEPT ![w] = {e}]
    /\ pc' = [pc EXCEPT ![w] = "mark"]
    /\ UNCHANGED <<raw, received, canonical, mapped, apiVars, config, batch, failures>>

\* normalize succeeds: the event is kept for the end of the batch, and its
\* attributes, if it has any, go to the user's row.
Normalize(w) ==
    /\ pc[w] = "rows"
    /\ \E e \in Event :
        /\ At(w, e) /\ Resolves(w, e) /\ e \notin Unconvertible
        /\ profile' = profile \cup ({e} \cap Profiled)
        /\ kept' = [kept EXCEPT ![w] = @ \cup {e}]
    /\ pc' = [pc EXCEPT ![w] = "mark"]
    /\ UNCHANGED <<raw, received, canonical, mapped, apiVars, config, batch, failures>>

\* The row is marked PROCESSED.
MarkProcessed(w) ==
    /\ pc[w] = "mark"
    /\ \E e \in batch[w] \cap kept[w] :
        /\ raw' = [raw EXCEPT ![e] = "PROCESSED"]
        /\ batch' = [batch EXCEPT ![w] = @ \ {e}]
    /\ pc' = [pc EXCEPT ![w] = "rows"]
    /\ UNCHANGED <<received, canonical, profile, mapped, apiVars, config, kept, failures>>

\* Mutant: the list of the batch before is not emptied.
SaveAgain(w) ==
    /\ pc[w] = "rows" /\ batch[w] = {}
    /\ canonical' = [e \in Event |-> IF e \in kept[w] THEN canonical[e] + 1 ELSE canonical[e]]
    /\ pc' = [pc EXCEPT ![w] = "claim"]
    /\ UNCHANGED <<raw, received, profile, mapped, apiVars, config, batch, kept, failures>>

\* The batch is through: its canonical events are saved.
Save(w) ==
    /\ pc[w] = "rows" /\ batch[w] = {}
    /\ canonical' = [e \in Event |-> IF e \in kept[w] THEN canonical[e] + 1 ELSE canonical[e]]
    /\ kept' = [kept EXCEPT ![w] = {}]
    /\ pc' = [pc EXCEPT ![w] = "claim"]
    /\ UNCHANGED <<raw, received, profile, mapped, apiVars, config, batch, failures>>

\* The process dies or the database refuses a statement.
Fail(w) ==
    /\ pc[w] # "off"
    /\ failures < MaxFailures
    /\ failures' = failures + 1
    /\ Stop(w)
    /\ UNCHANGED <<dbVars, apiVars>>

Post(q) ==
    \/ BeginPost(q) \/ InsertRow(q) \/ FindRow(q) \/ RejectRow(q)
    \/ BreakDeadlock(q) \/ CommitPost(q) \/ LosePost(q)

Stage(w) ==
    \/ StartRun(w) \/ Claim(w) \/ CommitClaim(w) \/ ClaimNothing(w)
    \/ MarkUnmapped(w) \/ Raise(w) \/ Normalize(w) \/ MarkProcessed(w)
    \/ Save(w) \/ Fail(w)

Next ==
    \/ \E q \in Request : Post(q)
    \/ \E t \in Type : CreateMapping(t)
    \/ \E w \in Worker : Stage(w)

Spec == Init /\ [][Next]_vars

\* The API process runs and PostgreSQL breaks deadlocks; runs are requested
\* again and again, and an execution of the stage goes on unless it dies.
Fairness ==
    /\ \A q \in Request :
        /\ WF_vars(InsertRow(q) \/ FindRow(q) \/ CommitPost(q))
        /\ WF_vars(BreakDeadlock(q))
    /\ \A w \in Worker :
        /\ WF_vars(StartRun(w))
        /\ WF_vars(Claim(w) \/ CommitClaim(w) \/ ClaimNothing(w))
        /\ WF_vars(MarkUnmapped(w) \/ Raise(w) \/ Normalize(w) \/ MarkProcessed(w) \/ Save(w))

FairSpec == Spec /\ Fairness

-----------------------------------------------------------------------------
(* Properties.                                                             *)

RawState == {"ABSENT", "NEW", "PROCESSED", "UNMAPPED"}
WorkerState == {"off", "claim", "claiming", "rows", "mark"}

TablesTyped ==
    /\ raw \in [Event -> RawState]
    /\ received \in [Event -> Nat]
    /\ canonical \in [Event -> Nat]
    /\ profile \subseteq Event
    /\ mapped \subseteq Type

RequestsTyped ==
    /\ todo \in [Request -> Seq(Event)]
    /\ wrote \in [Request -> SUBSET Event]
    /\ found \in [Request -> SUBSET Event]
    /\ began \in [Request -> Nat]
    /\ posts \in Nat
    /\ fresh \in [Event -> Nat]
    /\ told \subseteq Event

WorkersTyped ==
    /\ pc \in [Worker -> WorkerState]
    /\ config \in [Worker -> SUBSET Type]
    /\ batch \in [Worker -> SUBSET Event]
    /\ kept \in [Worker -> SUBSET Event]
    /\ failures \in Nat

\* Type invariant: tables, requests and workers hold values of their kinds.
TypeOK == TablesTyped /\ RequestsTyped /\ WorkersTyped

Stored(e) == raw[e] # "ABSENT"

\* An event is answered as new exactly once if it is stored and never if it is
\* not, however often and in however many overlapping requests it is posted.
NewOnce == \A e \in Event : fresh[e] = IF Stored(e) THEN 1 ELSE 0

\* An event the client was told is stored, as new or as a duplicate, is in
\* raw_events: no duplicate is answered on the word of a request that was lost.
ToldIsStored == \A e \in told : Stored(e)

\* With one replica: canonical events exist only for rows that say PROCESSED, so
\* an event is never in the graph and claimed again.
SavedWasProcessed == \A e \in Event : canonical[e] > 0 => raw[e] = "PROCESSED"

\* The attributes of a processed event are in users before the row is marked, so
\* a death in between repeats the upsert and never skips it.
AttributesFirst == \A e \in Profiled : raw[e] = "PROCESSED" => e \in profile

\* Marked as processed, saved by nobody and no longer in the memory of anybody.
Lost(e) == /\ raw[e] = "PROCESSED"
           /\ canonical[e] = 0
           /\ \A w \in Worker : e \notin kept[w]

\* The events a step loses.
Gone == {e \in Event : ~Lost(e) /\ Lost(e)'}

LosesOneBatch ==
    /\ Cardinality(Gone) <= BatchSize
    /\ Gone # {} => \E w \in Worker : pc[w] # "off" /\ pc'[w] = "off" /\ Gone \subseteq kept[w]

\* Events are lost in one way only: an execution ends with a batch marked and not
\* saved.  It loses no more than that batch.
LossIsOneBatch == [][LosesOneBatch]_vars

\* The verdict on a row is final when one replica executes the stage: neither a
\* mapping created later nor a second execution decides it again.
VerdictIsFinal ==
    [][\A e \in Event : raw[e] \in {"PROCESSED", "UNMAPPED"} => raw'[e] = raw[e]]_vars

\* No event has two canonical events.  (events.py:87: "so multiple worker
\* replicas never process the same raw row twice".)
NoCopies == \A e \in Event : canonical[e] <= 1

\* Every stored event is decided some day.  (normalize.py:4: "Raises MappingError
\* on unknown/inactive event types or unresolvable fields; the worker marks the
\* raw row `unmapped` and carries on.")
EveryEventDecided == \A e \in Event : raw[e] = "NEW" ~> raw[e] # "NEW"

\* A row that every new execution of the stage will raise on.
Stuck == \E e \in Unconvertible : raw[e] = "NEW" /\ TypeOf[e] \in mapped

\* What holds of it: rows are decided, whatever fails, unless one that cannot be
\* converted stands in the way.
DecidedUnlessStuck == \A e \in Event : []<>(raw[e] # "NEW" \/ Stuck)

\* Every request ends, also when two batches wait for each other's rows.
EveryPostEnds == \A q \in Request : Busy(q) ~> ~Busy(q)
=============================================================================
