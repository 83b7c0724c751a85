---------------------------- MODULE IngestProofs ----------------------------
(***************************************************************************)
(* What holds of Ingest for any events, requests and replicas.             *)
(***************************************************************************)
EXTENDS Ingest, FiniteSetTheorems, SequenceTheorems, WellFoundedInduction, TLAPS

USE IngestAssumption

(***************************************************************************)
(* Type correctness.                                                       *)
(***************************************************************************)

\* The tables, the requests and the workers hold values of their kinds.
LEMMA TypeStep == TypeOK /\ [Next]_vars => TypeOK'
<1> SUFFICES ASSUME TypeOK, [Next]_vars PROVE TypeOK'
    OBVIOUS
<1> USE DEF TypeOK, TablesTyped, RequestsTyped, WorkersTyped, RawState, WorkerState
<1>1. ASSUME NEW q \in Request, BeginPost(q) PROVE TypeOK'
    BY <1>1 DEF BeginPost, dbVars, workVars
<1>2. ASSUME NEW q \in Request, InsertRow(q) PROVE TypeOK'
    <2>1. /\ Head(todo[q]) \in Event
          /\ Tail(todo[q]) \in Seq(Event)
        BY <1>2 DEF InsertRow
    <2>2. wrote' \in [Request -> SUBSET Event]
        BY <1>2, <2>1 DEF InsertRow
    <2>3. todo' \in [Request -> Seq(Event)]
        BY <1>2, <2>1 DEF InsertRow
    <2>4. QED
        BY <1>2, <2>2, <2>3 DEF InsertRow, dbVars, workVars
<1>3. ASSUME NEW q \in Request, FindRow(q) PROVE TypeOK'
    <2>1. /\ Head(todo[q]) \in Event
          /\ Tail(todo[q]) \in Seq(Event)
        BY <1>3 DEF FindRow
    <2>2. found' \in [Request -> SUBSET Event]
        BY <1>3, <2>1 DEF FindRow
    <2>3. todo' \in [Request -> Seq(Event)]
        BY <1>3, <2>1 DEF FindRow
    <2>4. QED
        BY <1>3, <2>2, <2>3 DEF FindRow, dbVars, workVars
<1>4. ASSUME NEW q \in Request, RejectRow(q) PROVE TypeOK'
    BY <1>4 DEF RejectRow, dbVars, workVars
<1>5. ASSUME NEW q \in Request, BreakDeadlock(q) PROVE TypeOK'
    BY <1>4, <1>5 DEF BreakDeadlock
<1>6. ASSUME NEW q \in Request, CommitPost(q) PROVE TypeOK'
    <2>1. TablesTyped'
        BY <1>6 DEF CommitPost
    <2>2. fresh' \in [Event -> Nat]
        BY <1>6 DEF CommitPost
    <2>3. QED
        BY <1>6, <2>1, <2>2 DEF CommitPost, Forget, workVars
<1>7. ASSUME NEW q \in Request, LosePost(q) PROVE TypeOK'
    BY <1>7 DEF LosePost, Forget, dbVars, workVars
<1>8. ASSUME NEW t \in Type, CreateMapping(t) PROVE TypeOK'
    BY <1>8 DEF CreateMapping, apiVars, workVars
<1>9. ASSUME NEW w \in Worker, StartRun(w) PROVE TypeOK'
    BY <1>9 DEF StartRun, dbVars, apiVars
<1>10. ASSUME NEW w \in Worker, Claim(w) PROVE TypeOK'
    <2>1. PICK P \in SUBSET Event : batch' = [batch EXCEPT ![w] = P]
        BY <1>10 DEF Claim
    <2>2. QED
        BY <1>10, <2>1 DEF Claim, dbVars, apiVars
<1>11. ASSUME NEW w \in Worker, CommitClaim(w) PROVE TypeOK'
    BY <1>11 DEF CommitClaim, dbVars, apiVars
<1>12. ASSUME NEW w \in Worker, ClaimNothing(w) PROVE TypeOK'
    BY <1>12 DEF ClaimNothing, Stop, dbVars, apiVars
<1>13. ASSUME NEW w \in Worker, MarkUnmapped(w) PROVE TypeOK'
    BY <1>13 DEF MarkUnmapped, apiVars
<1>14. ASSUME NEW w \in Worker, Raise(w) PROVE TypeOK'
    BY <1>14 DEF Raise, Stop, dbVars, apiVars
<1>15. ASSUME NEW w \in Worker, Normalize(w) PROVE TypeOK'
    BY <1>15 DEF Normalize, apiVars
<1>16. ASSUME NEW w \in Worker, MarkProcessed(w) PROVE TypeOK'
    BY <1>16 DEF MarkProcessed, apiVars
<1>17. ASSUME NEW w \in Worker, Save(w) PROVE TypeOK'
    <2>1. canonical' \in [Event -> Nat]
        BY <1>17 DEF Save
    <2>2. QED
        BY <1>17, <2>1 DEF Save, apiVars
<1>18. ASSUME NEW w \in Worker, Fail(w) PROVE TypeOK'
    BY <1>18 DEF Fail, Stop, dbVars, apiVars
<1>19. CASE UNCHANGED vars
    BY <1>19 DEF vars, dbVars, apiVars, workVars
<1>20. QED
    BY <1>1, <1>2, <1>3, <1>4, <1>5, <1>6, <1>7, <1>8, <1>9, <1>10, <1>11, <1>12,
       <1>13, <1>14, <1>15, <1>16, <1>17, <1>18, <1>19
    DEF Next, Post, Stage

LEMMA TypeInit == Init => TypeOK
    BY DEF Init, TypeOK, TablesTyped, RequestsTyped, WorkersTyped, RawState, WorkerState

\* Every reachable state is well typed.
THEOREM TypeCorrect == Spec => []TypeOK
<1>1. QED
    BY TypeInit, TypeStep, PTL DEF Spec

-----------------------------------------------------------------------------
(***************************************************************************)
(* The API's answers, for any number of requests and replicas.             *)
(***************************************************************************)

\* Uncommitted rows belong to one request and are not in the table; what a
\* request found is committed or its own; workers hold rows of the table.
AnswersInv ==
    /\ \A p, q \in Request : p # q => wrote[p] \cap wrote[q] = {}
    /\ \A q \in Request : \A e \in wrote[q] : ~Stored(e)
    /\ \A q \in Request : \A e \in found[q] : Stored(e) \/ e \in wrote[q]
    /\ \A w \in Worker : \A e \in batch[w] : Stored(e)
    /\ NewOnce
    /\ ToldIsStored

\* A step of a worker stores nothing, deletes nothing, and claims stored rows.
LEMMA WorkerStoresNothing ==
    ASSUME TypeOK, AnswersInv, NEW w \in Worker, Stage(w)
    PROVE  /\ UNCHANGED apiVars
           /\ \A e \in Event : Stored(e)' <=> Stored(e)
           /\ \A v \in Worker : \A e \in batch'[v] : Stored(e)
<1> USE DEF TypeOK, TablesTyped, WorkersTyped, AnswersInv, Stored
<1>1. CASE StartRun(w)
    BY <1>1 DEF StartRun, dbVars
<1>2. CASE Claim(w)
    <2>1. PICK P \in SUBSET Event : /\ batch' = [batch EXCEPT ![w] = P]
                                    /\ P \subseteq Unprocessed
        BY <1>2 DEF Claim, IsPrefix
    <2>2. QED
        BY <1>2, <2>1 DEF Claim, dbVars, Unprocessed
<1>3. CASE CommitClaim(w)
    BY <1>3 DEF CommitClaim, dbVars
<1>4. CASE ClaimNothing(w)
    BY <1>4 DEF ClaimNothing, Stop, dbVars
<1>5. CASE MarkUnmapped(w)
    BY <1>5 DEF MarkUnmapped, At
<1>6. CASE Raise(w)
    BY <1>6 DEF Raise, Stop, dbVars
<1>7. CASE Normalize(w)
    BY <1>7 DEF Normalize
<1>8. CASE MarkProcessed(w)
    BY <1>8 DEF MarkProcessed
<1>9. CASE Save(w)
    BY <1>9 DEF Save
<1>10. CASE Fail(w)
    BY <1>10 DEF Fail, Stop, dbVars
<1>11. QED
    BY <1>1, <1>2, <1>3, <1>4, <1>5, <1>6, <1>7, <1>8, <1>9, <1>10 DEF Stage

LEMMA AnswersStep == TypeOK /\ AnswersInv /\ [Next]_vars => AnswersInv'
<1> SUFFICES ASSUME TypeOK, AnswersInv, [Next]_vars PROVE AnswersInv'
    OBVIOUS
<1> USE DEF TypeOK, TablesTyped, RequestsTyped, AnswersInv, NewOnce, ToldIsStored, Stored
<1>1. ASSUME NEW q \in Request, BeginPost(q) PROVE AnswersInv'
    BY <1>1 DEF BeginPost, dbVars, workVars
<1>2. ASSUME NEW q \in Request, InsertRow(q) PROVE AnswersInv'
    <2> DEFINE e == Head(todo[q])
    <2>1. /\ e \in Event /\ ~Stored(e)
          /\ \A p \in Request : e \notin wrote[p]
          /\ wrote' = [wrote EXCEPT ![q] = @ \cup {e}]
          /\ UNCHANGED <<raw, found, fresh, told, batch>>
        BY <1>2 DEF InsertRow, Writers, dbVars, workVars
    <2> HIDE DEF e
    <2>2. QED
        BY <2>1
<1>3. ASSUME NEW q \in Request, FindRow(q) PROVE AnswersInv'
    <2> DEFINE e == Head(todo[q])
    <2>1. /\ Stored(e) \/ e \in wrote[q]
          /\ found' = [found EXCEPT ![q] = @ \cup {e}]
          /\ UNCHANGED <<raw, wrote, fresh, told, batch>>
        BY <1>3 DEF FindRow, dbVars, workVars
    <2> HIDE DEF e
    <2>2. QED
        BY <2>1
<1>4. ASSUME NEW q \in Request, RejectRow(q) PROVE AnswersInv'
    BY <1>4 DEF RejectRow, dbVars, workVars
<1>5. ASSUME NEW q \in Request, BreakDeadlock(q) PROVE AnswersInv'
    BY <1>4, <1>5 DEF BreakDeadlock
<1>6. ASSUME NEW q \in Request, CommitPost(q) PROVE AnswersInv'
    <2>1. /\ raw' = [e \in Event |-> IF e \in wrote[q] THEN "NEW" ELSE raw[e]]
          /\ fresh' = [e \in Event |-> IF e \in wrote[q] THEN fresh[e] + 1 ELSE fresh[e]]
          /\ told' = told \cup wrote[q] \cup found[q]
          /\ wrote' = [wrote EXCEPT ![q] = {}]
          /\ found' = [found EXCEPT ![q] = {}]
          /\ batch' = batch
        BY <1>6 DEF CommitPost, Forget, workVars
    <2>2. \A e \in Event : Stored(e)' <=> Stored(e) \/ e \in wrote[q]
        BY <2>1
    <2>3. NewOnce'
        BY <2>1, <2>2
    <2>4. ToldIsStored'
        BY <2>1, <2>2
    <2>5. \A p \in Request : \A e \in wrote'[p] : ~Stored(e)'
        BY <2>1, <2>2
    <2>6. \A p \in Request : \A e \in found'[p] : Stored(e)' \/ e \in wrote'[p]
        BY <2>1, <2>2
    <2>7. \A w \in Worker : \A e \in batch'[w] : Stored(e)'
        BY <2>1, <2>2 DEF WorkersTyped
    <2>8. \A p, r \in Request : p # r => wrote'[p] \cap wrote'[r] = {}
        BY <2>1
    <2>9. QED
        BY <2>3, <2>4, <2>5, <2>6, <2>7, <2>8
<1>7. ASSUME NEW q \in Request, LosePost(q) PROVE AnswersInv'
    BY <1>7 DEF LosePost, Forget, dbVars, workVars
<1>8. ASSUME NEW t \in Type, CreateMapping(t) PROVE AnswersInv'
    BY <1>8 DEF CreateMapping, apiVars, workVars
<1>9. ASSUME NEW w \in Worker, Stage(w) PROVE AnswersInv'
    <2>1. /\ UNCHANGED <<wrote, found, fresh, told>>
          /\ \A e \in Event : Stored(e)' <=> Stored(e)
          /\ \A v \in Worker : \A e \in batch'[v] : Stored(e)
        BY <1>9, WorkerStoresNothing DEF apiVars
    <2>2. batch' \in [Worker -> SUBSET Event]
        BY TypeStep DEF WorkersTyped
    <2>3. QED
        BY <2>1, <2>2
<1>10. CASE UNCHANGED vars
    BY <1>10 DEF vars, dbVars, apiVars, workVars
<1>11. QED
    BY <1>1, <1>2, <1>3, <1>4, <1>5, <1>6, <1>7, <1>8, <1>9, <1>10 DEF Next, Post

LEMMA AnswersInit == Init => AnswersInv
    BY DEF Init, AnswersInv, NewOnce, ToldIsStored, Stored

\* Every event answered as stored is stored, whatever fails around the request.
THEOREM AnswersAreTrue == Spec => []ToldIsStored
<1>1. AnswersInv => ToldIsStored
    BY DEF AnswersInv
<1>2. QED
    BY TypeInit, TypeStep, AnswersInit, AnswersStep, <1>1, PTL DEF Spec

\* However requests overlap and repeat events, a stored event was answered as new
\* exactly once.
THEOREM NewExactlyOnce == Spec => []NewOnce
<1>1. AnswersInv => NewOnce
    BY DEF AnswersInv
<1>2. QED
    BY TypeInit, TypeStep, AnswersInit, AnswersStep, <1>1, PTL DEF Spec

-----------------------------------------------------------------------------
(***************************************************************************)
(* What an execution that dies takes with it, for any number of replicas.  *)
(***************************************************************************)

\* A worker's rows and kept events come from one claim; it keeps events only
\* between a claim and the save that follows; kept attributes are applied.
MemoryInv ==
    \A w \in Worker :
        /\ Cardinality(batch[w] \cup kept[w]) <= BatchSize
        /\ pc[w] \in {"off", "claim"} => batch[w] = {}
        /\ pc[w] \in {"off", "claim", "claiming"} => kept[w] = {}
        /\ kept[w] \cap Profiled \subseteq profile

\* A set of events inside another one is no larger.
LEMMA SmallerSet ==
    ASSUME NEW T \in SUBSET Event, NEW S \in SUBSET T
    PROVE  /\ Cardinality(S) \in Nat
           /\ Cardinality(S) <= Cardinality(T)
<1>1. IsFiniteSet(T)
    BY FS_Subset
<1>2. QED
    BY <1>1, FS_Subset, FS_CardinalityType

LEMMA NothingHeld == ASSUME NEW S, NEW T, S = {}, T = {} PROVE Cardinality(S \cup T) = 0
<1>1. S \cup T = {}
    OBVIOUS
<1>2. QED
    BY <1>1, FS_EmptySet

LEMMA MemoryStep == TypeOK /\ MemoryInv /\ AttributesFirst /\ [Next]_vars
                      => MemoryInv' /\ AttributesFirst'
<1> SUFFICES ASSUME TypeOK, MemoryInv, AttributesFirst, [Next]_vars
             PROVE  MemoryInv' /\ AttributesFirst'
    OBVIOUS
<1> USE DEF TypeOK, TablesTyped, WorkersTyped, WorkerState
<1>1. ASSUME NEW q \in Request, Post(q) PROVE MemoryInv' /\ AttributesFirst'
    <2>1. /\ UNCHANGED <<pc, batch, kept, profile>>
          /\ \A e \in Event : raw'[e] = "PROCESSED" => raw[e] = "PROCESSED"
        BY <1>1 DEF Post, BeginPost, InsertRow, FindRow, RejectRow, BreakDeadlock,
                    CommitPost, LosePost, dbVars, workVars
    <2>2. QED
        BY <2>1 DEF MemoryInv, AttributesFirst
<1>2. ASSUME NEW t \in Type, CreateMapping(t) PROVE MemoryInv' /\ AttributesFirst'
    BY <1>2 DEF CreateMapping, workVars, MemoryInv, AttributesFirst
<1>3. ASSUME NEW w \in Worker, StartRun(w) PROVE MemoryInv' /\ AttributesFirst'
    BY <1>3 DEF StartRun, dbVars, MemoryInv, AttributesFirst
<1>4. ASSUME NEW w \in Worker, Claim(w) PROVE MemoryInv' /\ AttributesFirst'
    <2>1. PICK S \in SUBSET Event, P \in SUBSET Event :
            /\ IsPrefix(P, S, BatchSize)
            /\ batch' = [batch EXCEPT ![w] = P]
        BY <1>4 DEF Claim, Unprocessed
    <2>2. Cardinality(P) <= BatchSize
        <3>1. Cardinality(S) \in Nat
            BY SmallerSet
        <3>2. QED
            BY <2>1, <3>1 DEF IsPrefix
    <2>3. /\ kept[w] = {}
          /\ pc' = [pc EXCEPT ![w] = "claiming"]
          /\ UNCHANGED <<raw, profile, kept>>
        BY <1>4 DEF Claim, dbVars, MemoryInv
    <2>4. P \cup kept[w] = P
        BY <2>3
    <2>5. QED
        BY <2>1, <2>2, <2>3, <2>4 DEF MemoryInv, AttributesFirst
<1>5. ASSUME NEW w \in Worker, CommitClaim(w) PROVE MemoryInv' /\ AttributesFirst'
    BY <1>5 DEF CommitClaim, dbVars, MemoryInv, AttributesFirst
<1>6. ASSUME NEW w \in Worker, Stop(w), UNCHANGED <<raw, profile>>
      PROVE  MemoryInv' /\ AttributesFirst'
    <2>1. /\ batch' = [batch EXCEPT ![w] = {}]
          /\ kept' = [kept EXCEPT ![w] = {}]
          /\ pc' = [pc EXCEPT ![w] = "off"]
        BY <1>6 DEF Stop
    <2>2. Cardinality(batch'[w] \cup kept'[w]) = 0
        BY <2>1, NothingHeld
    <2>3. ASSUME NEW v \in Worker, v # w PROVE Cardinality(batch'[v] \cup kept'[v]) <= BatchSize
        <3>1. batch'[v] = batch[v] /\ kept'[v] = kept[v]
            BY <2>1, <2>3
        <3>2. QED
            BY <3>1 DEF MemoryInv
    <2>4. \A v \in Worker : Cardinality(batch'[v] \cup kept'[v]) <= BatchSize
        <3>1. Cardinality(batch'[w] \cup kept'[w]) <= BatchSize
            BY <2>2, IngestAssumption
        <3>2. QED
            BY <2>3, <3>1, Zenon
    <2>5. MemoryInv'
        BY <1>6, <2>1, <2>4 DEF MemoryInv
    <2>6. QED
        BY <1>6, <2>5 DEF AttributesFirst
<1>7. ASSUME NEW w \in Worker, MarkUnmapped(w) PROVE MemoryInv' /\ AttributesFirst'
    <2>1. PICK e \in Event : /\ raw' = [raw EXCEPT ![e] = "UNMAPPED"]
                             /\ batch' = [batch EXCEPT ![w] = @ \ {e}]
        BY <1>7 DEF MarkUnmapped
    <2>2. Cardinality((batch[w] \ {e}) \cup kept[w]) <= Cardinality(batch[w] \cup kept[w])
        BY SmallerSet
    <2>3. /\ Cardinality((batch[w] \ {e}) \cup kept[w]) \in Nat
          /\ Cardinality(batch[w] \cup kept[w]) \in Nat
        BY SmallerSet
    <2>4. pc[w] = "rows" /\ UNCHANGED <<pc, profile, kept>>
        BY <1>7 DEF MarkUnmapped
    <2>5. Cardinality((batch[w] \ {e}) \cup kept[w]) <= BatchSize
        BY <2>2, <2>3 DEF MemoryInv
    <2>6. MemoryInv'
        BY <2>1, <2>4, <2>5 DEF MemoryInv
    <2>7. AttributesFirst'
        BY <2>1, <2>4 DEF AttributesFirst
    <2>8. QED
        BY <2>6, <2>7
<1>8. ASSUME NEW w \in Worker, Normalize(w) PROVE MemoryInv' /\ AttributesFirst'
    <2>1. PICK e \in Event : /\ e \in batch[w]
                             /\ profile' = profile \cup ({e} \cap Profiled)
                             /\ kept' = [kept EXCEPT ![w] = @ \cup {e}]
        BY <1>8 DEF Normalize, At
    <2>2. batch[w] \cup (kept[w] \cup {e}) = batch[w] \cup kept[w]
        BY <2>1
    <2>3. pc[w] = "rows" /\ pc' = [pc EXCEPT ![w] = "mark"] /\ UNCHANGED <<raw, batch>>
        BY <1>8 DEF Normalize
    <2>4. QED
        BY <2>1, <2>2, <2>3 DEF MemoryInv, AttributesFirst
<1>9. ASSUME NEW w \in Worker, MarkProcessed(w) PROVE MemoryInv' /\ AttributesFirst'
    <2>1. PICK e \in Event : /\ e \in kept[w]
                             /\ raw' = [raw EXCEPT ![e] = "PROCESSED"]
                             /\ batch' = [batch EXCEPT ![w] = @ \ {e}]
        BY <1>9 DEF MarkProcessed
    <2>2. Cardinality((batch[w] \ {e}) \cup kept[w]) <= Cardinality(batch[w] \cup kept[w])
        BY SmallerSet
    <2>3. /\ Cardinality((batch[w] \ {e}) \cup kept[w]) \in Nat
          /\ Cardinality(batch[w] \cup kept[w]) \in Nat
        BY SmallerSet
    <2>4. /\ pc[w] = "mark" /\ pc' = [pc EXCEPT ![w] = "rows"]
          /\ UNCHANGED <<profile, kept>>
        BY <1>9 DEF MarkProcessed
    <2>5. Cardinality((batch[w] \ {e}) \cup kept[w]) <= BatchSize
        BY <2>2, <2>3, IngestAssumption DEF MemoryInv
    <2>6. ASSUME NEW v \in Worker, v # w
          PROVE  batch'[v] = batch[v] /\ kept'[v] = kept[v] /\ pc'[v] = pc[v]
        BY <2>1, <2>4, <2>6
    <2>7. MemoryInv'
        BY <2>1, <2>4, <2>5, <2>6 DEF MemoryInv
    <2>8. AttributesFirst'
        BY <2>1, <2>4 DEF MemoryInv, AttributesFirst
    <2>9. QED
        BY <2>7, <2>8
<1>10. ASSUME NEW w \in Worker, Save(w) PROVE MemoryInv' /\ AttributesFirst'
    <2>1. /\ batch[w] = {}
          /\ kept' = [kept EXCEPT ![w] = {}]
          /\ pc' = [pc EXCEPT ![w] = "claim"]
          /\ UNCHANGED <<raw, profile, batch>>
        BY <1>10 DEF Save
    <2>2. Cardinality(batch'[w] \cup kept'[w]) = 0
        BY <2>1, NothingHeld
    <2>3. ASSUME NEW v \in Worker, v # w PROVE Cardinality(batch'[v] \cup kept'[v]) <= BatchSize
        <3>1. batch'[v] = batch[v] /\ kept'[v] = kept[v]
            BY <2>1, <2>3
        <3>2. QED
            BY <3>1 DEF MemoryInv
    <2>4. \A v \in Worker : Cardinality(batch'[v] \cup kept'[v]) <= BatchSize
        <3>1. Cardinality(batch'[w] \cup kept'[w]) <= BatchSize
            BY <2>2, IngestAssumption
        <3>2. QED
            BY <2>3, <3>1, Zenon
    <2>5. QED
        BY <2>1, <2>4 DEF MemoryInv, AttributesFirst
<1>11. CASE UNCHANGED vars
    BY <1>11 DEF vars, dbVars, workVars, MemoryInv, AttributesFirst
<1>12. ASSUME NEW w \in Worker, ClaimNothing(w) \/ Raise(w) \/ Fail(w)
       PROVE  MemoryInv' /\ AttributesFirst'
    BY <1>6, <1>12 DEF ClaimNothing, Raise, Fail, dbVars
<1>13. QED
    BY <1>1, <1>2, <1>3, <1>4, <1>5, <1>7, <1>8, <1>9, <1>10, <1>11, <1>12 DEF Next, Stage

LEMMA MemoryInit == Init => MemoryInv /\ AttributesFirst
<1> SUFFICES ASSUME Init PROVE MemoryInv /\ AttributesFirst
    OBVIOUS
<1>1. ASSUME NEW w \in Worker PROVE Cardinality(batch[w] \cup kept[w]) = 0
    BY NothingHeld DEF Init
<1>2. QED
    BY <1>1 DEF Init, MemoryInv, AttributesFirst

\* Attributes are applied before the row is marked, whatever dies in between.
THEOREM AttributesApplied == Spec => []AttributesFirst
<1>1. QED
    BY TypeInit, TypeStep, MemoryInit, MemoryStep, PTL DEF Spec

\* A step after which an event is lost is the end of an execution that kept it.
LEMMA LossStep ==
    ASSUME TypeOK, MemoryInv, [Next]_vars,
           NEW e \in Event, ~Lost(e), Lost(e)'
    PROVE  \E w \in Worker : pc[w] # "off" /\ pc'[w] = "off" /\ e \in kept[w]
<1> USE DEF TypeOK, TablesTyped, WorkersTyped, WorkerState, Lost
<1>1. ASSUME NEW q \in Request, Post(q) PROVE FALSE
    <2>1. /\ UNCHANGED <<kept, canonical>>
          /\ raw'[e] = "PROCESSED" => raw[e] = "PROCESSED"
        BY <1>1 DEF Post, BeginPost, InsertRow, FindRow, RejectRow, BreakDeadlock,
                    CommitPost, LosePost, dbVars, workVars
    <2>2. QED
        BY <2>1
<1>2. ASSUME NEW t \in Type, CreateMapping(t) PROVE FALSE
    BY <1>2 DEF CreateMapping, workVars
<1>3. ASSUME NEW w \in Worker, StartRun(w) \/ Claim(w) \/ CommitClaim(w) PROVE FALSE
    BY <1>3 DEF StartRun, Claim, CommitClaim, dbVars
<1>4. ASSUME NEW w \in Worker, Stop(w), pc[w] # "off", UNCHANGED <<raw, canonical>>
      PROVE  \E v \in Worker : pc[v] # "off" /\ pc'[v] = "off" /\ e \in kept[v]
    BY <1>4 DEF Stop
<1>5. ASSUME NEW w \in Worker, MarkUnmapped(w) PROVE FALSE
    BY <1>5 DEF MarkUnmapped
<1>6. ASSUME NEW w \in Worker, Normalize(w) PROVE FALSE
    BY <1>6 DEF Normalize
<1>7. ASSUME NEW w \in Worker, MarkProcessed(w) PROVE FALSE
    BY <1>7 DEF MarkProcessed
<1>8. ASSUME NEW w \in Worker, Save(w) PROVE FALSE
    <2>1. e \in kept[w] => canonical'[e] = canonical[e] + 1
        BY <1>8 DEF Save
    <2>2. e \notin kept[w] => canonical'[e] = canonical[e]
        BY <1>8 DEF Save
    <2>3. e \notin kept[w]
        BY <2>1
    <2>4. raw' = raw /\ kept' = [kept EXCEPT ![w] = {}]
        BY <1>8 DEF Save
    <2>5. QED
        BY <2>2, <2>3, <2>4
<1>9. CASE UNCHANGED vars
    BY <1>9 DEF vars, dbVars, workVars
<1>10. ASSUME NEW w \in Worker, ClaimNothing(w) \/ Raise(w) \/ Fail(w)
       PROVE  \E v \in Worker : pc[v] # "off" /\ pc'[v] = "off" /\ e \in kept[v]
    BY <1>4, <1>10 DEF ClaimNothing, Raise, Fail, dbVars
<1>11. QED
    BY <1>1, <1>2, <1>3, <1>5, <1>6, <1>7, <1>8, <1>9, <1>10 DEF Next, Stage

\* At most one execution ends in a step.
LEMMA OneEnds ==
    ASSUME TypeOK, [Next]_vars, NEW v \in Worker, NEW w \in Worker,
           pc[v] # "off", pc'[v] = "off", pc[w] # "off", pc'[w] = "off"
    PROVE  v = w
<1> USE DEF TypeOK, WorkersTyped, WorkerState
<1>1. ASSUME NEW u \in Worker, Stage(u) PROVE \A x \in Worker \ {u} : pc'[x] = pc[x]
    BY <1>1 DEF Stage, StartRun, Claim, CommitClaim, ClaimNothing, MarkUnmapped, Raise,
                Normalize, MarkProcessed, Save, Fail, Stop
<1>2. ASSUME NEW q \in Request, Post(q) PROVE pc' = pc
    BY <1>2 DEF Post, BeginPost, InsertRow, FindRow, RejectRow, BreakDeadlock,
                CommitPost, LosePost, workVars
<1>3. QED
    BY <1>1, <1>2 DEF Next, CreateMapping, vars, workVars

\* Events are lost only when an execution ends with events it has not saved, and
\* then no more than one batch, for any number of replicas and failures.
THEOREM LossBounded == Spec => LossIsOneBatch
<1>1. ASSUME TypeOK, MemoryInv, [Next]_vars PROVE LosesOneBatch
    <2>1. CASE Gone = {}
        <3>1. Cardinality(Gone) = 0
            BY <2>1, FS_EmptySet
        <3>2. 0 <= BatchSize
            BY IngestAssumption
        <3>3. QED
            BY <2>1, <3>1, <3>2 DEF LosesOneBatch
    <2>2. CASE Gone # {}
        <3> USE DEF Gone
        <3>1. PICK e \in Gone : TRUE
            BY <2>2
        <3>2. PICK w \in Worker : pc[w] # "off" /\ pc'[w] = "off" /\ e \in kept[w]
            BY <1>1, <3>1, LossStep
        <3>3. ASSUME NEW f \in Gone PROVE f \in kept[w]
            <4>1. PICK v \in Worker : pc[v] # "off" /\ pc'[v] = "off" /\ f \in kept[v]
                BY <1>1, <3>3, LossStep
            <4>2. v = w
                BY <1>1, <3>2, <4>1, OneEnds
            <4>3. QED
                BY <4>1, <4>2
        <3>4. Gone \subseteq kept[w]
            BY <3>3
        <3>5. Gone \subseteq batch[w] \cup kept[w] /\ batch[w] \cup kept[w] \subseteq Event
            BY <1>1, <3>4 DEF TypeOK, WorkersTyped
        <3>6. /\ Cardinality(Gone) <= Cardinality(batch[w] \cup kept[w])
              /\ Cardinality(Gone) \in Nat
              /\ Cardinality(batch[w] \cup kept[w]) \in Nat
            BY <3>5, SmallerSet
        <3>7. Cardinality(batch[w] \cup kept[w]) <= BatchSize
            BY <1>1 DEF MemoryInv
        <3>8. Cardinality(Gone) <= BatchSize
            BY <3>6, <3>7, IngestAssumption
        <3>9. QED
            BY <3>2, <3>4, <3>8 DEF LosesOneBatch
    <2>3. QED
        BY <2>1, <2>2
<1>2. TypeOK /\ MemoryInv /\ [Next]_vars => [LosesOneBatch]_vars
    BY <1>1
<1>3. QED
    BY <1>2, TypeInit, TypeStep, MemoryInit, MemoryStep, PTL DEF Spec, LossIsOneBatch

-----------------------------------------------------------------------------
(***************************************************************************)
(* One replica: no event is saved or decided twice.                        *)
(***************************************************************************)

OneWorker == \A v, w \in Worker : v = w

\* Claimed rows are undecided and unsaved; a kept event is unsaved, and decided
\* unless it is the one its worker is about to mark.
SoloInv ==
    /\ \A w \in Worker : \A e \in batch[w] : raw[e] = "NEW"
    /\ \A w \in Worker : \A e \in kept[w] :
          /\ canonical[e] = 0
          /\ raw[e] = "PROCESSED" \/ (pc[w] = "mark" /\ e \in batch[w])
    /\ \A w \in Worker : \A e, f \in batch[w] \cap kept[w] : e = f
    /\ SavedWasProcessed
    /\ NoCopies

\* The verdict on a row is final in this step.
Final == \A e \in Event : raw[e] \in {"PROCESSED", "UNMAPPED"} => raw'[e] = raw[e]

LEMMA SoloStep ==
    ASSUME OneWorker, TypeOK, AnswersInv, MemoryInv, SoloInv, [Next]_vars
    PROVE  SoloInv' /\ Final
<1> USE DEF TypeOK, TablesTyped, WorkersTyped, WorkerState, RawState,
            SoloInv, SavedWasProcessed, NoCopies, Final
<1>1. ASSUME NEW q \in Request, CommitPost(q) PROVE SoloInv' /\ Final
    <2>1. /\ UNCHANGED <<canonical, pc, batch, kept>>
          /\ raw' = [e \in Event |-> IF e \in wrote[q] THEN "NEW" ELSE raw[e]]
        BY <1>1 DEF CommitPost, workVars
    <2>2. \A e \in Event : raw[e] # "ABSENT" => raw'[e] = raw[e]
        BY <2>1 DEF AnswersInv, Stored
    <2>3. Final /\ SavedWasProcessed' /\ NoCopies'
        BY <2>1, <2>2
    <2>4. \A w \in Worker : \A e \in batch[w] : raw'[e] = "NEW"
        BY <2>2
    <2>5. \A w \in Worker : \A e \in kept[w] : raw[e] = "PROCESSED" => raw'[e] = "PROCESSED"
        BY <2>2
    <2>6. QED
        BY <2>1, <2>3, <2>4, <2>5
<1>2. ASSUME NEW q \in Request, Post(q), ~CommitPost(q) PROVE SoloInv' /\ Final
    <2>1. UNCHANGED <<raw, canonical, pc, batch, kept>>
        BY <1>2 DEF Post, BeginPost, InsertRow, FindRow, RejectRow, BreakDeadlock,
                    LosePost, dbVars, workVars
    <2>2. QED
        BY <2>1
<1>3. ASSUME NEW t \in Type, CreateMapping(t) PROVE SoloInv' /\ Final
    BY <1>3 DEF CreateMapping, workVars
<1>4. ASSUME NEW w \in Worker, StartRun(w) \/ CommitClaim(w) PROVE SoloInv' /\ Final
    BY <1>4 DEF StartRun, CommitClaim, dbVars
<1>5. ASSUME NEW w \in Worker, Claim(w) PROVE SoloInv' /\ Final
    <2>1. PICK P \in SUBSET Event : /\ P \subseteq Unprocessed
                                   /\ batch' = [batch EXCEPT ![w] = P]
        BY <1>5 DEF Claim, IsPrefix
    <2>2. kept[w] = {}
        BY <1>5 DEF Claim, MemoryInv
    <2>3. pc[w] = "claim" /\ pc' = [pc EXCEPT ![w] = "claiming"]
          /\ UNCHANGED <<raw, canonical, kept>>
        BY <1>5 DEF Claim, dbVars
    <2>4. QED
        BY <2>1, <2>2, <2>3 DEF Unprocessed
<1>6. ASSUME NEW w \in Worker, Stop(w), UNCHANGED <<raw, canonical>> PROVE SoloInv' /\ Final
    BY <1>6 DEF Stop
<1>7. ASSUME NEW w \in Worker, MarkUnmapped(w) PROVE SoloInv' /\ Final
    <2>1. PICK e \in batch[w] : /\ raw' = [raw EXCEPT ![e] = "UNMAPPED"]
                               /\ batch' = [batch EXCEPT ![w] = @ \ {e}]
        BY <1>7 DEF MarkUnmapped, At
    <2>2. pc[w] = "rows" /\ UNCHANGED <<canonical, pc, kept>>
        BY <1>7 DEF MarkUnmapped
    <2>3. e \in Event /\ raw[e] = "NEW"
        BY <2>1
    <2>4. e \notin kept[w] /\ canonical[e] = 0
        BY <2>2, <2>3
    <2>5. QED
        BY <2>1, <2>2, <2>3, <2>4 DEF OneWorker
<1>8. ASSUME NEW w \in Worker, Normalize(w) PROVE SoloInv' /\ Final
    <2>1. PICK e \in batch[w] : kept' = [kept EXCEPT ![w] = @ \cup {e}]
        BY <1>8 DEF Normalize, At
    <2>2. /\ pc[w] = "rows" /\ pc' = [pc EXCEPT ![w] = "mark"]
          /\ UNCHANGED <<raw, canonical, batch>>
        BY <1>8 DEF Normalize
    <2>3. batch[w] \cap kept[w] = {}
        BY <2>2
    <2>4. canonical[e] = 0 /\ raw[e] = "NEW"
        BY <2>1
    <2>5. QED
        BY <2>1, <2>2, <2>3, <2>4 DEF OneWorker
<1>9. ASSUME NEW w \in Worker, MarkProcessed(w) PROVE SoloInv' /\ Final
    <2>1. PICK e \in batch[w] \cap kept[w] :
            /\ raw' = [raw EXCEPT ![e] = "PROCESSED"]
            /\ batch' = [batch EXCEPT ![w] = @ \ {e}]
        BY <1>9 DEF MarkProcessed
    <2>2. /\ pc[w] = "mark" /\ pc' = [pc EXCEPT ![w] = "rows"]
          /\ UNCHANGED <<canonical, kept>>
        BY <1>9 DEF MarkProcessed
    <2>3. raw[e] = "NEW" /\ \A f \in batch[w] \cap kept[w] : f = e
        BY <2>1
    <2>4. QED
        BY <2>1, <2>2, <2>3 DEF OneWorker
<1>10. ASSUME NEW w \in Worker, Save(w) PROVE SoloInv' /\ Final
    <2>1. /\ batch[w] = {} /\ kept' = [kept EXCEPT ![w] = {}]
          /\ canonical' = [e \in Event |-> IF e \in kept[w] THEN canonical[e] + 1
                                                          ELSE canonical[e]]
          /\ UNCHANGED <<raw, batch>>
        BY <1>10 DEF Save
    <2>2. \A e \in Event : /\ e \in kept[w] => canonical'[e] = 1 /\ raw[e] = "PROCESSED"
                          /\ e \notin kept[w] => canonical'[e] = canonical[e]
        BY <2>1
    <2>3. QED
        BY <2>1, <2>2 DEF OneWorker
<1>11. CASE UNCHANGED vars
    BY <1>11 DEF vars, dbVars, workVars
<1>12. ASSUME NEW w \in Worker, ClaimNothing(w) \/ Raise(w) \/ Fail(w)
       PROVE  SoloInv' /\ Final
    BY <1>6, <1>12 DEF ClaimNothing, Raise, Fail, dbVars
<1>13. QED
    BY <1>1, <1>2, <1>3, <1>4, <1>5, <1>7, <1>8, <1>9, <1>10, <1>11, <1>12 DEF Next, Stage

LEMMA SoloInit == Init => SoloInv
    BY DEF Init, SoloInv, SavedWasProcessed, NoCopies

\* With one replica an event is saved once at most, and only once its row is
\* marked as processed.
THEOREM SavedOnce == ASSUME OneWorker PROVE Spec => [](NoCopies /\ SavedWasProcessed)
<1>1. TypeOK /\ AnswersInv /\ MemoryInv /\ SoloInv /\ [Next]_vars => SoloInv'
    BY SoloStep
<1>2. SoloInv => NoCopies /\ SavedWasProcessed
    BY DEF SoloInv
<1>3. QED
    BY TypeInit, TypeStep, AnswersInit, AnswersStep, MemoryInit, MemoryStep, SoloInit,
       <1>1, <1>2, PTL DEF Spec

\* With one replica no row is decided a second time.
THEOREM DecidedOnce == ASSUME OneWorker PROVE Spec => VerdictIsFinal
<1>1. TypeOK /\ AnswersInv /\ MemoryInv /\ SoloInv /\ [Next]_vars => SoloInv' /\ [Final]_vars
    BY SoloStep
<1>2. [Final]_vars <=> [\A e \in Event : raw[e] \in {"PROCESSED", "UNMAPPED"} => raw'[e] = raw[e]]_vars
    BY DEF Final
<1>3. QED
    BY TypeInit, TypeStep, AnswersInit, AnswersStep, MemoryInit, MemoryStep, SoloInit,
       <1>1, <1>2, PTL DEF Spec, VerdictIsFinal

-----------------------------------------------------------------------------
(***************************************************************************)
(* Requests that wait for each other's rows.                               *)
(***************************************************************************)

\* The guards of InsertRow, FindRow and CommitPost: the request has its next step.
GoesOn(q) ==
    \/ todo[q] = <<>>
    \/ raw[Head(todo[q])] # "ABSENT"
    \/ Head(todo[q]) \in wrote[q]
    \/ Writers(Head(todo[q])) = {}

\* PostgreSQL sees q in a deadlock of some of P.
Broken(q, P) == \E Q \in SUBSET P : q \in Q /\ Deadlocked(Q)

\* Nobody in P waits for a request outside of P.
ClosedUnderWaits(P) == \A q \in P : todo[q] # <<>> => Writers(Head(todo[q])) \subseteq P

\* Whatever a request waits for, and what that one waits for in its turn: one of them
\* can go on or is in a deadlock that is broken.
NobodyWaitsInVain ==
    \A P \in SUBSET Request :
        ClosedUnderWaits(P) /\ (\E q \in P : Busy(q))
            => \E q \in P : Busy(q) /\ (GoesOn(q) \/ Broken(q, P))

\* As long as a request lasts, its events only become fewer.
FewerLeft ==
    \A q \in Request :
        Busy(q) /\ Busy(q)' => todo'[q] = todo[q] \/ Len(todo'[q]) < Len(todo[q])

PostsRunDown == [][FewerLeft]_vars

\* Rows that are not committed belong to a request that lasts.
WritersLast == \A q \in Request : wrote[q] # {} => Busy(q)

LEMMA LeastNat ==
    ASSUME NEW N \in SUBSET Nat, N # {}
    PROVE  \E n \in N : \A m \in N : n <= m
<1>1. PICK n \in N : \A m \in N : ~ (<<m, n>> \in OpToRel(<, Nat))
    BY WFMin, NatLessThanWellFounded
<1>2. ASSUME NEW m \in N PROVE n <= m
    <2>1. ~ (m < n) /\ m \in Nat /\ n \in Nat
        BY <1>1 DEF OpToRel
    <2>2. QED
        BY <2>1
<1>3. QED
    BY <1>2

\* Requests that all wait for one another contain a smallest cycle.
LEMMA CycleInside ==
    ASSUME NEW P, IsFiniteSet(P), P # {}, WaitForEachOther(P)
    PROVE  \E Q \in SUBSET P : Deadlocked(Q)
<1> DEFINE Waiting == {Q \in SUBSET P : Q # {} /\ WaitForEachOther(Q)}
           N == {Cardinality(Q) : Q \in Waiting}
<1>1. \A Q \in SUBSET P : IsFiniteSet(Q) /\ Cardinality(Q) \in Nat
    BY FS_Subset, FS_CardinalityType
<1>2. P \in Waiting
    OBVIOUS
<1>3. N \in SUBSET Nat /\ N # {}
    BY <1>1, <1>2
<1>4. PICK n \in N : \A m \in N : n <= m
    BY <1>3, LeastNat
<1>5. PICK Q \in Waiting : n = Cardinality(Q)
    BY <1>4
<1>6. ASSUME NEW R \in SUBSET Q, R # {}, R # Q, WaitForEachOther(R)
      PROVE  FALSE
    <2>1. R \in Waiting
        BY <1>6
    <2>2. Cardinality(Q) <= Cardinality(R)
        BY <1>4, <1>5, <2>1
    <2>3. IsFiniteSet(Q) /\ Cardinality(Q) \in Nat /\ Cardinality(R) \in Nat
        BY <1>1
    <2>4. Cardinality(R) <= Cardinality(Q) /\ (Cardinality(Q) = Cardinality(R) => Q = R)
        BY <2>3, FS_Subset
    <2>5. QED
        BY <1>6, <2>2, <2>3, <2>4
<1>7. Deadlocked(Q)
    <2>1. Q # {} /\ WaitForEachOther(Q)
        OBVIOUS
    <2>2. ASSUME NEW R \in (SUBSET Q) \ {{}, Q}
          PROVE  ~WaitForEachOther(R)
        <3>1. R \in SUBSET Q /\ R # {} /\ R # Q
            OBVIOUS
        <3>2. QED
            BY <1>6, <3>1
    <2>3. QED
        BY <2>1, <2>2 DEF Deadlocked
<1>8. QED
    BY <1>7

LEMMA WaitsAreBroken ==
    ASSUME IsFiniteSet(Request), WritersLast
    PROVE  NobodyWaitsInVain
<1> SUFFICES ASSUME NEW P \in SUBSET Request, ClosedUnderWaits(P), NEW b \in P, Busy(b),
                    \A q \in P : Busy(q) => ~GoesOn(q)
             PROVE  \E q \in P : Busy(q) /\ Broken(q, P)
    BY DEF NobodyWaitsInVain
<1> DEFINE B == {q \in P : Busy(q)}
<1>1. WaitForEachOther(B)
    <2>1. ASSUME NEW q \in B
          PROVE  /\ Busy(q) /\ todo[q] # <<>>
                 /\ Writers(Head(todo[q])) \cap (B \ {q}) # {}
        <3>1. /\ Busy(q) /\ todo[q] # <<>>
              /\ Head(todo[q]) \notin wrote[q]
              /\ Writers(Head(todo[q])) # {}
            BY DEF GoesOn
        <3>2. PICK p \in Writers(Head(todo[q])) : TRUE
            BY <3>1
        <3>3. p \in P /\ p # q
            BY <3>1, <3>2 DEF ClosedUnderWaits, Writers
        <3>4. Busy(p)
            BY <3>2 DEF Writers, WritersLast
        <3>5. QED
            BY <3>1, <3>2, <3>3, <3>4
    <2>2. QED
        BY <2>1 DEF WaitForEachOther
<1>2. IsFiniteSet(B) /\ B # {}
    BY FS_Subset
<1>3. PICK Q \in SUBSET B : Deadlocked(Q)
    BY <1>1, <1>2, CycleInside
<1>4. PICK q \in Q : TRUE
    BY <1>3 DEF Deadlocked
<1>5. QED
    BY <1>3, <1>4 DEF Broken

LEMMA PostsStep == TypeOK /\ WritersLast /\ [Next]_vars => WritersLast' /\ [FewerLeft]_vars
<1> SUFFICES ASSUME TypeOK, WritersLast, [Next]_vars PROVE WritersLast' /\ [FewerLeft]_vars
    OBVIOUS
<1> USE DEF TypeOK, RequestsTyped
<1>1. ASSUME NEW q \in Request, todo[q] # <<>>
      PROVE  Len(Tail(todo[q])) < Len(todo[q])
    BY <1>1, HeadTailProperties, LenProperties
<1>2. ASSUME NEW q \in Request, BeginPost(q) PROVE WritersLast' /\ FewerLeft
    BY <1>2 DEF BeginPost, WritersLast, FewerLeft, Busy
<1>3. ASSUME NEW q \in Request, InsertRow(q) \/ FindRow(q) \/ RejectRow(q)
      PROVE  WritersLast' /\ FewerLeft
    <2>1. /\ Busy(q) /\ todo[q] # <<>> /\ began' = began
          /\ todo' = [todo EXCEPT ![q] = Tail(todo[q])]
          /\ \A p \in Request \ {q} : wrote'[p] = wrote[p]
        BY <1>3 DEF InsertRow, FindRow, RejectRow
    <2>2. WritersLast'
        BY <2>1 DEF WritersLast, Busy
    <2>3. FewerLeft
        BY <1>1, <2>1 DEF FewerLeft
    <2>4. QED
        BY <2>2, <2>3
<1>4. ASSUME NEW q \in Request, BreakDeadlock(q) PROVE WritersLast' /\ FewerLeft
    BY <1>3, <1>4 DEF BreakDeadlock
<1>5. ASSUME NEW q \in Request, CommitPost(q) \/ LosePost(q) PROVE WritersLast' /\ FewerLeft
    <2>1. /\ began' = [began EXCEPT ![q] = 0]
          /\ wrote' = [wrote EXCEPT ![q] = {}]
          /\ todo' = [todo EXCEPT ![q] = <<>>]
        BY <1>5 DEF CommitPost, LosePost, Forget
    <2>2. ~Busy(q)'
        BY <2>1 DEF Busy
    <2>3. WritersLast'
        BY <2>1 DEF WritersLast, Busy
    <2>4. FewerLeft
        BY <2>1, <2>2 DEF FewerLeft
    <2>5. QED
        BY <2>3, <2>4
<1>6. ASSUME UNCHANGED apiVars PROVE WritersLast' /\ FewerLeft
    BY <1>6 DEF apiVars, WritersLast, FewerLeft, Busy
<1>7. ASSUME NEW w \in Worker, Stage(w) PROVE UNCHANGED apiVars
    BY <1>7 DEF Stage, StartRun, Claim, CommitClaim, ClaimNothing, MarkUnmapped, Raise,
                Normalize, MarkProcessed, Save, Fail
<1>8. ASSUME NEW t \in Type, CreateMapping(t) PROVE UNCHANGED apiVars
    BY <1>8 DEF CreateMapping
<1>9. CASE UNCHANGED vars
    BY <1>6, <1>9 DEF vars
<1>10. QED
    BY <1>2, <1>3, <1>4, <1>5, <1>6, <1>7, <1>8, <1>9 DEF Next, Post

\* However many requests overlap, none waits in vain: along the rows it waits for there
\* is one that goes on or a deadlock that PostgreSQL breaks, and every step of a request
\* leaves it fewer events.  EveryPostEnds needs nothing else but fairness.
THEOREM PostsCannotHang ==
    ASSUME IsFiniteSet(Request)
    PROVE  Spec => []NobodyWaitsInVain /\ PostsRunDown
<1>1. Init => WritersLast
    BY DEF Init, WritersLast
<1>2. WritersLast => NobodyWaitsInVain
    BY WaitsAreBroken
<1>3. QED
    BY TypeInit, TypeStep, PostsStep, <1>1, <1>2, PTL DEF Spec, PostsRunDown
=============================================================================
