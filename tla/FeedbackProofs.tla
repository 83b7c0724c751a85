--------------------------- MODULE FeedbackProofs ---------------------------
(***************************************************************************)
(* Proofs about Feedback, for any users, runs, replicas, reports, arms and *)
(* bounds.                                                                 *)
(***************************************************************************)
EXTENDS Feedback, FiniteSetTheorems, WellFoundedInduction, TLAPS

\* The history of the database only grows: what a read found is so for ever.
Grows ==
    /\ experiments \subseteq experiments'
    /\ assigned \subseteq assigned'
    /\ DOMAIN outcomes \subseteq DOMAIN outcomes'
    /\ \A o \in DOMAIN outcomes : outcomes'[o] = outcomes[o]
    /\ DOMAIN filed \subseteq DOMAIN filed'
    /\ \A i \in DOMAIN filed : filed'[i] = filed[i]
    /\ labels \subseteq labels'

\* What an execution read holds, and no outcome that was due falls out on the way.
Holds(w) ==
    /\ joined[w] \subseteq Joined
    /\ pc[w] \in {"outcomes", "latest", "labels", "save"} => due[w] \subseteq Labelable
    /\ pc[w] \in {"latest", "labels", "save"} => due[w] \subseteq joined[w]
    /\ pc[w] \in {"labels", "save"} =>
         \A o \in due[w] : HasSnapshot(latest[w][outcomes[o].user], outcomes[o].user)
    /\ pc[w] = "save" => known[w] \subseteq LabelledIn(labels)
    /\ pc[w] = "context" => due[w] \subseteq LabelledIn(labels)
    /\ pc[w] = "lookup" => due[w] \subseteq LabelledIn(context[w])

ReadsHold == \A w \in Replica : Holds(w)

LoopInv == TypeOK /\ OneLabelEach /\ LabelsTruthful /\ ReadsHold

-----------------------------------------------------------------------------
(* Type correctness.                                                       *)

\* A set of positions that is not empty has a last one (ORDER BY created_at DESC).
LEMMA SetMaxIn ==
    ASSUME NEW n \in Nat, NEW S \in SUBSET (1..n), S # {}
    PROVE  SetMax(S) \in S
<1> DEFINE T == {n - i : i \in S}
<1>1. T \subseteq Nat
    BY \A i \in S : n - i \in Nat
<1>2. T # {}
    OBVIOUS
<1>3. PICK x \in T : \A y \in T : ~ (<<y, x>> \in OpToRel(<, Nat))
    BY <1>1, <1>2, WFMin, NatLessThanWellFounded
<1>4. \A y \in T : ~ (y < x)
    BY <1>1, <1>3 DEF OpToRel
<1>5. PICK i \in S : x = n - i
    OBVIOUS
<1>6. ASSUME NEW m \in S PROVE m <= i
    <2>1. n - m \in T /\ ~ (n - m < n - i)
        BY <1>4, <1>5
    <2>2. m \in Nat /\ i \in Nat
        OBVIOUS
    <2> QED
        BY <2>1, <2>2
<1> QED
    BY <1>6 DEF SetMax

LEMMA SeqShape ==
    ASSUME NEW S, NEW s \in Seq(S)
    PROVE  /\ Len(s) \in Nat
           /\ DOMAIN s = 1..Len(s)
           /\ \A i \in DOMAIN s : s[i] \in S
    OBVIOUS

LEMMA AppendShape ==
    ASSUME NEW S, NEW s \in Seq(S), NEW x \in S
    PROVE  /\ Append(s, x) \in Seq(S)
           /\ DOMAIN s \subseteq DOMAIN Append(s, x)
           /\ \A i \in DOMAIN s : Append(s, x)[i] = s[i]
    OBVIOUS

LEMMA FiledShape ==
    ASSUME TypeOK
    PROVE  /\ Len(filed) \in Nat
           /\ DOMAIN filed = 1..Len(filed)
           /\ \A i \in DOMAIN filed : filed[i].run \in Run /\ filed[i].users \in SUBSET User
<1>1. filed \in Seq([run : Run, users : SUBSET User])
    BY DEF TypeOK, StoreTyped
<1>2. /\ Len(filed) \in Nat /\ DOMAIN filed = 1..Len(filed)
      /\ \A i \in DOMAIN filed : filed[i] \in [run : Run, users : SUBSET User]
    BY <1>1, SeqShape
<1> QED
    BY <1>2

LEMMA OutcomesShape ==
    ASSUME TypeOK
    PROVE  /\ DOMAIN outcomes \subseteq Nat
           /\ \A o \in DOMAIN outcomes : outcomes[o] \in Outcome
<1>1. outcomes \in Seq(Outcome)
    BY DEF TypeOK, StoreTyped
<1> QED
    BY <1>1, SeqShape

LEMMA TypeInit == Init => TypeOK
    BY FeedbackAssumption DEF Init, TypeOK, StoreTyped, MemoryTyped, Step

LEMMA LatestTyped == ASSUME TypeOK PROVE Latest \in [User -> Run \cup {NoRun}]
<1>1. ASSUME NEW u \in User, Filings(u) # {}
      PROVE  SetMax(Filings(u)) \in DOMAIN filed
    <2>1. Filings(u) \in SUBSET (1..Len(filed))
        BY FiledShape DEF Filings
    <2> QED
        BY <1>1, <2>1, FiledShape, SetMaxIn
<1> QED
    BY <1>1, FiledShape DEF Latest

\* The snapshot that load_outcomes finds is one that was filed for the user.
LEMMA LatestFiled ==
    ASSUME TypeOK, NEW u \in User, Filings(u) # {}
    PROVE  HasSnapshot(Latest[u], u)
<1>1. Filings(u) \in SUBSET (1..Len(filed))
    BY FiledShape DEF Filings
<1>2. SetMax(Filings(u)) \in Filings(u)
    BY <1>1, FiledShape, SetMaxIn
<1> QED
    BY <1>2 DEF Latest, HasSnapshot

LEMMA NewTyped ==
    ASSUME TypeOK, NEW w \in Replica, joined[w] \subseteq Joined
    PROVE  NewExamples(w) \subseteq Label
<1> SUFFICES ASSUME NEW o \in Unlabelled(w) PROVE Example(w, o) \in Label
    BY DEF NewExamples
<1>1. o \in DOMAIN outcomes /\ HasSnapshot(latest[w][outcomes[o].user], outcomes[o].user)
    BY DEF Unlabelled, Joined
<1>2. o \in Nat /\ outcomes[o] \in Outcome
    BY <1>1, OutcomesShape
<1>3. latest[w][outcomes[o].user] \in Run
    BY <1>1, FiledShape DEF HasSnapshot, Filings
<1>4. ArmOf[outcomes[o].exp][outcomes[o].user] \in Arm
    BY <1>2, FeedbackAssumption DEF Outcome
<1> QED
    BY <1>2, <1>3, <1>4 DEF Example, Label, Outcome

LEMMA StoreStep ==
    ASSUME TypeOK, [Next]_vars, \A w \in Replica : joined[w] \subseteq Joined
    PROVE  StoreTyped'
<1> USE DEF StoreTyped
<1>0. StoreTyped
    BY DEF TypeOK
<1>1. ASSUME NEW w \in Replica, NEW r \in Run, NEW U \in SUBSET User, Start(w, r, U)
      PROVE  StoreTyped'
    <2>1. executions' \in 0..MaxExecutions
        BY <1>0, <1>1, FeedbackAssumption DEF Start
    <2> QED
        BY <1>0, <1>1, <2>1 DEF Start, loopVars
<1>2. ASSUME NEW w \in Replica,
             \/ ReadOutcomes(w) \/ ReadLatest(w) \/ ReadLabels(w) \/ ReadContext(w) \/ Fail(w)
      PROVE  StoreTyped'
    BY <1>0, <1>2 DEF ReadOutcomes, ReadLatest, ReadLabels, ReadContext, Fail, loopVars
<1>3. ASSUME NEW w \in Replica, SaveLabels(w) PROVE StoreTyped'
    <2>1. labels' \subseteq Label
        BY <1>0, <1>3, NewTyped DEF SaveLabels, Insert
    <2> QED
        BY <1>0, <1>3, <2>1 DEF SaveLabels
<1>4. ASSUME NEW w \in Replica, LookUp(w) PROVE StoreTyped'
    <2>1. begun' \in 0..MaxExecutions
        BY <1>0, <1>4, FeedbackAssumption DEF LookUp
    <2> QED
        BY <1>0, <1>4, <2>1 DEF LookUp
<1>5. ASSUME NEW w \in Replica, Create(w) PROVE StoreTyped'
    <2>1. exp[w] \in Experiment
        BY <1>5, FeedbackAssumption DEF Create, TypeOK, MemoryTyped, Experiment
    <2> QED
        BY <1>0, <1>5, <2>1 DEF Create
<1>6. ASSUME NEW w \in Replica, SaveArms(w) PROVE StoreTyped'
    <2>1. exp[w] \in Experiment /\ users[w] \subseteq User
        BY <1>6, FeedbackAssumption DEF SaveArms, TypeOK, MemoryTyped, Experiment
    <2> QED
        BY <1>0, <1>6, <2>1 DEF SaveArms
<1>7. ASSUME NEW w \in Replica, FileSnapshots(w) PROVE StoreTyped'
    <2>1. run[w] \in Run /\ users[w] \subseteq User
        BY <1>7 DEF FileSnapshots, TypeOK, MemoryTyped
    <2>2. filed' \in Seq([run : Run, users : SUBSET User])
        BY <1>0, <1>7, <2>1, AppendShape DEF FileSnapshots
    <2> QED
        BY <1>0, <1>7, <2>2 DEF FileSnapshots
<1>8. ASSUME NEW w \in Replica, Finish(w) PROVE StoreTyped'
    <2>1. run[w] \in Run
        BY <1>8 DEF Finish, TypeOK, MemoryTyped
    <2> QED
        BY <1>0, <1>8, <2>1 DEF Finish
<1>9. ASSUME NEW e \in experiments, NEW u \in User, NEW k \in BOOLEAN, NEW p \in Report,
             PostOutcome(e, u, k, p)
      PROVE  StoreTyped'
    <2>1. outcomes' \in Seq(Outcome)
        BY <1>0, <1>9, AppendShape DEF PostOutcome, Outcome
    <2> QED
        BY <1>0, <1>9, <2>1 DEF PostOutcome
<1>10. CASE UNCHANGED vars
    BY <1>0, <1>10 DEF vars, loopVars
<1> QED
    BY <1>1, <1>2, <1>3, <1>4, <1>5, <1>6, <1>7, <1>8, <1>9, <1>10 DEF Next

LEMMA MemoryStep ==
    ASSUME TypeOK, [Next]_vars
    PROVE  MemoryTyped'
<1> USE DEF MemoryTyped
<1>0. MemoryTyped
    BY DEF TypeOK
<1>1. ASSUME NEW w \in Replica, NEW r \in Run, NEW U \in SUBSET User, Start(w, r, U)
      PROVE  MemoryTyped'
    <2>1. Labelable \in SUBSET Nat /\ r # NoRun
        BY OutcomesShape, FeedbackAssumption DEF Labelable, Joined
    <2> QED
        BY <1>0, <1>1, <2>1 DEF Start, Goto, Step
<1>2. ASSUME NEW w \in Replica, ReadOutcomes(w) PROVE MemoryTyped'
    <2>1. Joined \in SUBSET Nat
        BY OutcomesShape DEF Joined
    <2> QED
        BY <1>0, <1>2, <2>1 DEF ReadOutcomes, Goto, Step
<1>3. ASSUME NEW w \in Replica, ReadLatest(w) PROVE MemoryTyped'
    BY <1>0, <1>3, LatestTyped DEF ReadLatest, Goto, Step
<1>4. ASSUME NEW w \in Replica, ReadLabels(w) PROVE MemoryTyped'
    <2>1. LabelledIn(labels) \in SUBSET Nat
        BY DEF LabelledIn, Label, TypeOK, StoreTyped
    <2> QED
        BY <1>0, <1>4, <2>1 DEF ReadLabels, Goto, Step
<1>5. ASSUME NEW w \in Replica, SaveLabels(w) PROVE MemoryTyped'
    <2>1. [u \in User |-> NoRun] \in [User -> Run \cup {NoRun}]
        OBVIOUS
    <2> QED
        BY <1>0, <1>5, <2>1 DEF SaveLabels, Goto, Step
<1>6. ASSUME NEW w \in Replica, ReadContext(w) PROVE MemoryTyped'
    BY <1>0, <1>6 DEF ReadContext, Goto, Step, TypeOK, StoreTyped
<1>7. ASSUME NEW w \in Replica, LookUp(w) PROVE MemoryTyped'
    <2>1. experiments # {} => SetMax(experiments) \in 1..MaxExecutions
        <3>1. MaxExecutions \in Nat /\ experiments \in SUBSET (1..MaxExecutions)
            BY FeedbackAssumption DEF TypeOK, StoreTyped, Experiment
        <3> QED
            BY <3>1, SetMaxIn
    <2>2. begun < MaxExecutions => begun + 1 \in 1..MaxExecutions
        BY FeedbackAssumption DEF TypeOK, StoreTyped
    <2>3. PICK n \in 1..MaxExecutions : exp' = [exp EXCEPT ![w] = n]
        BY <1>7, <2>1, <2>2 DEF LookUp
    <2>4. PICK s \in {"arms", "create"} : pc' = [pc EXCEPT ![w] = s]
        BY <1>7 DEF LookUp, Goto
    <2>5. exp' \in [Replica -> 0..MaxExecutions] /\ exp'[w] # 0
        BY <1>0, <2>3, FeedbackAssumption
    <2>6. pc' \in [Replica -> Step]
        BY <1>0, <2>4 DEF Step
    <2> QED
        BY <1>0, <1>7, <2>3, <2>4, <2>5, <2>6 DEF LookUp
<1>8. ASSUME NEW w \in Replica, Create(w) \/ SaveArms(w) \/ FileSnapshots(w) PROVE MemoryTyped'
    BY <1>0, <1>8 DEF Create, SaveArms, FileSnapshots, Goto, Step
<1>9. ASSUME NEW w \in Replica, Leave(w) PROVE MemoryTyped'
    <2>1. [u \in User |-> NoRun] \in [User -> Run \cup {NoRun}] /\ 0 \in 0..MaxExecutions
        BY FeedbackAssumption
    <2> QED
        BY <1>0, <1>9, <2>1 DEF Leave, Goto, Step
<1>10. ASSUME UNCHANGED localVars PROVE MemoryTyped'
    BY <1>0, <1>10 DEF localVars
<1>11. ASSUME NEW w \in Replica, Finish(w) \/ Fail(w) PROVE MemoryTyped'
    BY <1>9, <1>11 DEF Finish, Fail
<1>12. ASSUME NEW e \in experiments, NEW u \in User, NEW k \in BOOLEAN, NEW p \in Report,
              PostOutcome(e, u, k, p)
       PROVE  MemoryTyped'
    BY <1>10, <1>12 DEF PostOutcome
<1>13. CASE UNCHANGED vars
    BY <1>10, <1>13 DEF vars
<1> QED
    BY <1>1, <1>2, <1>3, <1>4, <1>5, <1>6, <1>7, <1>8, <1>11, <1>12, <1>13 DEF Next

-----------------------------------------------------------------------------
(* The database only grows.                                                *)

LEMMA GrowsStep ==
    ASSUME TypeOK, [Next]_vars
    PROVE  Grows
<1> USE DEF Grows
<1>1. ASSUME UNCHANGED loopVars PROVE Grows
    BY <1>1 DEF loopVars
<1>2. ASSUME NEW w \in Replica,
             \/ \E r \in Run, U \in SUBSET User : Start(w, r, U)
             \/ ReadOutcomes(w) \/ ReadLatest(w) \/ ReadLabels(w) \/ ReadContext(w) \/ Fail(w)
      PROVE  Grows
    BY <1>1, <1>2 DEF Start, ReadOutcomes, ReadLatest, ReadLabels, ReadContext, Fail
<1>3. ASSUME NEW w \in Replica,
             SaveLabels(w) \/ LookUp(w) \/ Create(w) \/ SaveArms(w) \/ Finish(w)
      PROVE  Grows
    BY <1>3 DEF SaveLabels, LookUp, Create, SaveArms, Finish, Insert
<1>4. ASSUME NEW w \in Replica, FileSnapshots(w) PROVE Grows
    <2>1. run[w] \in Run /\ users[w] \in SUBSET User /\ filed \in Seq([run : Run, users : SUBSET User])
        BY <1>4 DEF FileSnapshots, TypeOK, MemoryTyped, StoreTyped
    <2>2. DOMAIN filed \subseteq DOMAIN filed' /\ \A i \in DOMAIN filed : filed'[i] = filed[i]
        BY <1>4, <2>1, AppendShape DEF FileSnapshots
    <2> QED
        BY <1>4, <2>2 DEF FileSnapshots
<1>5. ASSUME NEW e \in experiments, NEW u \in User, NEW k \in BOOLEAN, NEW p \in Report,
             PostOutcome(e, u, k, p)
      PROVE  Grows
    <2>1. outcomes \in Seq(Outcome) /\ e \in Experiment
        BY DEF TypeOK, StoreTyped
    <2>2. DOMAIN outcomes \subseteq DOMAIN outcomes'
          /\ \A o \in DOMAIN outcomes : outcomes'[o] = outcomes[o]
        BY <1>5, <2>1, AppendShape DEF PostOutcome, Outcome
    <2> QED
        BY <1>5, <2>2 DEF PostOutcome
<1>6. CASE UNCHANGED vars
    BY <1>1, <1>6 DEF vars
<1> QED
    BY <1>2, <1>3, <1>4, <1>5, <1>6 DEF Next

LEMMA SnapshotStays ==
    ASSUME Grows, NEW r, NEW u, HasSnapshot(r, u)
    PROVE  HasSnapshot(r, u)'
    BY DEF Grows, HasSnapshot, Filings

LEMMA JoinedStays ==
    ASSUME Grows
    PROVE  Joined \subseteq Joined' /\ Labelable \subseteq Labelable'
<1>1. Joined \subseteq Joined'
    BY DEF Grows, Joined
<1>2. \A o \in Joined : /\ outcomes'[o] = outcomes[o]
                         /\ Filings(outcomes[o].user) \subseteq Filings(outcomes[o].user)'
    BY DEF Grows, Joined, Filings
<1>3. \A o \in Joined : Filings(outcomes[o].user) # {} => Filings(outcomes[o].user)' # {}
    BY <1>2
<1> QED
    BY <1>1, <1>2, <1>3 DEF Labelable

LEMMA LabelledStays ==
    ASSUME Grows
    PROVE  LabelledIn(labels) \subseteq LabelledIn(labels)'
    BY DEF Grows, LabelledIn

-----------------------------------------------------------------------------
(* What an execution read holds until it writes.                           *)

\* Steps of others and of the client.
LEMMA HoldsStays ==
    ASSUME Grows, NEW w \in Replica, Holds(w),
           pc'[w] = pc[w], joined'[w] = joined[w], latest'[w] = latest[w], known'[w] = known[w],
           context'[w] = context[w], due'[w] = due[w]
    PROVE  Holds(w)'
<1>1. joined'[w] \subseteq Joined'
    BY JoinedStays DEF Holds
<1>2. pc'[w] \in {"outcomes", "latest", "labels", "save"} => due'[w] \subseteq Labelable'
    BY JoinedStays DEF Holds
<1>3. pc[w] \in {"labels", "save"} =>
         \A o \in due[w] : outcomes'[o].user = outcomes[o].user
                           /\ HasSnapshot(latest[w][outcomes[o].user], outcomes[o].user)'
    BY SnapshotStays DEF Holds, Labelable, Joined, Grows
<1>4. pc'[w] = "save" => known'[w] \subseteq LabelledIn(labels)'
    BY LabelledStays DEF Holds
<1>5. pc'[w] = "context" => due'[w] \subseteq LabelledIn(labels)'
    BY LabelledStays DEF Holds
<1>6. pc'[w] = "lookup" => due'[w] \subseteq LabelledIn(context'[w])
    BY DEF Holds
<1> QED
    BY <1>1, <1>2, <1>3, <1>4, <1>5, <1>6 DEF Holds

\* The replica's own steps.
LEMMA HoldsOwn ==
    ASSUME TypeOK, NEW w \in Replica, Holds(w), Grows,
           \/ \E r \in Run, U \in SUBSET User : Start(w, r, U)
           \/ ReadOutcomes(w) \/ ReadLatest(w) \/ ReadLabels(w) \/ SaveLabels(w)
           \/ ReadContext(w) \/ LookUp(w) \/ Create(w) \/ SaveArms(w)
           \/ FileSnapshots(w) \/ Finish(w) \/ Fail(w)
    PROVE  Holds(w)'
<1>0. MemoryTyped
    BY DEF TypeOK
<1> USE DEF MemoryTyped
<1>1. ASSUME NEW r \in Run, NEW U \in SUBSET User, Start(w, r, U) PROVE Holds(w)'
    <2>1. pc'[w] = "outcomes" /\ due'[w] = Labelable /\ joined'[w] = joined[w]
        BY <1>0, <1>1 DEF Start, Goto
    <2> QED
        BY <2>1, JoinedStays DEF Holds
<1>2. ASSUME ReadOutcomes(w) PROVE Holds(w)'
    <2>1. /\ pc[w] = "outcomes" /\ pc'[w] = "latest" /\ due'[w] = due[w]
          /\ joined'[w] = Joined
        BY <1>0, <1>2 DEF ReadOutcomes, Goto
    <2>2. Labelable \subseteq Joined
        BY DEF Labelable
    <2> QED
        BY <2>1, <2>2, JoinedStays DEF Holds
<1>3. ASSUME ReadLatest(w) PROVE Holds(w)'
    <2>1. /\ pc[w] = "latest" /\ pc'[w] = "labels" /\ due'[w] = due[w]
          /\ joined'[w] = joined[w] /\ latest'[w] = Latest
        BY <1>0, <1>3 DEF ReadLatest, Goto
    <2>2. ASSUME NEW o \in due[w]
          PROVE  HasSnapshot(latest[w][outcomes[o].user], outcomes[o].user)'
        <3>1. o \in DOMAIN outcomes /\ Filings(outcomes[o].user) # {}
            BY <2>1 DEF Holds, Labelable, Joined
        <3>2. outcomes[o].user \in User /\ outcomes'[o] = outcomes[o]
            BY <3>1, OutcomesShape DEF Outcome, Grows
        <3>3. HasSnapshot(Latest[outcomes[o].user], outcomes[o].user)
            BY <3>1, <3>2, LatestFiled
        <3>4. UNCHANGED <<filed, outcomes>>
            BY <1>3 DEF ReadLatest, loopVars
        <3> QED
            BY <2>1, <3>3, <3>4 DEF HasSnapshot, Filings
    <2>3. due'[w] \subseteq Labelable' /\ due'[w] \subseteq joined'[w] /\ joined'[w] \subseteq Joined'
        BY <2>1, JoinedStays DEF Holds
    <2> QED
        BY <2>1, <2>2, <2>3 DEF Holds
<1>4. ASSUME ReadLabels(w) PROVE Holds(w)'
    <2>1. /\ pc[w] = "labels" /\ pc'[w] = "save" /\ due'[w] = due[w]
          /\ joined'[w] = joined[w] /\ latest'[w] = latest[w]
          /\ known'[w] = LabelledIn(labels)
          /\ UNCHANGED loopVars
        BY <1>0, <1>4 DEF ReadLabels, Goto
    <2>2. UNCHANGED <<assigned, outcomes, filed, labels>>
        BY <2>1 DEF loopVars
    <2>3. Joined' = Joined /\ Labelable' = Labelable /\ LabelledIn(labels)' = LabelledIn(labels)
        BY <2>2 DEF Joined, Labelable, LabelledIn, Filings
    <2>4. \A o \in due[w] : HasSnapshot(latest[w][outcomes[o].user], outcomes[o].user)'
        BY <2>1, <2>2 DEF Holds, HasSnapshot, Filings
    <2> QED
        BY <2>1, <2>2, <2>3, <2>4 DEF Holds
<1>5. ASSUME SaveLabels(w) PROVE Holds(w)'
    <2>1. /\ pc[w] = "save" /\ pc'[w] = "context" /\ due'[w] = due[w] /\ joined'[w] = {}
          /\ labels' = Insert(NewExamples(w))
        BY <1>0, <1>5 DEF SaveLabels, Goto
    <2>2. ASSUME NEW o \in due[w] PROVE o \in LabelledIn(labels')
        <3>1. CASE o \in known[w]
            BY <2>1, <3>1 DEF Holds, LabelledIn, Insert
        <3>2. CASE o \notin known[w]
            <4>1. o \in Unlabelled(w)
                BY <2>1, <3>2 DEF Holds, Unlabelled
            <4>2. Example(w, o) \in NewExamples(w) /\ Example(w, o).outcome = o
                BY <4>1 DEF NewExamples, Example
            <4> QED
                BY <2>1, <4>2 DEF Insert, LabelledIn
        <3> QED
            BY <3>1, <3>2
    <2> QED
        BY <2>1, <2>2 DEF Holds, LabelledIn
<1>6. ASSUME ReadContext(w) PROVE Holds(w)'
    <2>1. /\ pc[w] = "context" /\ pc'[w] = "lookup" /\ due'[w] = due[w]
          /\ joined'[w] = joined[w] /\ context'[w] = labels
        BY <1>0, <1>6 DEF ReadContext, Goto
    <2> QED
        BY <2>1, JoinedStays DEF Holds
<1>7. ASSUME LookUp(w) \/ Create(w) \/ SaveArms(w) \/ FileSnapshots(w) PROVE Holds(w)'
    <2>1. pc'[w] \in {"arms", "create", "file", "finish"} /\ joined'[w] = joined[w]
        BY <1>0, <1>7 DEF LookUp, Create, SaveArms, FileSnapshots, Goto
    <2> QED
        BY <2>1, JoinedStays DEF Holds
<1>8. ASSUME Finish(w) \/ Fail(w) PROVE Holds(w)'
    <2>1. pc'[w] = "idle" /\ joined'[w] = {}
        BY <1>0, <1>8 DEF Finish, Fail, Leave, Goto
    <2> QED
        BY <2>1 DEF Holds
<1> QED
    BY <1>1, <1>2, <1>3, <1>4, <1>5, <1>6, <1>7, <1>8

LEMMA ReadsStep ==
    ASSUME TypeOK, ReadsHold, Grows, [Next]_vars
    PROVE  ReadsHold'
<1> SUFFICES ASSUME NEW w \in Replica PROVE Holds(w)'
    BY DEF ReadsHold
<1>0. Holds(w) /\ MemoryTyped
    BY DEF ReadsHold, TypeOK
<1>1. ASSUME UNCHANGED localVars PROVE Holds(w)'
    BY <1>0, <1>1, HoldsStays DEF localVars
<1>2. ASSUME NEW v \in Replica, v # w,
             \/ \E r \in Run, U \in SUBSET User : Start(v, r, U)
             \/ ReadOutcomes(v) \/ ReadLatest(v) \/ ReadLabels(v) \/ SaveLabels(v)
             \/ ReadContext(v) \/ LookUp(v) \/ Create(v) \/ SaveArms(v)
             \/ FileSnapshots(v) \/ Finish(v) \/ Fail(v)
      PROVE  Holds(w)'
    <2>1. /\ pc'[w] = pc[w] /\ joined'[w] = joined[w] /\ latest'[w] = latest[w]
          /\ known'[w] = known[w] /\ context'[w] = context[w] /\ due'[w] = due[w]
        BY <1>0, <1>2
           DEF MemoryTyped, Start, ReadOutcomes, ReadLatest, ReadLabels, SaveLabels, ReadContext,
               LookUp, Create, SaveArms, FileSnapshots, Finish, Fail, Leave, Goto
    <2> QED
        BY <1>0, <2>1, HoldsStays
<1>3. ASSUME NEW e \in experiments, NEW u \in User, NEW k \in BOOLEAN, NEW p \in Report,
             PostOutcome(e, u, k, p)
      PROVE  Holds(w)'
    BY <1>1, <1>3 DEF PostOutcome
<1>4. CASE UNCHANGED vars
    BY <1>1, <1>4 DEF vars
<1> QED
    BY <1>0, <1>2, <1>3, <1>4, HoldsOwn DEF Next

-----------------------------------------------------------------------------
(* The examples.                                                           *)

\* Examples change in one step only.
LEMMA LabelsFrame ==
    ASSUME [Next]_vars
    PROVE  labels' = labels \/ \E w \in Replica : SaveLabels(w)
    BY DEF Next, vars, loopVars, Start, ReadOutcomes, ReadLatest, ReadLabels, ReadContext, LookUp,
           Create, SaveArms, FileSnapshots, Finish, Fail, PostOutcome

LEMMA OneLabelStep ==
    ASSUME OneLabelEach, [Next]_vars
    PROVE  OneLabelEach'
<1>1. ASSUME NEW w \in Replica, SaveLabels(w) PROVE OneLabelEach'
    <2>1. labels' = Insert(NewExamples(w))
        BY <1>1 DEF SaveLabels
    <2>2. \A l, m \in NewExamples(w) : l.outcome = m.outcome => l = m
        BY DEF NewExamples, Example
    <2> QED
        BY <2>1, <2>2 DEF OneLabelEach, Insert, LabelledIn
<1>2. labels' = labels => OneLabelEach'
    BY DEF OneLabelEach
<1> QED
    BY <1>1, <1>2, LabelsFrame

\* What makes one example true.
Truthful(l) ==
    /\ l.outcome \in DOMAIN outcomes
    /\ l.user = outcomes[l.outcome].user /\ l.kept = outcomes[l.outcome].kept
    /\ <<outcomes[l.outcome].exp, outcomes[l.outcome].user>> \in assigned
    /\ l.arm = ArmOf[outcomes[l.outcome].exp][outcomes[l.outcome].user]
    /\ HasSnapshot(l.run, l.user)

LEMMA TruthfulStays ==
    ASSUME Grows, NEW l, Truthful(l)
    PROVE  Truthful(l)'
<1>1. HasSnapshot(l.run, l.user)'
    BY SnapshotStays DEF Truthful
<1>2. l.outcome \in DOMAIN outcomes' /\ outcomes'[l.outcome] = outcomes[l.outcome]
    BY DEF Truthful, Grows
<1>3. assigned \subseteq assigned'
    BY DEF Grows
<1> QED
    BY <1>1, <1>2, <1>3 DEF Truthful

LEMMA TruthfulStep ==
    ASSUME LabelsTruthful, ReadsHold, Grows, [Next]_vars
    PROVE  LabelsTruthful'
<1>0. \A l \in labels : Truthful(l)
    BY DEF LabelsTruthful, Truthful
<1>1. ASSUME NEW w \in Replica, SaveLabels(w) PROVE \A l \in labels' : Truthful(l)
    <2>1. labels' \subseteq labels \cup NewExamples(w)
        BY <1>1 DEF SaveLabels, Insert
    <2>2. ASSUME NEW o \in Unlabelled(w) PROVE Truthful(Example(w, o))
        <3>1. /\ o \in DOMAIN outcomes
              /\ <<outcomes[o].exp, outcomes[o].user>> \in assigned
              /\ HasSnapshot(latest[w][outcomes[o].user], outcomes[o].user)
            BY DEF Unlabelled, ReadsHold, Holds, Joined
        <3> QED
            BY <3>1 DEF Truthful, Example
    <2> QED
        BY <1>0, <2>1, <2>2 DEF NewExamples
<1>2. \A l \in labels' : Truthful(l)
    <2>1. labels' = labels \/ \A l \in labels' : Truthful(l)
        BY <1>1, LabelsFrame
    <2> QED
        BY <1>0, <2>1
<1>3. \A l \in labels' : Truthful(l)'
    BY <1>2, TruthfulStays
<1> QED
    BY <1>3 DEF LabelsTruthful, Truthful

-----------------------------------------------------------------------------

LEMMA LoopInit == Init => LoopInv
<1>1. Init => OneLabelEach /\ LabelsTruthful
    BY DEF Init, OneLabelEach, LabelsTruthful
<1>2. Init => ReadsHold
    BY DEF Init, ReadsHold, Holds
<1> QED
    BY <1>1, <1>2, TypeInit DEF LoopInv

LEMMA LoopStep == LoopInv /\ [Next]_vars => LoopInv' /\ Grows
<1> SUFFICES ASSUME LoopInv, [Next]_vars PROVE LoopInv' /\ Grows
    OBVIOUS
<1>1. TypeOK /\ OneLabelEach /\ LabelsTruthful /\ ReadsHold
    BY DEF LoopInv
<1>2. Grows
    BY <1>1, GrowsStep
<1>3. \A w \in Replica : joined[w] \subseteq Joined
    BY <1>1 DEF ReadsHold, Holds
<1>4. TypeOK'
    BY <1>1, <1>3, StoreStep, MemoryStep DEF TypeOK
<1> QED
    BY <1>1, <1>2, <1>4, ReadsStep, OneLabelStep, TruthfulStep DEF LoopInv

\* The tables and the executions' memory keep to their types, however executions overlap.
THEOREM TypeCorrect == Spec => []TypeOK
<1>1. LoopInv => TypeOK
    BY DEF LoopInv
<1> QED
    BY LoopInit, LoopStep, <1>1, PTL DEF Spec

\* An outcome becomes one example at most, whoever labels it and how often it is tried.
THEOREM LabelledOnce == Spec => []OneLabelEach
<1>1. LoopInv => OneLabelEach
    BY DEF LoopInv
<1> QED
    BY LoopInit, LoopStep, <1>1, PTL DEF Spec

\* Every example agrees with its outcome, the recorded arm and a filed snapshot.
THEOREM LabelsAgree == Spec => []LabelsTruthful
<1>1. LoopInv => LabelsTruthful
    BY DEF LoopInv
<1> QED
    BY LoopInit, LoopStep, <1>1, PTL DEF Spec

\* The models of an execution read an example of every outcome that could be labelled
\* when it began.
THEOREM NoneForgotten == Spec => []ContextComplete
<1>1. LoopInv => ContextComplete
    BY DEF LoopInv, ReadsHold, Holds, ContextComplete
<1> QED
    BY LoopInit, LoopStep, <1>1, PTL DEF Spec

\* Examples are never changed or removed.
THEOREM ExamplesStay == Spec => LabelsKept
<1>1. LoopInv /\ [Next]_vars => [labels \subseteq labels']_vars
    BY LoopStep DEF Grows
<1> QED
    BY LoopInit, LoopStep, <1>1, PTL DEF Spec, LabelsKept

-----------------------------------------------------------------------------
(* The race for the experiment.  Whoever is about to create one looked     *)
(* before the first was committed, and each of them commits one.           *)

Creating == {w \in Replica : pc[w] = "create"}

RaceInv ==
    /\ Cardinality(experiments) + Cardinality(Creating) <= Cardinality(Replica)
    /\ \A o \in DOMAIN outcomes : outcomes[o].exp \in experiments
    /\ \A a \in assigned : a[1] \in experiments
    /\ \A w \in Replica : pc[w] = "arms" => exp[w] \in experiments

LEMMA CountsTyped ==
    ASSUME TypeOK
    PROVE  /\ IsFiniteSet(experiments) /\ Cardinality(experiments) \in Nat
           /\ IsFiniteSet(Creating) /\ Cardinality(Creating) \in Nat
           /\ Cardinality(Creating) <= Cardinality(Replica) /\ Cardinality(Replica) \in Nat
<1>1. IsFiniteSet(1..MaxExecutions)
    BY FeedbackAssumption, FS_Interval
<1>2. experiments \in SUBSET (1..MaxExecutions)
    BY DEF TypeOK, StoreTyped, Experiment
<1>3. IsFiniteSet(experiments)
    BY <1>1, <1>2, FS_Subset
<1>4. Creating \in SUBSET Replica
    BY DEF Creating
<1>5. IsFiniteSet(Creating) /\ Cardinality(Creating) <= Cardinality(Replica)
    BY <1>4, FeedbackAssumption, FS_Subset
<1> QED
    BY <1>3, <1>5, FeedbackAssumption, FS_CardinalityType

LEMMA RaceInit == Init => RaceInv
<1> SUFFICES ASSUME Init PROVE RaceInv
    OBVIOUS
<1>1. experiments = {} /\ Creating = {}
    BY DEF Init, Creating
<1>2. Cardinality({}) = 0 /\ Cardinality(Replica) \in Nat
    BY FeedbackAssumption, FS_EmptySet, FS_CardinalityType
<1> QED
    BY <1>1, <1>2 DEF Init, RaceInv

\* A step that creates nothing and leaves nobody else about to.
LEMMA CountKept ==
    ASSUME TypeOK, RaceInv, experiments' = experiments, Creating' \subseteq Creating
    PROVE  Cardinality(experiments') + Cardinality(Creating') <= Cardinality(Replica)
<1>1. Cardinality(Creating') <= Cardinality(Creating) /\ Cardinality(Creating') \in Nat
    BY CountsTyped, FS_Subset, FS_CardinalityType
<1> QED
    BY <1>1, CountsTyped DEF RaceInv

LEMMA RaceStep ==
    ASSUME TypeOK, TypeOK', RaceInv, [Next]_vars
    PROVE  RaceInv'
<1>0. MemoryTyped /\ StoreTyped
    BY DEF TypeOK
<1>1. ASSUME NEW w \in Replica, NEW s \in Step \ {"create", "arms"},
             pc' = [pc EXCEPT ![w] = s], \A v \in Replica \ {w} : exp'[v] = exp[v],
             UNCHANGED <<experiments, assigned, outcomes>>
      PROVE  RaceInv'
    <2>1. Creating' \subseteq Creating
        BY <1>0, <1>1 DEF Creating, MemoryTyped
    <2>2. \A v \in Replica : pc'[v] = "arms" => exp'[v] \in experiments'
        BY <1>0, <1>1 DEF RaceInv, MemoryTyped
    <2> QED
        BY <1>1, <2>1, <2>2, CountKept DEF RaceInv
<1>2. ASSUME NEW w \in Replica,
             \/ \E r \in Run, U \in SUBSET User : Start(w, r, U)
             \/ ReadOutcomes(w) \/ ReadLatest(w) \/ ReadLabels(w) \/ SaveLabels(w)
             \/ ReadContext(w) \/ FileSnapshots(w)
      PROVE  RaceInv'
    <2>1. /\ \E s \in Step \ {"create", "arms"} : pc' = [pc EXCEPT ![w] = s]
          /\ exp' = exp /\ UNCHANGED <<experiments, assigned, outcomes>>
        BY <1>2 DEF Start, ReadOutcomes, ReadLatest, ReadLabels, SaveLabels, ReadContext,
                    FileSnapshots, Goto, Step, loopVars
    <2> QED
        BY <1>1, <2>1
<1>3. ASSUME NEW w \in Replica, Finish(w) \/ Fail(w) PROVE RaceInv'
    <2>1. /\ pc' = [pc EXCEPT ![w] = "idle"] /\ exp' = [exp EXCEPT ![w] = 0]
          /\ UNCHANGED <<experiments, assigned, outcomes>>
        BY <1>3 DEF Finish, Fail, Leave, Goto, loopVars
    <2>2. \A v \in Replica \ {w} : exp'[v] = exp[v]
        BY <1>0, <2>1 DEF MemoryTyped
    <2> QED
        BY <1>1, <2>1, <2>2 DEF Step
<1>4. ASSUME NEW w \in Replica, LookUp(w), experiments # {} PROVE RaceInv'
    <2>1. /\ pc' = [pc EXCEPT ![w] = "arms"] /\ exp' = [exp EXCEPT ![w] = SetMax(experiments)]
          /\ UNCHANGED <<experiments, assigned, outcomes>>
        BY <1>4 DEF LookUp, Goto
    <2>2. SetMax(experiments) \in experiments
        BY <1>0, <1>4, FeedbackAssumption, SetMaxIn DEF StoreTyped, Experiment
    <2>3. Creating' \subseteq Creating
        BY <1>0, <2>1 DEF Creating, MemoryTyped
    <2>4. \A v \in Replica : pc'[v] = "arms" => exp'[v] \in experiments'
        BY <1>0, <2>1, <2>2 DEF RaceInv, MemoryTyped
    <2> QED
        BY <2>1, <2>3, <2>4, CountKept DEF RaceInv
<1>5. ASSUME NEW w \in Replica, LookUp(w), experiments = {} PROVE RaceInv'
    <2>1. /\ pc' = [pc EXCEPT ![w] = "create"]
          /\ \A v \in Replica \ {w} : exp'[v] = exp[v]
          /\ UNCHANGED <<experiments, assigned, outcomes>>
        BY <1>0, <1>5 DEF LookUp, Goto, MemoryTyped
    <2>2. Cardinality(Creating') <= Cardinality(Replica) /\ Cardinality(Creating') \in Nat
        <3>1. Creating' \in SUBSET Replica
            BY DEF Creating
        <3> QED
            BY <3>1, FeedbackAssumption, FS_Subset, FS_CardinalityType
    <2>3. Cardinality(experiments') = 0 /\ Cardinality(Replica) \in Nat
        BY <1>5, <2>1, FeedbackAssumption, FS_EmptySet, FS_CardinalityType
    <2>4. Cardinality(experiments') + Cardinality(Creating') <= Cardinality(Replica)
        BY <2>2, <2>3
    <2>5. \A v \in Replica : pc'[v] = "arms" => exp'[v] \in experiments'
        BY <1>0, <2>1 DEF RaceInv, MemoryTyped
    <2> QED
        BY <2>1, <2>4, <2>5 DEF RaceInv
<1>6. ASSUME NEW w \in Replica, Create(w) PROVE RaceInv'
    <2>1. /\ pc[w] = "create" /\ pc' = [pc EXCEPT ![w] = "arms"] /\ exp' = exp
          /\ experiments' = experiments \cup {exp[w]}
          /\ UNCHANGED <<assigned, outcomes>>
        BY <1>6 DEF Create, Goto
    <2>2. Creating' = Creating \ {w} /\ w \in Creating
        BY <1>0, <2>1 DEF Creating, MemoryTyped
    <2>3. Cardinality(Creating') = Cardinality(Creating) - 1
        BY <2>2, CountsTyped, FS_RemoveElement
    <2>4. /\ Cardinality(experiments') <= Cardinality(experiments) + 1
          /\ Cardinality(experiments') \in Nat
        <3>1. Cardinality(experiments \cup {exp[w]}) =
                IF exp[w] \in experiments THEN Cardinality(experiments)
                                          ELSE Cardinality(experiments) + 1
            BY CountsTyped, FS_AddElement
        <3> QED
            BY <2>1, <3>1, CountsTyped
    <2>5. Cardinality(experiments') + Cardinality(Creating') <= Cardinality(Replica)
        BY <2>3, <2>4, CountsTyped DEF RaceInv
    <2>6. \A v \in Replica : pc'[v] = "arms" => exp'[v] \in experiments'
        BY <1>0, <2>1 DEF RaceInv, MemoryTyped
    <2> QED
        BY <2>1, <2>5, <2>6 DEF RaceInv
<1>7. ASSUME NEW w \in Replica, SaveArms(w) PROVE RaceInv'
    <2>1. /\ pc[w] = "arms" /\ pc' = [pc EXCEPT ![w] = "file"] /\ exp' = exp
          /\ assigned' = assigned \cup ({exp[w]} \X users[w])
          /\ UNCHANGED <<experiments, outcomes>>
        BY <1>7 DEF SaveArms, Goto
    <2>2. exp[w] \in experiments
        BY <2>1 DEF RaceInv
    <2>3. \A a \in assigned' : a[1] \in experiments'
        BY <2>1, <2>2 DEF RaceInv
    <2>4. Creating' \subseteq Creating
        BY <1>0, <2>1 DEF Creating, MemoryTyped
    <2>5. \A v \in Replica : pc'[v] = "arms" => exp'[v] \in experiments'
        BY <1>0, <2>1 DEF RaceInv, MemoryTyped
    <2> QED
        BY <2>1, <2>3, <2>4, <2>5, CountKept DEF RaceInv
<1>8. ASSUME NEW e \in experiments, NEW u \in User, NEW k \in BOOLEAN, NEW p \in Report,
             PostOutcome(e, u, k, p)
      PROVE  RaceInv'
    <2>1. /\ UNCHANGED <<experiments, assigned, pc, exp>>
          /\ outcomes' = Append(outcomes, [exp |-> e, user |-> u, kept |-> k, report |-> p,
                                           seen |-> {r \in Run : HasSnapshot(r, u)}])
        BY <1>8 DEF PostOutcome, localVars
    <2>2. \A o \in DOMAIN outcomes' : outcomes'[o].exp \in experiments'
        BY <1>0, <2>1 DEF RaceInv, StoreTyped
    <2>3. Creating' \subseteq Creating
        BY <2>1 DEF Creating
    <2> QED
        BY <2>1, <2>2, <2>3, CountKept DEF RaceInv
<1>9. CASE UNCHANGED vars
    <2>1. UNCHANGED <<experiments, assigned, outcomes, pc, exp>>
        BY <1>9 DEF vars, loopVars, localVars
    <2>2. Creating' \subseteq Creating
        BY <2>1 DEF Creating
    <2> QED
        BY <2>1, <2>2, CountKept DEF RaceInv
<1> QED
    BY <1>2, <1>3, <1>4, <1>5, <1>6, <1>7, <1>8, <1>9 DEF Next

\* Replicas that race for the experiment create one each at most, and every outcome and
\* assignment belongs to a committed one.
THEOREM RacesBounded == Spec => []ExperimentsBounded
<1>1. LoopInv => TypeOK
    BY DEF LoopInv
<1>2. TypeOK /\ RaceInv => ExperimentsBounded
    BY CountsTyped DEF RaceInv, ExperimentsBounded
<1>3. TypeOK /\ TypeOK' /\ RaceInv /\ [Next]_vars => RaceInv'
    BY RaceStep
<1> QED
    BY LoopInit, LoopStep, RaceInit, <1>1, <1>2, <1>3, PTL DEF Spec
=============================================================================
