--------------------------- MODULE DecisionProofs ---------------------------
(***************************************************************************)
(* Proofs about Decision: what the picks of one execution are, and what    *)
(* remains of them in the database when runs die and are executed again.   *)
(***************************************************************************)
EXTENDS Decision, SequenceTheorems, TLAPS

-----------------------------------------------------------------------------
(* Candidates and picks.                                                   *)

LEMMA ScoredAreUsers ==
    ASSUME NEW s \in Facts
    PROVE  Scored(s) \subseteq s.users /\ s.users \subseteq User /\ s.circles \subseteq Circle
BY DEF Facts, Scored

\* A candidate is an individual offer, or a group offer to a member of a circle.
LEMMA CandidateKinds ==
    ASSUME NEW s \in Facts, NEW c \in Candidates(s)
    PROVE  /\ c \in Candidate
           /\ c.user \in Scored(s)
           /\ c.unit \in User => c.unit = c.user /\ c.offer \in Offer
           /\ c.unit \in Circle => /\ c \in Grouped(s)
                                   /\ c.unit \in BigCircles(s)
                                   /\ c.user \in Members[c.unit]
                                   /\ c.offer \in GroupOffer
           /\ c = [user |-> c.user, offer |-> c.offer, unit |-> c.unit]
<1>1. Scored(s) \subseteq User /\ s.circles \subseteq Circle
    BY ScoredAreUsers
<1>2. CASE c \in Individual(s)
    BY <1>1, <1>2, DecisionAssumption DEF Individual, Candidate, Code, Unit
<1>3. CASE c \in Grouped(s)
    BY <1>1, <1>3, DecisionAssumption DEF Grouped, BigCircles, Candidate, Code, Unit
<1>4. QED
    BY <1>2, <1>3 DEF Candidates

\* The policy denies no member of a ranked candidate's bundle.
LEMMA RankedAllowed ==
    ASSUME NEW s \in Facts, NEW c \in Ranked(s)
    PROVE  /\ c \in Candidates(s)
           /\ ~Denied(s, c)
           /\ \A m \in Bundle(s, c) : m \in Ranked(s) /\ ~Denied(s, m)
<1>1. c \in Candidates(s) /\ c \in Bundle(s, c)
    BY DEF Ranked, Bundle
<1>2. \A m \in Bundle(s, c) : ~Denied(s, m)
    BY <1>1 DEF Ranked, Exclusions
<1>3. \A m \in Bundle(s, c) : m \in Candidates(s) /\ Bundle(s, m) = Bundle(s, c)
    BY DEF Bundle
<1>4. \A m \in Bundle(s, c) : m \notin Exclusions(s)
    BY <1>2, <1>3 DEF Exclusions
<1>5. QED
    BY <1>1, <1>2, <1>3, <1>4 DEF Ranked

\* An engine pick is an item of a unit in ENGINE; its members are candidates that
\* the policy allows.
LEMMA EnginePick ==
    ASSUME NEW s \in Facts, NEW a \in Arms, NEW S \in Allocations(s, a),
           NEW p \in EnginePicks(s, a, S)
    PROVE  /\ p.arm = "ENGINE" /\ a[p.unit] = "ENGINE"
           /\ p.members = MembersOf(s, a, p)
           /\ \E e \in Engine(s, a) : e.unit = p.unit /\ e.offer = p.offer
           /\ [unit |-> p.unit, offer |-> p.offer] \in S
           /\ p = [arm |-> p.arm, unit |-> p.unit, offer |-> p.offer, members |-> p.members]
<1>1. PICK i \in S : p = [arm |-> "ENGINE", unit |-> i.unit, offer |-> i.offer,
                          members |-> MembersOf(s, a, i)]
    BY DEF EnginePicks
<1>2. PICK e \in Engine(s, a) : i = [unit |-> e.unit, offer |-> e.offer]
    BY DEF Allocations, Items
<1>3. a[e.unit] = "ENGINE"
    BY DEF Engine
<1>4. QED
    BY <1>1, <1>2, <1>3 DEF MembersOf

\* A naive pick is of one user in NAIVE, with an offer the hard rules allow.
LEMMA NaivePick ==
    ASSUME NEW s \in Facts, NEW a \in Arms, NEW p \in NaivePicks(s, a)
    PROVE  /\ p.arm = "NAIVE" /\ a[p.unit] = "NAIVE"
           /\ p.unit \in User /\ p.unit \in Scored(s) /\ p.members = {p.unit}
           /\ IsNaiveOffer(s, p.unit, p.offer)
           /\ p = [arm |-> p.arm, unit |-> p.unit, offer |-> p.offer, members |-> p.members]
<1>1. PICK c \in Individual(s) :
          /\ c.user \in NaiveUsers(s, a) /\ IsNaiveOffer(s, c.user, c.offer)
          /\ p = [arm |-> "NAIVE", unit |-> c.unit, offer |-> c.offer, members |-> {c.user}]
    BY DEF NaivePicks
<1>2. c.unit = c.user /\ c.user \in Scored(s)
    BY DEF Individual
<1>3. c.user \in User
    BY <1>2, ScoredAreUsers
<1>4. a[c.user] = "NAIVE"
    BY <1>1 DEF NaiveUsers
<1>5. QED
    BY <1>1, <1>2, <1>3, <1>4

LEMMA PicksTyped ==
    ASSUME NEW s \in Facts, NEW a \in Arms, NEW S \in Allocations(s, a)
    PROVE  Picks(s, a, S) \subseteq Pick /\ S \subseteq Item
<1>1. \A e \in Engine(s, a) : e \in Candidate
    BY CandidateKinds DEF Engine, Ranked
<1>2. S \subseteq Item
    BY <1>1 DEF Allocations, Items, Item, Candidate
<1>3. ASSUME NEW p \in EnginePicks(s, a, S) PROVE p \in Pick
    <2>1. [unit |-> p.unit, offer |-> p.offer] \in Item
        BY <1>2, EnginePick
    <2>2. p.unit \in Unit /\ p.offer \in Code
        BY <2>1 DEF Item
    <2>3. p.members = MembersOf(s, a, p)
        BY EnginePick
    <2>4. p.members \subseteq User
        BY <1>1, <2>3 DEF Candidate, MembersOf
    <2>5. /\ p.arm = "ENGINE"
          /\ p = [arm |-> p.arm, unit |-> p.unit, offer |-> p.offer, members |-> p.members]
        BY EnginePick
    <2>6. QED
        BY <2>2, <2>4, <2>5 DEF Pick, Arm
<1>4. ASSUME NEW p \in NaivePicks(s, a) PROVE p \in Pick
    <2>1. p.offer \in Offer
        BY NaivePick DEF IsNaiveOffer, NaiveAllowed
    <2>2. QED
        BY <2>1, NaivePick DEF Pick, Arm, Unit, Code
<1>5. QED
    BY <1>2, <1>3, <1>4 DEF Picks

\* Two picks of an execution are of different units.
LEMMA PicksDistinct ==
    ASSUME NEW s \in Facts, NEW a \in Arms, NEW S \in Allocations(s, a),
           NEW p \in Picks(s, a, S), NEW q \in Picks(s, a, S), p.unit = q.unit
    PROVE  p = q
<1>1. CASE p \in EnginePicks(s, a, S) /\ q \in EnginePicks(s, a, S)
    <2>1. [unit |-> p.unit, offer |-> p.offer] \in S /\ [unit |-> q.unit, offer |-> q.offer] \in S
        BY <1>1, EnginePick
    <2>2. \A i, j \in S : i.unit = j.unit => i = j
        BY DEF Allocations
    <2>3. [unit |-> p.unit, offer |-> p.offer] = [unit |-> q.unit, offer |-> q.offer]
        BY <2>1, <2>2
    <2>4. p.offer = q.offer
        BY <2>3
    <2>5. p.members = q.members /\ p.arm = q.arm
        <3>1. p.members = MembersOf(s, a, p)
            BY <1>1, EnginePick
        <3>2. q.members = MembersOf(s, a, q)
            BY <1>1, EnginePick
        <3>3. p.arm = "ENGINE" /\ q.arm = "ENGINE"
            BY <1>1, EnginePick
        <3>4. QED
            BY <2>4, <3>1, <3>2, <3>3 DEF MembersOf
    <2>6. p = [arm |-> p.arm, unit |-> p.unit, offer |-> p.offer, members |-> p.members]
        BY <1>1, EnginePick
    <2>7. q = [arm |-> q.arm, unit |-> q.unit, offer |-> q.offer, members |-> q.members]
        BY <1>1, EnginePick
    <2>8. QED
        BY <2>4, <2>5, <2>6, <2>7
<1>2. CASE p \in NaivePicks(s, a) /\ q \in NaivePicks(s, a)
    <2>1. IsNaiveOffer(s, p.unit, p.offer) /\ IsNaiveOffer(s, p.unit, q.offer)
        BY <1>2, NaivePick
    <2>2. p.offer = q.offer
        <3>1. p.offer \in NaiveAllowed(s, p.unit) /\ q.offer \in NaiveAllowed(s, p.unit)
            BY <2>1 DEF IsNaiveOffer
        <3>2. p.offer \in Nat /\ q.offer \in Nat
            BY <3>1, DecisionAssumption DEF NaiveAllowed
        <3>3. p.offer <= q.offer /\ q.offer <= p.offer
            BY <2>1, <3>1 DEF IsNaiveOffer
        <3>4. QED
            BY <3>2, <3>3
    <2>3. p = [arm |-> p.arm, unit |-> p.unit, offer |-> p.offer, members |-> p.members]
        BY <1>2, NaivePick
    <2>4. q = [arm |-> q.arm, unit |-> q.unit, offer |-> q.offer, members |-> q.members]
        BY <1>2, NaivePick
    <2>5. p.arm = q.arm /\ p.members = q.members
        <3>1. p.arm = "NAIVE" /\ p.members = {p.unit}
            BY <1>2, NaivePick
        <3>2. q.arm = "NAIVE" /\ q.members = {q.unit}
            BY <1>2, NaivePick
        <3>3. QED
            BY <3>1, <3>2
    <2>6. QED
        BY <2>2, <2>3, <2>4, <2>5
<1>3. ASSUME NEW e \in EnginePicks(s, a, S), NEW n \in NaivePicks(s, a) PROVE e.unit # n.unit
    <2>1. a[e.unit] = "ENGINE"
        BY EnginePick
    <2>2. a[n.unit] = "NAIVE"
        BY NaivePick
    <2>3. QED
        BY <2>1, <2>2
<1>4. QED
    BY <1>1, <1>2, <1>3 DEF Picks

\* A pick is of its unit's arm, which is not CONTROL.
LEMMA PicksInArm ==
    ASSUME NEW s \in Facts, NEW a \in Arms, NEW S \in Allocations(s, a),
           NEW p \in Picks(s, a, S)
    PROVE  p.arm = a[p.unit] /\ p.arm # "CONTROL"
<1>1. CASE p \in EnginePicks(s, a, S)
    <2>1. p.arm = "ENGINE" /\ a[p.unit] = "ENGINE"
        BY <1>1, EnginePick
    <2>2. QED
        BY <2>1
<1>2. CASE p \in NaivePicks(s, a)
    <2>1. p.arm = "NAIVE" /\ a[p.unit] = "NAIVE"
        BY <1>2, NaivePick
    <2>2. QED
        BY <2>1
<1>3. QED
    BY <1>1, <1>2 DEF Picks

\* No hard rule denies a pick's incentive to a member.
LEMMA PicksLawful ==
    ASSUME NEW s \in Facts, NEW a \in Arms, NEW S \in Allocations(s, a),
           NEW p \in Picks(s, a, S)
    PROVE  /\ CapConfigured
           /\ p.offer \notin CreditTerms
           /\ p.members \cap s.capped = {}
           /\ p.offer \in Borrowing => p.members \cap s.late = {}
<1>1. CASE p \in EnginePicks(s, a, S)
    <2>1. p.members = MembersOf(s, a, p)
        BY <1>1, EnginePick
    <2>2. \E e \in Engine(s, a) : e.unit = p.unit /\ e.offer = p.offer
        BY <1>1, EnginePick
    <2>3. \A e \in Engine(s, a) : ~HardDenied(s, e)
        BY RankedAllowed DEF Engine, Denied
    <2>4. QED
        BY <2>1, <2>2, <2>3 DEF HardDenied, CapDenies, LendingDenies, MembersOf
<1>2. CASE p \in NaivePicks(s, a)
    <2>1. p.members = {p.unit} /\ IsNaiveOffer(s, p.unit, p.offer)
        BY <1>2, NaivePick
    <2>2. ~HardDenied(s, [user |-> p.unit, offer |-> p.offer])
        BY <2>1 DEF IsNaiveOffer, NaiveAllowed
    <2>3. QED
        BY <2>1, <2>2 DEF HardDenied, CapDenies, LendingDenies
<1>3. QED
    BY <1>1, <1>2 DEF Picks

\* A circle's pick is the whole of a bundle nobody in which is denied.
LEMMA PicksWhole ==
    ASSUME NEW s \in Facts, NEW a \in Arms, NEW S \in Allocations(s, a),
           NEW p \in Picks(s, a, S), p.unit \in Circle
    PROVE  /\ p.members = Members[p.unit] \cap Scored(s)
           /\ Cardinality(p.members) >= CircleMin
           /\ p.members \cap s.excluded = {}
<1>1. p \in EnginePicks(s, a, S)
    BY NaivePick, DecisionAssumption DEF Picks
<1>2. PICK e \in Engine(s, a) : e.unit = p.unit /\ e.offer = p.offer
    BY <1>1, EnginePick
<1>3. e \in Ranked(s) /\ a[e.unit] = "ENGINE"
    BY DEF Engine
<1>4. e \in Candidates(s)
    BY <1>3, RankedAllowed
<1>5. e.unit \in BigCircles(s) /\ e.offer \in GroupOffer
    BY <1>2, <1>4, CandidateKinds
<1>6. p.members = MembersOf(s, a, p)
    BY <1>1, EnginePick
<1>7. ASSUME NEW d \in Engine(s, a), d.unit = p.unit
      PROVE  d.user \in Members[p.unit] \cap Scored(s)
    BY <1>7, CandidateKinds, RankedAllowed DEF Engine
<1>8. ASSUME NEW m \in Members[p.unit] \cap Scored(s)
      PROVE  \E d \in Engine(s, a) : d.unit = p.unit /\ d.offer = p.offer /\ d.user = m
    <2> DEFINE d == [user |-> m, offer |-> e.offer, unit |-> e.unit]
    <2>1. d \in Grouped(s)
        BY <1>2, <1>5 DEF Grouped
    <2>2. d \in Bundle(s, e)
        BY <2>1 DEF Bundle, Candidates
    <2>3. d \in Ranked(s)
        BY <1>3, <2>2, RankedAllowed
    <2>4. d \in Engine(s, a)
        BY <1>3, <2>3 DEF Engine
    <2>5. QED
        BY <1>2, <2>4
<1>9. p.members = Members[p.unit] \cap Scored(s)
    BY <1>6, <1>7, <1>8 DEF MembersOf
<1>10. Cardinality(p.members) >= CircleMin
    BY <1>2, <1>5, <1>9 DEF BigCircles
<1>11. p.members \cap s.excluded = {}
    <2>1. \A d \in Engine(s, a) : d.user \notin s.excluded
        BY RankedAllowed DEF Engine, Denied
    <2>2. QED
        BY <1>6, <2>1 DEF MembersOf
<1>12. QED
    BY <1>9, <1>10, <1>11

-----------------------------------------------------------------------------
(* Type correctness.                                                       *)

LEMMA RowsTyped ==
    ASSUME NEW s \in Facts, NEW a \in Arms, NEW S
    PROVE  Rows(s, a, S) \in SUBSET (Candidate \X Reason)
<1>1. \A c \in Candidates(s) : c \in Candidate
    BY CandidateKinds
<1>2. Exclusions(s) \subseteq Candidates(s) /\ Ranked(s) \subseteq Candidates(s)
    BY DEF Exclusions, Ranked
<1>3. Engine(s, a) \subseteq Candidates(s)
    BY <1>2 DEF Engine
<1>4. PolicyRows(s, a) \subseteq Candidate \X Reason
    BY <1>1, <1>2 DEF PolicyRows, Reason
<1>5. HoldoutRows(s, a) \subseteq Candidate \X Reason
    BY <1>1, <1>2 DEF HoldoutRows, Reason
<1>6. AllocatorRows(s, a, S) \subseteq Candidate \X Reason
    <2> DEFINE reason(c) == IF [unit |-> c.unit, offer |-> c.offer] \in S THEN "SELECTED" ELSE "NOT_SELECTED"
    <2>1. \A c : reason(c) \in Reason
        BY DEF Reason
    <2>2. AllocatorRows(s, a, S) = {<<c, reason(c)>> : c \in Engine(s, a)}
        BY DEF AllocatorRows
    <2> HIDE DEF reason
    <2>3. QED
        BY <1>1, <1>3, <2>1, <2>2
<1>7. NaiveRows(s, a) \subseteq Candidate \X Reason
    <2>1. \A c : NaiveReason(s, c) \in Reason
        BY DEF NaiveReason, Reason
    <2>2. QED
        BY <1>1, <2>1 DEF NaiveRows
<1>8. QED
    BY <1>4, <1>5, <1>6, <1>7 DEF Rows

LEMMA InitTypeOK == Init => TypeOK
<1> SUFFICES ASSUME Init PROVE TypeOK
    OBVIOUS
<1>1. filed \in Seq(Filing)
    BY DEF Init
<1>2. NoFacts \in Facts
    BY DEF NoFacts, Facts
<1>3. QED
    BY <1>1, <1>2, DecisionAssumption DEF Init, TypeOK, Arms

\* An execution that has ended is forgotten.
LEMMA ForgetTyped ==
    Forget => /\ pc' = "idle" /\ run' \in Run \cup {NoRun} /\ found' \in Facts /\ arms' \in Arms
              /\ chosen' \subseteq Item /\ \A w \in worded' : w.pick \in Pick
BY DEF Forget, NoFacts, Facts, Arms

\* What a new allocation run does to the sequence of them.
LEMMA FiledGrows ==
    ASSUME NEW f \in Filing, filed \in Seq(Filing), filed' = Append(filed, f)
    PROVE  /\ filed' \in Seq(Filing)
           /\ Len(filed') = Len(filed) + 1 /\ Len(filed) \in Nat
           /\ \A n \in DOMAIN filed : n \in DOMAIN filed' /\ filed'[n] = filed[n]
           /\ filed'[Len(filed')] = f
           /\ DOMAIN filed' = DOMAIN filed \cup {Len(filed')}
BY DEF Filing

-----------------------------------------------------------------------------
(* The inductive invariant, in parts.                                      *)

\* What an execution has in memory, and how it stands to the last allocation run.
ExecInv ==
    /\ pc # "idle" => run \in Run
    /\ pc \in {"allocate", "explain", "snapshot", "audit"} =>
          \A c \in Candidates(found) : arms[c.unit] \in Arm
    /\ pc \in {"explain", "snapshot", "audit"} =>
          /\ Len(filed) \in DOMAIN filed
          /\ filed[Len(filed)] = [run |-> run, found |-> found, arms |-> arms, chosen |-> chosen,
                                  rows |-> Rows(found, arms, chosen)]

\* Every allocation run is a possible one.
FiledInv ==
    \A n \in DOMAIN filed :
        /\ filed[n].chosen \in Allocations(filed[n].found, filed[n].arms)
        /\ filed[n].rows = Rows(filed[n].found, filed[n].arms, filed[n].chosen)
        /\ \A c \in Candidates(filed[n].found) : filed[n].arms[c.unit] \in Arm

PicksOf(n) == Picks(filed[n].found, filed[n].arms, filed[n].chosen)

\* Each worded pick is worded once, and all are when the recommendations are created.
WordedInv ==
    /\ pc \in {"idle", "arms", "allocate"} => worded = {}
    /\ worded # {} => \A w \in worded : w.pick \in PicksOf(Len(filed))
    /\ \A v, w \in worded : v.pick = w.pick => v = w

CoreInv == TypeOK /\ ExecInv /\ FiledInv /\ WordedInv

\* What the execution holds after ALLOCATE is what it filed.
LEMMA LastFiled ==
    ASSUME TypeOK, ExecInv, FiledInv, pc \in {"explain", "snapshot", "audit"}
    PROVE  /\ Len(filed) \in DOMAIN filed
           /\ filed[Len(filed)].found = found /\ filed[Len(filed)].arms = arms
           /\ filed[Len(filed)].chosen = chosen /\ filed[Len(filed)].run = run
           /\ chosen \in Allocations(found, arms)
           /\ PicksOf(Len(filed)) = Picks(found, arms, chosen)
           /\ PicksOf(Len(filed)) \subseteq Pick
<1>1. /\ Len(filed) \in DOMAIN filed
      /\ filed[Len(filed)].found = found /\ filed[Len(filed)].arms = arms
      /\ filed[Len(filed)].chosen = chosen /\ filed[Len(filed)].run = run
    BY DEF ExecInv
<1>2. chosen \in Allocations(found, arms)
    BY <1>1 DEF FiledInv
<1>3. PicksOf(Len(filed)) = Picks(found, arms, chosen)
    BY <1>1 DEF PicksOf
<1>4. PicksOf(Len(filed)) \subseteq Pick
    BY <1>2, <1>3, PicksTyped DEF TypeOK
<1>5. QED
    BY <1>1, <1>2, <1>3, <1>4

LEMMA InitCore == Init => CoreInv
<1> SUFFICES ASSUME Init PROVE CoreInv
    OBVIOUS
<1>1. DOMAIN filed = {}
    BY DEF Init
<1>2. QED
    BY <1>1, InitTypeOK DEF Init, CoreInv, ExecInv, FiledInv, WordedInv

LEMMA NextTypeOK == CoreInv /\ [Next]_vars => TypeOK'
<1> SUFFICES ASSUME CoreInv, [Next]_vars PROVE TypeOK'
    OBVIOUS
<1> USE DEF CoreInv
<1>1. ASSUME NEW r \in Run, Begin(r) PROVE TypeOK'
    <2>1. attempts' \in [Run -> 0..MaxAttempts]
        BY <1>1, DecisionAssumption DEF Begin, TypeOK
    <2>2. QED
        BY <1>1, <2>1, DecisionAssumption DEF Begin, TypeOK, Arms
<1>2. ASSUME AssignArms PROVE TypeOK'
    <2>1. \A u \in Unit : ArmOf(u) \in Arm
        BY DEF ArmOf, Arm
    <2>2. arms' \in Arms
        BY <1>2, <2>1 DEF AssignArms, Arms
    <2>3. assignment' \in Arms
        BY <1>2, <2>2 DEF AssignArms, TypeOK, Arms
    <2>4. QED
        BY <1>2, <2>2, <2>3 DEF AssignArms, TypeOK
<1>3. ASSUME Allocate PROVE TypeOK'
    <2>1. PICK S \in Allocations(found, arms) :
            /\ chosen' = S
            /\ filed' = Append(filed, [run |-> run, found |-> found, arms |-> arms, chosen |-> S,
                                       rows |-> Rows(found, arms, S)])
        BY <1>3 DEF Allocate
    <2>2. S \subseteq Item
        BY PicksTyped DEF TypeOK
    <2>3. Rows(found, arms, S) \in SUBSET (Candidate \X Reason)
        BY RowsTyped DEF TypeOK
    <2>4. run \in Run
        BY <1>3 DEF Allocate, ExecInv
    <2>5. [run |-> run, found |-> found, arms |-> arms, chosen |-> S,
           rows |-> Rows(found, arms, S)] \in Filing
        BY <2>2, <2>3, <2>4 DEF TypeOK, Filing
    <2>6. filed' \in Seq(Filing) /\ \A n \in DOMAIN filed : n \in DOMAIN filed'
        BY <2>1, <2>5, FiledGrows DEF TypeOK
    <2>7. QED
        BY <1>3, <2>1, <2>2, <2>6 DEF Allocate, TypeOK
<1>4. ASSUME NEW t \in Text, Narrate(t) PROVE TypeOK'
    <2>1. PICK p \in Picks(found, arms, chosen) : worded' = worded \cup {[pick |-> p, text |-> t]}
        BY <1>4 DEF Narrate, ToWord
    <2>2. p \in Pick
        BY <1>4, LastFiled DEF Narrate
    <2>3. QED
        BY <1>4, <2>1, <2>2 DEF Narrate, TypeOK
<1>5. ASSUME CreateRecs PROVE TypeOK'
    <2>1. Len(filed) \in DOMAIN filed
        BY <1>5, LastFiled DEF CreateRecs
    <2>2. \A r \in recs' : r.alloc \in DOMAIN filed /\ r.pick \in Pick
        BY <1>5, <2>1 DEF CreateRecs, Rec, TypeOK
    <2>3. QED
        BY <1>5, <2>2 DEF CreateRecs, TypeOK
<1>6. ASSUME SaveSnapshots PROVE TypeOK'
    BY <1>6 DEF SaveSnapshots, TypeOK
<1>7. ASSUME Audit PROVE TypeOK'
    BY <1>7 DEF Audit, TypeOK, execVars
<1>8. ASSUME Finish PROVE TypeOK'
    <2>1. run \in Run
        BY <1>8 DEF Finish, ExecInv
    <2>2. QED
        BY <1>8, <2>1, ForgetTyped DEF Finish, TypeOK
<1>9. ASSUME Fail PROVE TypeOK'
    BY <1>9, ForgetTyped DEF Fail, TypeOK, dbVars
<1>10. ASSUME Reconfigure PROVE TypeOK'
    BY <1>10 DEF Reconfigure, TypeOK, dbVars, execVars
<1>11. ASSUME UNCHANGED vars PROVE TypeOK'
    BY <1>11 DEF vars, dbVars, execVars, TypeOK
<1>12. QED
    BY <1>1, <1>2, <1>3, <1>4, <1>5, <1>6, <1>7, <1>8, <1>9, <1>10, <1>11 DEF Next

\* Most actions leave the allocation runs alone.
LEMMA SameFiling ==
    ASSUME filed' = filed
    PROVE  /\ \A n : PicksOf(n)' = PicksOf(n)
           /\ Len(filed)' = Len(filed)
           /\ FiledInv => FiledInv'
BY DEF PicksOf, FiledInv

\* Allocate appends one, and the others stay what they are.
LEMMA NewFiling ==
    ASSUME CoreInv, Allocate
    PROVE  /\ filed' \in Seq(Filing) /\ Len(filed) \in Nat /\ Len(filed') = Len(filed) + 1
           /\ chosen' \in Allocations(found, arms)
           /\ filed'[Len(filed')] = [run |-> run, found |-> found, arms |-> arms, chosen |-> chosen',
                                     rows |-> Rows(found, arms, chosen')]
           /\ DOMAIN filed' = DOMAIN filed \cup {Len(filed')}
           /\ Len(filed') \notin DOMAIN filed
           /\ \A n \in DOMAIN filed : filed'[n] = filed[n] /\ PicksOf(n)' = PicksOf(n)
<1>1. PICK S \in Allocations(found, arms) :
        /\ chosen' = S
        /\ filed' = Append(filed, [run |-> run, found |-> found, arms |-> arms, chosen |-> S,
                                   rows |-> Rows(found, arms, S)])
    BY DEF Allocate
<1> DEFINE f == [run |-> run, found |-> found, arms |-> arms, chosen |-> S,
                 rows |-> Rows(found, arms, S)]
<1>2. S \subseteq Item
    BY PicksTyped DEF CoreInv, TypeOK
<1>3. Rows(found, arms, S) \in SUBSET (Candidate \X Reason)
    BY RowsTyped DEF CoreInv, TypeOK
<1>4. run \in Run
    BY DEF Allocate, CoreInv, ExecInv
<1>5. f \in Filing
    BY <1>2, <1>3, <1>4 DEF CoreInv, TypeOK, Filing
<1>6. filed \in Seq(Filing)
    BY DEF CoreInv, TypeOK
<1>7. filed' = Append(filed, f)
    BY <1>1
<1> HIDE DEF f
<1>8. /\ filed' \in Seq(Filing)
      /\ Len(filed') = Len(filed) + 1 /\ Len(filed) \in Nat
      /\ \A n \in DOMAIN filed : n \in DOMAIN filed' /\ filed'[n] = filed[n]
      /\ filed'[Len(filed')] = f
      /\ DOMAIN filed' = DOMAIN filed \cup {Len(filed')}
    BY <1>5, <1>6, <1>7, FiledGrows
<1>9. Len(filed') \notin DOMAIN filed
    BY <1>6, <1>8
<1>10. \A n \in DOMAIN filed : PicksOf(n)' = PicksOf(n)
    BY <1>8 DEF PicksOf
<1>11. f = [run |-> run, found |-> found, arms |-> arms, chosen |-> chosen',
            rows |-> Rows(found, arms, chosen')]
    BY <1>1 DEF f
<1>12. QED
    BY <1>1, <1>8, <1>9, <1>10, <1>11

LEMMA NextExecInv == CoreInv /\ [Next]_vars => ExecInv'
<1> SUFFICES ASSUME CoreInv, [Next]_vars PROVE ExecInv'
    OBVIOUS
<1> USE DEF CoreInv
<1>1. ASSUME NEW r \in Run, Begin(r) PROVE ExecInv'
    BY <1>1 DEF Begin, ExecInv
<1>2. ASSUME AssignArms PROVE ExecInv'
    <2>1. \A c \in Candidates(found) : c.unit \in Unit /\ c.unit \in Assigned(found)
        BY CandidateKinds DEF Assigned, Candidate, TypeOK
    <2>2. \A u \in Unit : ArmOf(u) \in Arm
        BY DEF ArmOf, Arm
    <2>3. \A c \in Candidates(found) : arms'[c.unit] \in Arm
        BY <1>2, <2>1, <2>2 DEF AssignArms
    <2>4. QED
        BY <1>2, <2>3 DEF AssignArms, ExecInv
<1>3. ASSUME Allocate PROVE ExecInv'
    <2>1. /\ Len(filed') \in DOMAIN filed'
          /\ filed'[Len(filed')] = [run |-> run, found |-> found, arms |-> arms, chosen |-> chosen',
                                    rows |-> Rows(found, arms, chosen')]
        BY <1>3, NewFiling
    <2>2. pc = "allocate" /\ pc' = "explain" /\ UNCHANGED <<run, found, arms>>
        BY <1>3 DEF Allocate
    <2>3. QED
        BY <2>1, <2>2 DEF ExecInv
<1>4. ASSUME NEW t \in Text, Narrate(t) PROVE ExecInv'
    BY <1>4 DEF Narrate, ExecInv
<1>5. ASSUME CreateRecs PROVE ExecInv'
    BY <1>5 DEF CreateRecs, ExecInv
<1>6. ASSUME SaveSnapshots PROVE ExecInv'
    BY <1>6 DEF SaveSnapshots, ExecInv
<1>7. ASSUME Audit PROVE ExecInv'
    BY <1>7 DEF Audit, ExecInv, execVars
<1>8. ASSUME Forget PROVE ExecInv'
    BY <1>8 DEF Forget, ExecInv
<1>9. ASSUME UNCHANGED <<filed, execVars>> PROVE ExecInv'
    BY <1>9 DEF ExecInv, execVars
<1>10. Reconfigure \/ UNCHANGED vars => UNCHANGED <<filed, execVars>>
    BY DEF Reconfigure, dbVars, vars
<1>11. QED
    BY <1>1, <1>2, <1>3, <1>4, <1>5, <1>6, <1>7, <1>8, <1>9, <1>10 DEF Next, Finish, Fail

LEMMA NextFiledInv == CoreInv /\ [Next]_vars => FiledInv'
<1> SUFFICES ASSUME CoreInv, [Next]_vars PROVE FiledInv'
    OBVIOUS
<1>1. ASSUME Allocate PROVE FiledInv'
    <2>1. /\ chosen' \in Allocations(found, arms)
          /\ filed'[Len(filed')] = [run |-> run, found |-> found, arms |-> arms, chosen |-> chosen',
                                    rows |-> Rows(found, arms, chosen')]
          /\ DOMAIN filed' = DOMAIN filed \cup {Len(filed')}
          /\ \A n \in DOMAIN filed : filed'[n] = filed[n]
        BY <1>1, NewFiling
    <2>2. \A c \in Candidates(found) : arms[c.unit] \in Arm
        BY <1>1 DEF Allocate, CoreInv, ExecInv
    <2>3. /\ filed'[Len(filed')].found = found /\ filed'[Len(filed')].arms = arms
          /\ filed'[Len(filed')].chosen = chosen'
          /\ filed'[Len(filed')].rows = Rows(found, arms, chosen')
        BY <2>1
    <2>4. ASSUME NEW n \in DOMAIN filed'
          PROVE  /\ filed'[n].chosen \in Allocations(filed'[n].found, filed'[n].arms)
                 /\ filed'[n].rows = Rows(filed'[n].found, filed'[n].arms, filed'[n].chosen)
                 /\ \A c \in Candidates(filed'[n].found) : filed'[n].arms[c.unit] \in Arm
        <3>1. CASE n \in DOMAIN filed
            BY <2>1, <3>1 DEF CoreInv, FiledInv
        <3>2. CASE n = Len(filed')
            BY <2>1, <2>2, <2>3, <3>2
        <3>3. QED
            BY <2>1, <3>1, <3>2
    <2>5. QED
        BY <2>4 DEF FiledInv
<1>2. ASSUME filed' = filed PROVE FiledInv'
    BY <1>2, SameFiling DEF CoreInv
<1>3. ASSUME Next, ~Allocate PROVE filed' = filed
    BY <1>3 DEF Next, Begin, AssignArms, Narrate, CreateRecs, SaveSnapshots, Audit, Finish, Fail,
                Reconfigure, dbVars
<1>4. QED
    BY <1>1, <1>2, <1>3 DEF vars, dbVars

LEMMA NextWordedInv == CoreInv /\ [Next]_vars => WordedInv'
<1> SUFFICES ASSUME CoreInv, [Next]_vars PROVE WordedInv'
    OBVIOUS
<1> USE DEF CoreInv
<1>1. ASSUME Forget PROVE WordedInv'
    BY <1>1 DEF Forget, WordedInv
<1>2. ASSUME NEW t \in Text, Narrate(t) PROVE WordedInv'
    <2>1. PICK p \in Picks(found, arms, chosen) :
            /\ \A w \in worded : w.pick # p
            /\ worded' = worded \cup {[pick |-> p, text |-> t]}
        BY <1>2 DEF Narrate, ToWord
    <2>2. /\ PicksOf(Len(filed)) = Picks(found, arms, chosen)
          /\ PicksOf(Len(filed))' = PicksOf(Len(filed))
        BY <1>2, LastFiled, SameFiling DEF Narrate
    <2>3. pc' = "explain"
        BY <1>2 DEF Narrate
    <2>4. QED
        BY <2>1, <2>2, <2>3 DEF WordedInv
<1>3. ASSUME NEW r \in Run, Begin(r) PROVE WordedInv'
    BY <1>3 DEF Begin, WordedInv
<1>4. ASSUME AssignArms PROVE WordedInv'
    BY <1>4 DEF AssignArms, WordedInv
<1>5. ASSUME Allocate PROVE WordedInv'
    BY <1>5 DEF Allocate, WordedInv
<1>6. ASSUME filed' = filed, worded' = worded, pc' = pc \/ pc' \in {"snapshot", "audit"}
      PROVE  WordedInv'
    <2>1. PicksOf(Len(filed))' = PicksOf(Len(filed))
        BY <1>6, SameFiling
    <2>2. pc' \in {"idle", "arms", "allocate"} => worded' = {}
        BY <1>6 DEF WordedInv
    <2>3. worded' # {} => \A w \in worded' : w.pick \in PicksOf(Len(filed))'
        BY <1>6, <2>1 DEF WordedInv
    <2>4. QED
        BY <1>6, <2>2, <2>3 DEF WordedInv
<1>7. ASSUME CreateRecs \/ SaveSnapshots \/ Audit \/ Reconfigure \/ UNCHANGED vars
      PROVE  WordedInv'
    BY <1>6, <1>7 DEF CreateRecs, SaveSnapshots, Audit, Reconfigure, vars, dbVars, execVars
<1>8. QED
    BY <1>1, <1>2, <1>3, <1>4, <1>5, <1>7 DEF Next, Finish, Fail

LEMMA CoreStep == CoreInv /\ [Next]_vars => CoreInv'
BY NextTypeOK, NextExecInv, NextFiledInv, NextWordedInv DEF CoreInv

\* Type correctness, for every tenant, setting and number of runs.
THEOREM TypeCorrect == Spec => []TypeOK
<1>1. CoreInv => TypeOK
    BY DEF CoreInv
<1>2. QED
    BY InitCore, CoreStep, <1>1, PTL DEF Spec

-----------------------------------------------------------------------------
(* Recommendations.                                                        *)

\* A recommendation is a pick of an allocation run, made once; an execution past
\* their creation has recommended all it picked.
RecsInv ==
    /\ \A r \in recs : r.alloc \in DOMAIN filed /\ r.pick \in PicksOf(r.alloc)
    /\ \A r, q \in recs : r.alloc = q.alloc /\ r.pick = q.pick => r = q
    /\ pc = "explain" => \A r \in recs : r.alloc # Len(filed)
    /\ pc \in {"snapshot", "audit"} =>
          \A p \in PicksOf(Len(filed)) : \E r \in recs : r.alloc = Len(filed) /\ r.pick = p

LEMMA InitRecsInv == Init => RecsInv
BY DEF Init, RecsInv

LEMMA NextRecsInv == CoreInv /\ RecsInv /\ [Next]_vars => RecsInv'
<1> SUFFICES ASSUME CoreInv, RecsInv, [Next]_vars PROVE RecsInv'
    OBVIOUS
<1>1. ASSUME Allocate PROVE RecsInv'
    <2>1. /\ DOMAIN filed' = DOMAIN filed \cup {Len(filed')}
          /\ Len(filed') \notin DOMAIN filed
          /\ \A n \in DOMAIN filed : PicksOf(n)' = PicksOf(n)
        BY <1>1, NewFiling
    <2>2. recs' = recs /\ pc' = "explain"
        BY <1>1 DEF Allocate
    <2>3. \A r \in recs' : r.alloc \in DOMAIN filed' /\ r.pick \in PicksOf(r.alloc)'
        BY <2>1, <2>2 DEF RecsInv
    <2>4. \A r \in recs' : r.alloc # Len(filed')
        BY <2>1, <2>2 DEF RecsInv
    <2>5. QED
        BY <2>2, <2>3, <2>4 DEF RecsInv
<1>2. ASSUME CreateRecs PROVE RecsInv'
    <2>1. /\ pc = "explain" /\ pc' = "snapshot" /\ filed' = filed
          /\ recs' = recs \cup {Rec(w) : w \in worded}
          /\ ToWord = {}
        BY <1>2 DEF CreateRecs
    <2>2. /\ Len(filed) \in DOMAIN filed
          /\ PicksOf(Len(filed)) = Picks(found, arms, chosen)
        BY <2>1, LastFiled DEF CoreInv
    <2>3. \A n : PicksOf(n)' = PicksOf(n)
        BY <2>1, SameFiling
    <2>4. \A w \in worded : Rec(w).alloc = Len(filed) /\ Rec(w).pick = w.pick
        BY DEF Rec
    <2>5. \A w \in worded : w.pick \in PicksOf(Len(filed))
        BY DEF CoreInv, WordedInv
    <2>6. \A r \in recs' : r.alloc \in DOMAIN filed' /\ r.pick \in PicksOf(r.alloc)'
        BY <2>1, <2>2, <2>3, <2>4, <2>5 DEF RecsInv
    <2>7. ASSUME NEW r \in recs', NEW q \in recs', r.alloc = q.alloc, r.pick = q.pick PROVE r = q
        <3>1. CASE r \in recs /\ q \in recs
            BY <2>7, <3>1 DEF RecsInv
        <3>2. CASE r \notin recs \/ q \notin recs
            <4>1. r \notin recs /\ q \notin recs
                BY <2>1, <2>4, <2>7, <3>2 DEF RecsInv
            <4>2. PICK v \in worded, w \in worded : r = Rec(v) /\ q = Rec(w)
                BY <2>1, <4>1
            <4>3. v = w
                BY <2>4, <2>7, <4>2 DEF CoreInv, WordedInv
            <4>4. QED
                BY <4>2, <4>3
        <3>3. QED
            BY <3>1, <3>2
    <2>8. ASSUME NEW p \in PicksOf(Len(filed))
          PROVE  \E r \in recs' : r.alloc = Len(filed) /\ r.pick = p
        <3>1. PICK w \in worded : w.pick = p
            BY <2>1, <2>2, <2>8 DEF ToWord
        <3>2. QED
            BY <2>1, <2>4, <3>1
    <2>9. QED
        BY <2>1, <2>3, <2>6, <2>7, <2>8 DEF RecsInv
<1>3. ASSUME filed' = filed, recs' = recs,
             \/ pc' = pc
             \/ pc' \in {"idle", "arms", "allocate"}
             \/ pc = "snapshot" /\ pc' = "audit"
      PROVE  RecsInv'
    <2>1. \A n : PicksOf(n)' = PicksOf(n)
        BY <1>3, SameFiling
    <2>2. QED
        BY <1>3, <2>1 DEF RecsInv
<1>4. ASSUME Next, ~Allocate, ~CreateRecs
      PROVE  /\ filed' = filed /\ recs' = recs
             /\ \/ pc' = pc
                \/ pc' \in {"idle", "arms", "allocate"}
                \/ pc = "snapshot" /\ pc' = "audit"
    BY <1>4 DEF Next, Begin, AssignArms, Narrate, SaveSnapshots, Audit, Finish, Fail, Reconfigure,
                Forget, dbVars, execVars
<1>5. ASSUME UNCHANGED vars PROVE filed' = filed /\ recs' = recs /\ pc' = pc
    BY <1>5 DEF vars, dbVars, execVars
<1>6. QED
    BY <1>1, <1>2, <1>3, <1>4, <1>5

LEMMA RecsInvariant == Spec => [](CoreInv /\ RecsInv)
BY InitCore, CoreStep, InitRecsInv, NextRecsInv, PTL DEF Spec

\* The allocation run of a recommendation, in the terms of the lemmas on picks.
LEMMA RecOrigin ==
    ASSUME CoreInv, RecsInv, NEW r \in recs
    PROVE  /\ filed[r.alloc].found \in Facts /\ filed[r.alloc].arms \in Arms
           /\ filed[r.alloc].chosen \in Allocations(filed[r.alloc].found, filed[r.alloc].arms)
           /\ r.pick \in Picks(filed[r.alloc].found, filed[r.alloc].arms, filed[r.alloc].chosen)
<1>1. r.alloc \in DOMAIN filed /\ r.pick \in PicksOf(r.alloc)
    BY DEF RecsInv
<1>2. filed[r.alloc] \in Filing
    BY <1>1 DEF CoreInv, TypeOK
<1>3. QED
    BY <1>1, <1>2 DEF CoreInv, FiledInv, PicksOf, Filing

\* The hard rules hold for every recommendation, whichever arm and however often its
\* run was executed.
THEOREM RulesAreGuarantees == Spec => []HardRulesHold
<1>1. ASSUME CoreInv, RecsInv PROVE HardRulesHold
    <2>1. ASSUME NEW r \in recs
          PROVE  /\ CapConfigured
                 /\ r.pick.offer \notin CreditTerms
                 /\ r.pick.members \cap filed[r.alloc].found.capped = {}
                 /\ r.pick.offer \in Borrowing => r.pick.members \cap filed[r.alloc].found.late = {}
        BY <1>1, RecOrigin, PicksLawful
    <2>2. QED
        BY <2>1 DEF HardRulesHold, FoundBy
<1>2. QED
    BY RecsInvariant, <1>1, PTL

\* A circle is recommended to as a whole or not at all.
THEOREM BundlesAreWhole == Spec => []BundleWhole
<1>1. ASSUME CoreInv, RecsInv PROVE BundleWhole
    <2>1. ASSUME NEW r \in recs, r.pick.unit \in Circle
          PROVE  /\ r.pick.members = Members[r.pick.unit] \cap Scored(filed[r.alloc].found)
                 /\ Cardinality(r.pick.members) >= CircleMin
                 /\ r.pick.members \cap filed[r.alloc].found.excluded = {}
        BY <1>1, <2>1, RecOrigin, PicksWhole
    <2>2. QED
        BY <2>1 DEF BundleWhole, FoundBy
<1>2. QED
    BY RecsInvariant, <1>1, PTL

\* An execution recommends at most one incentive to a unit.
THEOREM OneIncentivePerUnit == Spec => []OnePerUnit
<1>1. ASSUME CoreInv, RecsInv PROVE OnePerUnit
    <2>1. ASSUME NEW r \in recs, NEW q \in recs, r.alloc = q.alloc, r.pick.unit = q.pick.unit
          PROVE  r = q
        <3>1. r.pick = q.pick
            BY <1>1, <2>1, RecOrigin, PicksDistinct
        <3>2. QED
            BY <1>1, <2>1, <3>1 DEF RecsInv
    <2>2. QED
        BY <2>1 DEF OnePerUnit
<1>2. QED
    BY RecsInvariant, <1>1, PTL

\* The holdout is kept: nothing is recommended to a unit in CONTROL, and its ranked
\* candidates are filed as held out.
THEOREM HoldoutIsKept == Spec => []HoldoutKept
<1>1. ASSUME CoreInv, RecsInv PROVE HoldoutKept
    <2>1. ASSUME NEW r \in recs
          PROVE  r.pick.arm = filed[r.alloc].arms[r.pick.unit] /\ r.pick.arm # "CONTROL"
        BY <1>1, RecOrigin, PicksInArm
    <2>2. ASSUME NEW n \in DOMAIN filed, NEW c \in Ranked(filed[n].found),
                 filed[n].arms[c.unit] = "CONTROL"
          PROVE  <<c, "CONTROL_HOLDOUT">> \in filed[n].rows
        <3>1. <<c, "CONTROL_HOLDOUT">> \in HoldoutRows(filed[n].found, filed[n].arms)
            BY <2>2 DEF HoldoutRows
        <3>2. filed[n].rows = Rows(filed[n].found, filed[n].arms, filed[n].chosen)
            BY <1>1 DEF CoreInv, FiledInv
        <3>3. QED
            BY <3>1, <3>2 DEF Rows
    <2>3. QED
        BY <2>1, <2>2 DEF HoldoutKept, ArmsOf
<1>2. QED
    BY RecsInvariant, <1>1, PTL

-----------------------------------------------------------------------------
(* Reasons.                                                                *)

\* The one reason of a candidate, by its unit's arm.
ReasonOf(s, a, S, c) ==
    IF a[c.unit] = "NAIVE" THEN NaiveReason(s, c)
    ELSE IF c \in Exclusions(s) THEN "POLICY"
    ELSE IF a[c.unit] = "CONTROL" THEN "CONTROL_HOLDOUT"
    ELSE IF [unit |-> c.unit, offer |-> c.offer] \in S THEN "SELECTED" ELSE "NOT_SELECTED"

LEMMA RowReason ==
    ASSUME NEW s, NEW a, NEW S, NEW w \in Rows(s, a, S)
    PROVE  w = <<w[1], ReasonOf(s, a, S, w[1])>>
<1>1. CASE w \in PolicyRows(s, a)
    BY <1>1 DEF PolicyRows, ReasonOf
<1>2. CASE w \in HoldoutRows(s, a)
    <2>1. PICK c \in Ranked(s) : a[c.unit] = "CONTROL" /\ w = <<c, "CONTROL_HOLDOUT">>
        BY <1>2 DEF HoldoutRows
    <2>2. c \notin Exclusions(s)
        BY DEF Ranked
    <2>3. QED
        BY <2>1, <2>2 DEF ReasonOf
<1>3. CASE w \in AllocatorRows(s, a, S)
    <2>1. PICK c \in Engine(s, a) :
            w = <<c, IF [unit |-> c.unit, offer |-> c.offer] \in S THEN "SELECTED" ELSE "NOT_SELECTED">>
        BY <1>3 DEF AllocatorRows
    <2>2. c \notin Exclusions(s) /\ a[c.unit] = "ENGINE"
        BY DEF Engine, Ranked
    <2>3. ReasonOf(s, a, S, c) =
            IF [unit |-> c.unit, offer |-> c.offer] \in S THEN "SELECTED" ELSE "NOT_SELECTED"
        BY <2>2 DEF ReasonOf
    <2>4. w = <<c, ReasonOf(s, a, S, c)>>
        BY <2>1, <2>3
    <2>5. QED
        BY <2>4
<1>4. CASE w \in NaiveRows(s, a)
    <2>1. PICK c : a[c.unit] = "NAIVE" /\ w = <<c, NaiveReason(s, c)>>
        BY <1>4 DEF NaiveRows
    <2>2. QED
        BY <2>1 DEF ReasonOf
<1>5. QED
    BY <1>1, <1>2, <1>3, <1>4 DEF Rows

\* Only the candidate of a naive pick has no row.
LEMMA RowMissing ==
    ASSUME NEW s \in Facts, NEW a \in Arms, NEW S, NEW c \in Candidates(s), a[c.unit] \in Arm,
           \A w \in Rows(s, a, S) : w[1] # c
    PROVE  \E p \in NaivePicks(s, a) : p.unit = c.unit /\ p.offer = c.offer
<1>1. a[c.unit] # "CONTROL"
    <2>1. SUFFICES ASSUME a[c.unit] = "CONTROL" PROVE FALSE
        OBVIOUS
    <2>2. CASE c \in Exclusions(s)
        <3>1. <<c, "POLICY">> \in PolicyRows(s, a)
            BY <2>1, <2>2 DEF PolicyRows
        <3>2. QED
            BY <3>1 DEF Rows
    <2>3. CASE c \in Ranked(s)
        <3>1. <<c, "CONTROL_HOLDOUT">> \in HoldoutRows(s, a)
            BY <2>1, <2>3 DEF HoldoutRows
        <3>2. QED
            BY <3>1 DEF Rows
    <2>4. QED
        BY <2>2, <2>3 DEF Ranked
<1>2. a[c.unit] # "ENGINE"
    <2>1. SUFFICES ASSUME a[c.unit] = "ENGINE" PROVE FALSE
        OBVIOUS
    <2>2. CASE c \in Exclusions(s)
        <3>1. <<c, "POLICY">> \in PolicyRows(s, a)
            BY <2>1, <2>2 DEF PolicyRows
        <3>2. QED
            BY <3>1 DEF Rows
    <2>3. CASE c \in Ranked(s)
        <3>1. c \in Engine(s, a)
            BY <2>1, <2>3 DEF Engine
        <3> DEFINE reason(d) ==
                       IF [unit |-> d.unit, offer |-> d.offer] \in S THEN "SELECTED" ELSE "NOT_SELECTED"
        <3>2. AllocatorRows(s, a, S) = {<<d, reason(d)>> : d \in Engine(s, a)}
            BY DEF AllocatorRows
        <3> HIDE DEF reason
        <3>3. <<c, reason(c)>> \in AllocatorRows(s, a, S)
            BY <3>1, <3>2
        <3>4. QED
            BY <3>3 DEF Rows
    <2>4. QED
        BY <2>2, <2>3 DEF Ranked
<1>3. a[c.unit] = "NAIVE"
    BY <1>1, <1>2 DEF Arm
<1>4. NaivePicked(s, c)
    <2>1. SUFFICES ASSUME ~NaivePicked(s, c) PROVE FALSE
        OBVIOUS
    <2>2. <<c, NaiveReason(s, c)>> \in NaiveRows(s, a)
        BY <1>3, <2>1 DEF NaiveRows
    <2>3. QED
        BY <2>2 DEF Rows
<1>5. c \in Individual(s) /\ c.user \in s.atRisk /\ IsNaiveOffer(s, c.user, c.offer)
    BY <1>4 DEF NaivePicked
<1>6. c.user \in NaiveUsers(s, a)
    BY <1>3, <1>5 DEF NaiveUsers, Individual
<1>7. [arm |-> "NAIVE", unit |-> c.unit, offer |-> c.offer, members |-> {c.user}] \in NaivePicks(s, a)
    BY <1>5, <1>6 DEF NaivePicks
<1>8. QED
    BY <1>7

\* Every candidate of an allocation run is filed with exactly one reason, unless the
\* baseline picked it.
THEOREM ReasonsAreWhole == Spec => []OneReason
<1>1. ASSUME CoreInv PROVE OneReason
    <2>1. ASSUME NEW n \in DOMAIN filed, NEW c \in Candidates(filed[n].found)
          PROVE  LET rows == {w \in filed[n].rows : w[1] = c}
                 IN  /\ \A v, w \in rows : v = w
                     /\ rows = {} => \E p \in NaivePicks(filed[n].found, filed[n].arms) :
                                        p.unit = c.unit /\ p.offer = c.offer
        <3> DEFINE rows == {w \in filed[n].rows : w[1] = c}
        <3>1. filed[n].rows = Rows(filed[n].found, filed[n].arms, filed[n].chosen)
            BY <1>1 DEF CoreInv, FiledInv
        <3>2. ASSUME NEW v \in rows, NEW w \in rows PROVE v = w
            <4>1. v = <<c, ReasonOf(filed[n].found, filed[n].arms, filed[n].chosen, c)>>
                BY <3>1, RowReason
            <4>2. w = <<c, ReasonOf(filed[n].found, filed[n].arms, filed[n].chosen, c)>>
                BY <3>1, RowReason
            <4>3. QED
                BY <4>1, <4>2
        <3>3. ASSUME rows = {}
              PROVE  \E p \in NaivePicks(filed[n].found, filed[n].arms) :
                        p.unit = c.unit /\ p.offer = c.offer
            <4>1. filed[n] \in Filing
                BY <1>1 DEF CoreInv, TypeOK
            <4>2. filed[n].found \in Facts /\ filed[n].arms \in Arms
                BY <4>1 DEF Filing
            <4>3. filed[n].arms[c.unit] \in Arm
                BY <1>1 DEF CoreInv, FiledInv
            <4>4. \A w \in Rows(filed[n].found, filed[n].arms, filed[n].chosen) : w[1] # c
                BY <3>1, <3>3
            <4>5. QED
                BY <4>2, <4>3, <4>4, RowMissing
        <3>4. QED
            BY <3>2, <3>3
    <2>2. QED
        BY <2>1 DEF OneReason
<1>2. QED
    BY RecsInvariant, <1>1, PTL

-----------------------------------------------------------------------------
(* Narrations, snapshots and success.                                      *)

\* A fact sheet has one narration; what was worded or recommended has one.
NarrInv ==
    /\ \A n, m \in narrations : n.digest = m.digest => n = m
    /\ \A w \in worded : IsStored(Digest(w.pick))
    /\ \A r \in recs : IsStored(r.digest)

LEMMA NextNarrInv == CoreInv /\ NarrInv /\ [Next]_vars => NarrInv'
<1> SUFFICES ASSUME CoreInv, NarrInv, [Next]_vars PROVE NarrInv'
    OBVIOUS
<1>1. ASSUME NEW t \in Text, Narrate(t) PROVE NarrInv'
    <2>1. PICK p \in ToWord : /\ worded' = worded \cup {[pick |-> p, text |-> t]}
                              /\ narrations' = narrations \cup Keep(Digest(p), t)
        BY <1>1 DEF Narrate
    <2>2. \A d : IsStored(d) => IsStored(d)'
        BY <2>1 DEF IsStored
    <2>3. \E n \in narrations' : n.digest = Digest(p)
        <3>1. CASE IsStored(Digest(p))
            BY <2>1, <3>1 DEF IsStored
        <3>2. CASE ~IsStored(Digest(p))
            <4>1. [digest |-> Digest(p), text |-> t] \in narrations'
                BY <2>1, <3>2 DEF Keep
            <4>2. QED
                BY <4>1
        <3>3. QED
            BY <3>1, <3>2
    <2>4. \A q : Digest(q)' = Digest(q)
        BY <1>1 DEF Narrate, Digest
    <2>5. \A w \in worded' : IsStored(Digest(w.pick))'
        BY <2>1, <2>2, <2>3, <2>4 DEF NarrInv, IsStored
    <2>6. \A r \in recs' : IsStored(r.digest)'
        BY <1>1, <2>2 DEF Narrate, NarrInv
    <2>7. \A n, m \in narrations' : n.digest = m.digest => n = m
        <3>1. CASE IsStored(Digest(p))
            BY <2>1, <3>1 DEF Keep, NarrInv
        <3>2. CASE ~IsStored(Digest(p))
            <4>1. narrations' = narrations \cup {[digest |-> Digest(p), text |-> t]}
                BY <2>1, <3>2 DEF Keep
            <4>2. \A n \in narrations : n.digest # Digest(p)
                BY <3>2 DEF IsStored
            <4>3. QED
                BY <4>1, <4>2 DEF NarrInv
        <3>3. QED
            BY <3>1, <3>2
    <2>8. QED
        BY <2>5, <2>6, <2>7 DEF NarrInv
<1>2. ASSUME narrations' = narrations, recs' = recs,
             worded' = {} \/ UNCHANGED <<worded, run, found, arms, chosen>>
      PROVE  NarrInv'
    <2>1. \A d : IsStored(d)' <=> IsStored(d)
        BY <1>2 DEF IsStored
    <2>2. worded' # {} => \A q : Digest(q)' = Digest(q)
        BY <1>2 DEF Digest
    <2>3. QED
        BY <1>2, <2>1, <2>2 DEF NarrInv
<1>3. ASSUME CreateRecs PROVE NarrInv'
    <2>1. /\ recs' = recs \cup {Rec(w) : w \in worded}
          /\ UNCHANGED <<narrations, worded, run, found, arms, chosen>>
        BY <1>3 DEF CreateRecs
    <2>2. \A d : IsStored(d)' <=> IsStored(d)
        BY <2>1 DEF IsStored
    <2>3. \A q : Digest(q)' = Digest(q)
        BY <2>1 DEF Digest
    <2>4. \A w \in worded : Rec(w).digest = Digest(w.pick)
        BY DEF Rec
    <2>5. QED
        BY <2>1, <2>2, <2>3, <2>4 DEF NarrInv
<1>4. ASSUME NEW r \in Run, Begin(r) PROVE NarrInv'
    <2>1. worded = {}
        BY <1>4 DEF Begin, CoreInv, WordedInv
    <2>2. QED
        BY <1>2, <1>4, <2>1 DEF Begin
<1>5. ASSUME AssignArms \/ Allocate PROVE NarrInv'
    <2>1. worded = {}
        BY <1>5 DEF AssignArms, Allocate, CoreInv, WordedInv
    <2>2. narrations' = narrations /\ recs' = recs /\ worded' = worded
        BY <1>5 DEF AssignArms, Allocate
    <2>3. QED
        BY <1>2, <2>1, <2>2
<1>6. ASSUME SaveSnapshots \/ Audit \/ Finish \/ Fail \/ Reconfigure \/ UNCHANGED vars
      PROVE  NarrInv'
    BY <1>2, <1>6 DEF SaveSnapshots, Audit, Finish, Fail, Reconfigure, Forget, vars, dbVars, execVars
<1>7. QED
    BY <1>1, <1>3, <1>4, <1>5, <1>6 DEF Next

\* A fact sheet keeps its first narration, and each recommendation's is stored.
THEOREM NarrationsKept == Spec => []FirstTextKept
<1>1. Init => NarrInv
    BY DEF Init, NarrInv
<1>2. NarrInv => FirstTextKept
    BY DEF NarrInv, FirstTextKept, IsStored
<1>3. QED
    BY RecsInvariant, NextNarrInv, <1>1, <1>2, PTL DEF Spec

\* A user's snapshot tells what the execution that wrote it recommended.
Truthful(x) ==
    LET mine == {r \in recs : r.alloc = x.alloc /\ x.user \in r.pick.members}
    IN  IF x.offer = NoCode THEN mine = {} ELSE \E r \in mine : r.pick.offer = x.offer

SnapInv ==
    /\ \A x \in snaps : x.alloc \in DOMAIN filed
    /\ \A x, y \in snaps : x.run = y.run /\ x.user = y.user => x = y
    /\ \A x \in snaps : Truthful(x)
    /\ pc = "explain" => \A x \in snaps : x.alloc # Len(filed)
    /\ pc = "audit" => \A u \in found.users :
                          \E x \in snaps : x.run = run /\ x.user = u /\ x.alloc = Len(filed)

\* The snapshot that SaveSnapshots writes for a user is truthful.
LEMMA NewSnapshot ==
    ASSUME CoreInv, RecsInv, pc = "snapshot", NEW u, NEW o \in OffersOf(u)
    PROVE  Truthful([run |-> run, user |-> u, alloc |-> Len(filed), offer |-> o])
<1> DEFINE x == [run |-> run, user |-> u, alloc |-> Len(filed), offer |-> o]
           picks == {p \in Picks(found, arms, chosen) : u \in p.members}
           mine == {r \in recs : r.alloc = Len(filed) /\ u \in r.pick.members}
<1>1. /\ PicksOf(Len(filed)) = Picks(found, arms, chosen)
      /\ PicksOf(Len(filed)) \subseteq Pick
    BY LastFiled DEF CoreInv
<1>2. \A r \in mine : r.pick \in picks
    BY <1>1 DEF RecsInv
<1>3. \A p \in picks : \E r \in mine : r.pick = p
    BY <1>1 DEF RecsInv
<1>4. \A p \in picks : p.offer \in Code
    BY <1>1 DEF Pick
<1>5. o \in IF picks = {} THEN {NoCode} ELSE {p.offer : p \in picks}
    BY DEF OffersOf
<1> HIDE DEF picks
<1>6. CASE picks = {}
    BY <1>2, <1>5, <1>6 DEF Truthful
<1>7. CASE picks # {}
    <2>1. PICK p \in picks : o = p.offer
        BY <1>5, <1>7
    <2>2. o # NoCode
        BY <1>4, <2>1, DecisionAssumption
    <2>3. PICK r \in mine : r.pick = p
        BY <1>3
    <2>4. QED
        BY <2>1, <2>2, <2>3 DEF Truthful
<1>8. QED
    BY <1>6, <1>7

LEMMA NextSnapInv == CoreInv /\ RecsInv /\ SnapInv /\ [Next]_vars => SnapInv'
<1> SUFFICES ASSUME CoreInv, RecsInv, SnapInv, [Next]_vars PROVE SnapInv'
    OBVIOUS
<1>1. ASSUME Allocate PROVE SnapInv'
    <2>1. /\ DOMAIN filed' = DOMAIN filed \cup {Len(filed')}
          /\ Len(filed') \notin DOMAIN filed
        BY <1>1, NewFiling
    <2>2. snaps' = snaps /\ recs' = recs /\ pc' = "explain"
        BY <1>1 DEF Allocate
    <2>3. \A x : Truthful(x)' <=> Truthful(x)
        BY <2>2 DEF Truthful
    <2>4. QED
        BY <2>1, <2>2, <2>3 DEF SnapInv
<1>2. ASSUME CreateRecs PROVE SnapInv'
    <2>1. /\ recs' = recs \cup {Rec(w) : w \in worded}
          /\ pc = "explain" /\ pc' = "snapshot" /\ snaps' = snaps /\ filed' = filed
        BY <1>2 DEF CreateRecs
    <2>2. ASSUME NEW x \in snaps PROVE Truthful(x)'
        <3>1. x.alloc # Len(filed) /\ Truthful(x)
            BY <2>1 DEF SnapInv
        <3>2. \A r \in recs' : r.alloc = x.alloc => r \in recs
            BY <2>1, <3>1 DEF Rec
        <3>3. {r \in recs' : r.alloc = x.alloc /\ x.user \in r.pick.members}
              = {r \in recs : r.alloc = x.alloc /\ x.user \in r.pick.members}
            BY <2>1, <3>2
        <3>4. QED
            BY <3>1, <3>3 DEF Truthful
    <2>3. QED
        BY <2>1, <2>2 DEF SnapInv
<1>3. ASSUME SaveSnapshots PROVE SnapInv'
    <2>1. PICK offer \in [found.users -> Code \cup {NoCode}] :
            /\ \A u \in found.users : offer[u] \in OffersOf(u)
            /\ snaps' = snaps \cup {[run |-> run, user |-> u, alloc |-> Len(filed), offer |-> offer[u]] :
                                       u \in found.users}
        BY <1>3 DEF SaveSnapshots
    <2> DEFINE new(u) == [run |-> run, user |-> u, alloc |-> Len(filed), offer |-> offer[u]]
    <2>2. /\ pc = "snapshot" /\ pc' = "audit"
          /\ UNCHANGED <<recs, filed, run, found>>
          /\ \A u \in found.users : ~HasSnapshot(run, u)
        BY <1>3 DEF SaveSnapshots
    <2>3. snaps' = snaps \cup {new(u) : u \in found.users}
        BY <2>1
    <2>4. \A u \in found.users : Truthful(new(u))
        BY <2>1, <2>2, NewSnapshot
    <2>5. \A x : Truthful(x)' <=> Truthful(x)
        BY <2>2 DEF Truthful
    <2>6. \A u \in found.users : new(u).run = run /\ new(u).user = u /\ new(u).alloc = Len(filed)
        OBVIOUS
    <2> HIDE DEF new
    <2>7. \A x, y \in snaps' : x.run = y.run /\ x.user = y.user => x = y
        BY <2>2, <2>3, <2>6 DEF SnapInv, HasSnapshot
    <2>8. Len(filed) \in DOMAIN filed
        BY <2>2, LastFiled DEF CoreInv
    <2>9. \A x \in snaps' : x.alloc \in DOMAIN filed' /\ Truthful(x)'
        BY <2>2, <2>3, <2>4, <2>5, <2>6, <2>8 DEF SnapInv
    <2>10. \A u \in found.users : \E x \in snaps' : x.run = run /\ x.user = u /\ x.alloc = Len(filed)
        BY <2>3, <2>6
    <2>11. QED
        BY <2>2, <2>7, <2>9, <2>10 DEF SnapInv
<1>4. ASSUME filed' = filed, recs' = recs, snaps' = snaps,
             \/ pc' = pc /\ UNCHANGED <<run, found>>
             \/ pc' \in {"idle", "arms", "allocate"}
      PROVE  SnapInv'
    <2>1. \A x : Truthful(x)' <=> Truthful(x)
        BY <1>4 DEF Truthful
    <2>2. QED
        BY <1>4, <2>1 DEF SnapInv
<1>5. ASSUME Next, ~Allocate, ~CreateRecs, ~SaveSnapshots
      PROVE  /\ filed' = filed /\ recs' = recs /\ snaps' = snaps
             /\ \/ pc' = pc /\ UNCHANGED <<run, found>>
                \/ pc' \in {"idle", "arms", "allocate"}
    BY <1>5 DEF Next, Begin, AssignArms, Narrate, Audit, Finish, Fail, Reconfigure, Forget,
                dbVars, execVars
<1>6. ASSUME UNCHANGED vars
      PROVE  UNCHANGED <<filed, recs, snaps, pc, run, found>>
    BY <1>6 DEF vars, dbVars, execVars
<1>7. QED
    BY <1>1, <1>2, <1>3, <1>4, <1>5, <1>6

LEMMA SnapInvariant == Spec => [](CoreInv /\ RecsInv /\ SnapInv)
<1>1. Init => SnapInv
    BY DEF Init, SnapInv
<1>2. QED
    BY InitCore, CoreStep, InitRecsInv, NextRecsInv, NextSnapInv, <1>1, PTL DEF Spec

\* What the transactions of an execution leave behind fits together, wherever it dies.
THEOREM SnapshotsFit == Spec => [](SnapshotsTruthful /\ OneSnapshot)
<1>1. SnapInv => SnapshotsTruthful /\ OneSnapshot
    BY DEF SnapInv, SnapshotsTruthful, OneSnapshot, Truthful
<1>2. QED
    BY SnapInvariant, <1>1, PTL

\* A run that succeeded is complete, though executions before may have died anywhere.
THEOREM SuccessesAreWhole == Spec => []SuccessIsWhole
<1>1. Init => SuccessIsWhole
    BY DEF Init, SuccessIsWhole
<1>2. ASSUME CoreInv, RecsInv, SnapInv, SuccessIsWhole, [Next]_vars PROVE SuccessIsWhole'
    <2> DEFINE Whole(r, n) ==
            /\ filed[n].run = r
            /\ \A u \in filed[n].found.users : \E x \in snaps : x.run = r /\ x.user = u /\ x.alloc = n
            /\ \A p \in PicksOf(n) : \E q \in audited : q.alloc = n /\ q.pick = p
    <2>1. \A r \in done : \E n \in DOMAIN filed : Whole(r, n)
        BY <1>2 DEF SuccessIsWhole, PicksOf
    <2>2. /\ snaps \subseteq snaps' /\ audited \subseteq audited'
          /\ \A n \in DOMAIN filed : n \in DOMAIN filed' /\ filed'[n] = filed[n]
        <3>1. ASSUME Next, ~Allocate PROVE filed' = filed
            BY <3>1 DEF Next, Begin, AssignArms, Narrate, CreateRecs, SaveSnapshots, Audit, Finish,
                        Fail, Reconfigure, dbVars
        <3>2. ASSUME Next PROVE snaps \subseteq snaps' /\ audited \subseteq audited'
            BY <3>2 DEF Next, Begin, AssignArms, Allocate, Narrate, CreateRecs, SaveSnapshots, Audit,
                        Finish, Fail, Reconfigure, dbVars
        <3>3. ASSUME Allocate PROVE \A n \in DOMAIN filed : n \in DOMAIN filed' /\ filed'[n] = filed[n]
            BY <1>2, <3>3, NewFiling
        <3>4. QED
            BY <1>2, <3>1, <3>2, <3>3 DEF vars, dbVars
    <2>3. ASSUME NEW r, NEW n \in DOMAIN filed, Whole(r, n)
          PROVE  n \in DOMAIN filed' /\ Whole(r, n)'
        <3>1. PicksOf(n)' = PicksOf(n)
            BY <2>2 DEF PicksOf
        <3>2. QED
            BY <2>2, <2>3, <3>1
    <2>4. ASSUME NEW r \in done', r \notin done PROVE \E n \in DOMAIN filed : Whole(r, n)
        <3>1. Finish
            BY <1>2, <2>4 DEF Next, Begin, AssignArms, Allocate, Narrate, CreateRecs, SaveSnapshots,
                              Audit, Fail, Reconfigure, vars, dbVars
        <3>2. /\ r = run /\ pc = "audit"
              /\ \A q \in recs : q.alloc = Len(filed) => q \in audited
            BY <2>4, <3>1 DEF Finish
        <3>3. /\ Len(filed) \in DOMAIN filed
              /\ filed[Len(filed)].run = run /\ filed[Len(filed)].found = found
            BY <1>2, <3>2, LastFiled DEF CoreInv
        <3>4. \A u \in found.users : \E x \in snaps : x.run = run /\ x.user = u /\ x.alloc = Len(filed)
            BY <1>2, <3>2 DEF SnapInv
        <3>5. \A p \in PicksOf(Len(filed)) : \E q \in audited : q.alloc = Len(filed) /\ q.pick = p
            BY <1>2, <3>2 DEF RecsInv
        <3>6. Whole(r, Len(filed))
            BY <3>2, <3>3, <3>4, <3>5
        <3>7. QED
            BY <3>3, <3>6
    <2>5. \A r \in done' : \E n \in DOMAIN filed' : Whole(r, n)'
        BY <2>1, <2>3, <2>4
    <2>6. QED
        BY <2>5 DEF SuccessIsWhole, PicksOf
<1>3. QED
    BY SnapInvariant, <1>1, <1>2, PTL DEF Spec

-----------------------------------------------------------------------------
(* Arms of an experiment whose percentages are never changed.              *)

OneSplit == \A x, y \in Split : x = y

\* An arm that was computed, stored or filed is the unit's.
ArmInv ==
    /\ \A u \in Unit : arms[u] \in {NoArm, ArmOf(u)} /\ assignment[u] \in {NoArm, ArmOf(u)}
    /\ \A u \in Unit : arms[u] # NoArm => assignment[u] = arms[u]
    /\ \A n \in DOMAIN filed : \A u \in Unit :
          filed[n].arms[u] # NoArm => assignment[u] = filed[n].arms[u]

LEMMA NextArmInv ==
    ASSUME OneSplit, CoreInv, ArmInv, [Next]_vars
    PROVE  ArmInv'
<1>1. split' = split /\ bucket' = bucket
    <2>1. split \in Split
        BY DEF CoreInv, TypeOK
    <2>2. QED
        BY <2>1 DEF Next, Begin, AssignArms, Allocate, Narrate, CreateRecs, SaveSnapshots, Audit, Finish,
                    Fail, Reconfigure, OneSplit, vars
<1>2. \A u : ArmOf(u)' = ArmOf(u)
    BY <1>1 DEF ArmOf
<1>3. \A u : ArmOf(u) # NoArm
    BY DEF ArmOf, NoArm
<1>4. ASSUME AssignArms PROVE ArmInv'
    <2>1. /\ arms' = [u \in Unit |-> IF u \in Assigned(found) THEN ArmOf(u) ELSE NoArm]
          /\ assignment' = [u \in Unit |-> IF assignment[u] = NoArm THEN arms'[u] ELSE assignment[u]]
          /\ filed' = filed
        BY <1>4 DEF AssignArms
    <2>2. ASSUME NEW u \in Unit
          PROVE  /\ arms'[u] \in {NoArm, ArmOf(u)} /\ assignment'[u] \in {NoArm, ArmOf(u)}
                 /\ arms'[u] # NoArm => assignment'[u] = arms'[u]
                 /\ assignment[u] # NoArm => assignment'[u] = assignment[u]
        BY <2>1, <1>3 DEF ArmInv
    <2>3. \A n \in DOMAIN filed' : \A u \in Unit :
             filed'[n].arms[u] # NoArm => assignment'[u] = filed'[n].arms[u]
        BY <2>1, <2>2 DEF ArmInv
    <2>4. QED
        BY <1>2, <2>2, <2>3 DEF ArmInv
<1>5. ASSUME Allocate PROVE ArmInv'
    <2>1. /\ DOMAIN filed' = DOMAIN filed \cup {Len(filed')}
          /\ \A n \in DOMAIN filed : filed'[n] = filed[n]
          /\ filed'[Len(filed')].arms = arms
        BY <1>5, NewFiling
    <2>2. arms' = arms /\ assignment' = assignment
        BY <1>5 DEF Allocate
    <2>3. QED
        BY <1>2, <2>1, <2>2 DEF ArmInv
<1>6. ASSUME filed' = filed, assignment' = assignment, arms' = arms \/ Forget PROVE ArmInv'
    BY <1>2, <1>6 DEF ArmInv, Forget
<1>7. ASSUME Next, ~AssignArms, ~Allocate
      PROVE  filed' = filed /\ assignment' = assignment /\ (arms' = arms \/ Forget)
    BY <1>7 DEF Next, Begin, Narrate, CreateRecs, SaveSnapshots, Audit, Finish, Fail, Reconfigure,
                dbVars, execVars
<1>8. ASSUME UNCHANGED vars PROVE UNCHANGED <<filed, assignment, arms>>
    BY <1>8 DEF vars, dbVars, execVars
<1>9. QED
    BY <1>4, <1>5, <1>6, <1>7, <1>8

\* "A user's arm never changes within an experiment": true of every recommendation as
\* long as the two percentages are never changed while the experiment goes on.
THEOREM ArmsNeverChange ==
    ASSUME OneSplit
    PROVE  Spec => []ArmKept
<1>1. Init => ArmInv
    BY DEF Init, ArmInv
<1>2. CoreInv /\ ArmInv /\ [Next]_vars => ArmInv'
    BY NextArmInv
<1>3. ASSUME CoreInv, RecsInv, ArmInv PROVE ArmKept
    <2>1. ASSUME NEW r \in recs PROVE r.pick.arm = assignment[r.pick.unit]
        <3>1. r.pick.arm = filed[r.alloc].arms[r.pick.unit]
            BY <1>3, RecOrigin, PicksInArm
        <3>2. r.alloc \in DOMAIN filed /\ r.pick \in Pick
            BY <1>3 DEF CoreInv, TypeOK
        <3>3. r.pick.unit \in Unit /\ r.pick.arm # NoArm
            BY <3>2 DEF Pick, Arm, NoArm
        <3>4. QED
            BY <1>3, <3>1, <3>2, <3>3 DEF ArmInv
    <2>2. QED
        BY <2>1 DEF ArmKept
<1>4. QED
    BY RecsInvariant, <1>1, <1>2, <1>3, PTL DEF Spec
=============================================================================
