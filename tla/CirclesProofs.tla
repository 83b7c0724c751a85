---------------------------- MODULE CirclesProofs ---------------------------
(***************************************************************************)
(* Proofs about Circles for any people, interactions and minima.           *)
(***************************************************************************)
EXTENDS Circles, FiniteSetTheorems, WellFoundedInduction, TLAPS

\* No closed set tells m and n apart.
Bond(m, n) == \A S \in SUBSET Node : Closed(S) => (m \in S <=> n \in S)

\* Pointers, the node find is at and groups stay within a component.
BondInv ==
    /\ \A n \in DOMAIN parent : Bond(parent[n], n)
    /\ pc = "first" => Bond(x, edge[1])
    /\ pc = "second" => Bond(first, edge[1]) /\ Bond(x, edge[2])
    /\ pc = "place" => Bond(x, node)
    /\ \A r \in DOMAIN groups : \A n \in groups[r] : Bond(r, n)

CirclesInv == TypeOK /\ PointersDown /\ BondInv /\ NoStrangers

-----------------------------------------------------------------------------
(* Type correctness.                                                       *)

LEMMA EdgeEnds ==
    ASSUME NEW e \in Edges
    PROVE  e[1] \in Node /\ e[2] \in Node /\ e # NoEdge
    BY DEF Edges, Pair, NoEdge

\* A node that is seen points to itself unless it was seen before.
LEMMA SeenFacts ==
    ASSUME NEW n
    PROVE  /\ DOMAIN Seen(n) = DOMAIN parent \cup {n}
           /\ \A m \in DOMAIN parent : Seen(n)[m] = parent[m]
           /\ n \notin DOMAIN parent => Seen(n)[n] = n
    BY DEF Seen

LEMMA SeenTyped ==
    ASSUME TypeOK, NEW n \in Node
    PROVE  /\ DOMAIN parent \subseteq DOMAIN Seen(n) /\ DOMAIN Seen(n) \subseteq Node
           /\ n \in DOMAIN Seen(n)
           /\ \A m \in DOMAIN Seen(n) : Seen(n)[m] \in DOMAIN Seen(n)
<1>1. DOMAIN parent \subseteq Node /\ \A m \in DOMAIN parent : parent[m] \in DOMAIN parent
    BY DEF TypeOK
<1> QED
    BY <1>1 DEF Seen

LEMMA SeenDown ==
    ASSUME PointersDown, NEW n \in Nat
    PROVE  \A m \in DOMAIN Seen(n) : Seen(n)[m] <= m
<1>1. \A m \in DOMAIN parent : parent[m] <= m
    BY DEF PointersDown
<1> QED
    BY <1>1 DEF Seen

LEMMA LarSm ==
    ASSUME NEW a, NEW b
    PROVE  /\ Larger(a, b) \in {a, b} /\ Smaller(a, b) \in {a, b}
           /\ {Larger(a, b), Smaller(a, b)} = {a, b}
    BY DEF Larger, Smaller

LEMMA TypeStep == TypeOK /\ [Next]_vars => TypeOK'
<1> SUFFICES ASSUME TypeOK, [Next]_vars PROVE TypeOK'
    OBVIOUS
<1> USE DEF TypeOK
<1>1. CASE TakeEdge
    <2>1. PICK e \in todo : /\ edge' = e /\ x' = e[1] /\ parent' = Seen(e[1])
                            /\ todo' = todo \ {e}
        BY <1>1 DEF TakeEdge
    <2>2. e \in Edges /\ e[1] \in Node /\ e # NoEdge
        BY <2>1, EdgeEnds
    <2>3. Edges' = Edges
        BY <1>1 DEF TakeEdge, Edges
    <2>4. /\ DOMAIN parent \subseteq DOMAIN parent' /\ DOMAIN parent' \subseteq Node
          /\ x' \in DOMAIN parent'
          /\ \A n \in DOMAIN parent' : parent'[n] \in DOMAIN parent'
        BY <2>1, <2>2, SeenTyped
    <2> QED
        BY <1>1, <2>1, <2>2, <2>3, <2>4 DEF TakeEdge
<1>2. CASE Follow
    <2>1. Edges' = Edges
        BY <1>2 DEF Follow, Edges
    <2>2. /\ DOMAIN parent' = DOMAIN parent
          /\ \A n \in DOMAIN parent : parent'[n] \in DOMAIN parent
          /\ x' \in DOMAIN parent
        BY <1>2 DEF Follow, Halve
    <2> QED
        BY <1>2, <2>1, <2>2 DEF Follow
<1>3. CASE FoundFirst
    <2>1. Edges' = Edges /\ edge \in Edges /\ edge[2] \in Node
        BY <1>3, EdgeEnds DEF FoundFirst, Edges
    <2>2. /\ DOMAIN parent \subseteq DOMAIN parent' /\ DOMAIN parent' \subseteq Node
          /\ x' \in DOMAIN parent'
          /\ \A n \in DOMAIN parent' : parent'[n] \in DOMAIN parent'
        BY <1>3, <2>1, SeenTyped DEF FoundFirst
    <2> QED
        BY <1>3, <2>1, <2>2 DEF FoundFirst
<1>4. CASE FoundSecond
    <2>1. Edges' = Edges
        BY <1>4 DEF FoundSecond, Edges
    <2>2. /\ DOMAIN parent' = DOMAIN parent
          /\ \A n \in DOMAIN parent : parent'[n] \in DOMAIN parent
        BY <1>4, LarSm DEF FoundSecond, Link
    <2> QED
        BY <1>4, <2>1, <2>2 DEF FoundSecond
<1>5. CASE AllTaken \/ TakeNode \/ Return
    <2>1. Edges' = Edges
        BY <1>5 DEF AllTaken, TakeNode, Return, Edges
    <2> QED
        BY <1>5, <2>1 DEF AllTaken, TakeNode, Return
<1>6. CASE FoundRoot
    <2>1. Edges' = Edges
        BY <1>6 DEF FoundRoot, Edges
    <2>2. /\ DOMAIN groups' \subseteq DOMAIN parent
          /\ \A r \in DOMAIN groups' : groups'[r] \subseteq DOMAIN parent
        BY <1>6 DEF FoundRoot, Placed
    <2> QED
        BY <1>6, <2>1, <2>2 DEF FoundRoot
<1>7. CASE UNCHANGED vars
    <2>1. Edges' = Edges
        BY <1>7 DEF vars, Edges
    <2> QED
        BY <1>7, <2>1 DEF vars
<1> QED
    BY <1>1, <1>2, <1>3, <1>4, <1>5, <1>6, <1>7 DEF Next

-----------------------------------------------------------------------------
(* Pointers.                                                               *)

LEMMA DownStep == TypeOK /\ PointersDown /\ [Next]_vars => PointersDown'
<1> SUFFICES ASSUME TypeOK, PointersDown, [Next]_vars PROVE PointersDown'
    OBVIOUS
<1> USE DEF PointersDown
<1>0. /\ DOMAIN parent \subseteq Nat
      /\ \A n \in DOMAIN parent : parent[n] \in DOMAIN parent
    BY CirclesAssumption DEF TypeOK
<1>1. CASE TakeEdge
    <2>1. PICK e \in Edges : parent' = Seen(e[1]) /\ pc' = "first"
        BY <1>1 DEF TakeEdge, TypeOK
    <2>2. e[1] \in Nat
        BY EdgeEnds, CirclesAssumption
    <2>3. \A n \in DOMAIN parent' : parent'[n] <= n
        BY <2>1, <2>2, SeenDown
    <2> QED
        BY <2>1, <2>3
<1>2. CASE Follow
    <2>1. x \in DOMAIN parent /\ parent[x] # x /\ parent' = Halve(x) /\ pc' = pc /\ first' = first
        BY <1>2 DEF Follow, TypeOK
    <2>2. parent[parent[x]] <= x
        BY <1>0, <2>1
    <2>3. pc = "second" => first # x /\ first \in DOMAIN parent
        BY <2>1 DEF TypeOK
    <2> QED
        BY <1>0, <2>1, <2>2, <2>3 DEF Halve
<1>3. CASE FoundFirst
    <2>1. /\ edge[2] \in Nat /\ x \in DOMAIN parent /\ parent[x] = x
          /\ parent' = Seen(edge[2]) /\ first' = x
        BY <1>3, EdgeEnds, CirclesAssumption DEF FoundFirst, TypeOK
    <2>2. \A n \in DOMAIN parent' : parent'[n] <= n
        BY <2>1, SeenDown
    <2>3. parent'[x] = x
        BY <2>1, SeenFacts
    <2> QED
        BY <2>1, <2>2, <2>3
<1>4. CASE FoundSecond
    <2>1. first \in DOMAIN parent /\ x \in DOMAIN parent /\ parent' = Link(first, x) /\ pc' = "take"
        BY <1>4 DEF FoundSecond, TypeOK
    <2>2. Smaller(first, x) <= Larger(first, x)
        BY <1>0, <2>1 DEF Smaller, Larger
    <2> QED
        BY <1>0, <2>1, <2>2 DEF Link
<1>5. CASE AllTaken \/ TakeNode \/ Return \/ FoundRoot
    BY <1>5 DEF AllTaken, TakeNode, Return, FoundRoot
<1>6. CASE UNCHANGED vars
    BY <1>6 DEF vars
<1> QED
    BY <1>1, <1>2, <1>3, <1>4, <1>5, <1>6 DEF Next

-----------------------------------------------------------------------------
(* Components.                                                             *)

LEMMA BondRefl == ASSUME NEW a PROVE Bond(a, a)
    BY DEF Bond

LEMMA BondSym == ASSUME NEW a, NEW b, Bond(a, b) PROVE Bond(b, a)
    BY DEF Bond

LEMMA BondTrans == ASSUME NEW a, NEW b, NEW c, Bond(a, b), Bond(b, c) PROVE Bond(a, c)
    BY DEF Bond

LEMMA EdgeBonds == ASSUME NEW e \in Edges PROVE Bond(e[1], e[2])
    BY DEF Bond, Closed

\* The graph does not change, so what is connected stays so.
LEMMA BondStays ==
    ASSUME count' = count, NEW a, NEW b
    PROVE  Bond(a, b)' <=> Bond(a, b)
<1>1. Edges' = Edges
    BY DEF Edges
<1> QED
    BY <1>1 DEF Bond, Closed

LEMMA CountStays == [Next]_vars => count' = count
    BY DEF Next, vars, TakeEdge, Follow, FoundFirst, FoundSecond, AllTaken, TakeNode, FoundRoot, Return

\* The invariant with the bonds of the state before, on the state after.
BondNext ==
    /\ \A n \in DOMAIN parent' : Bond(parent'[n], n)
    /\ pc' = "first" => Bond(x', edge'[1])
    /\ pc' = "second" => Bond(first', edge'[1]) /\ Bond(x', edge'[2])
    /\ pc' = "place" => Bond(x', node')
    /\ \A r \in DOMAIN groups' : \A n \in groups'[r] : Bond(r, n)

LEMMA SeenBonds ==
    ASSUME BondInv, NEW n
    PROVE  \A m \in DOMAIN Seen(n) : Bond(Seen(n)[m], m)
    BY BondRefl DEF BondInv, Seen

LEMMA BondStep == TypeOK /\ BondInv /\ [Next]_vars => BondNext
<1> SUFFICES ASSUME TypeOK, BondInv, [Next]_vars PROVE BondNext
    OBVIOUS
<1> USE DEF BondNext
<1>0. /\ \A n \in DOMAIN parent : parent[n] \in DOMAIN parent /\ Bond(parent[n], n)
      /\ \A r \in DOMAIN groups : \A n \in groups[r] : Bond(r, n)
    BY DEF TypeOK, BondInv
<1>1. CASE TakeEdge
    <2>1. PICK e \in todo : edge' = e /\ x' = e[1] /\ parent' = Seen(e[1])
        BY <1>1 DEF TakeEdge
    <2>2. pc' = "first" /\ groups' = groups /\ Bond(x', edge'[1])
        BY <1>1, <2>1, BondRefl DEF TakeEdge
    <2> QED
        BY <1>0, <2>1, <2>2, SeenBonds
<1>2. CASE Follow
    <2>1. /\ x \in DOMAIN parent /\ parent' = Halve(x) /\ x' = parent[parent[x]]
          /\ pc' = pc /\ UNCHANGED <<first, edge, node, groups>>
        BY <1>2 DEF Follow, Halve, TypeOK
    <2>2. Bond(parent[parent[x]], x)
        BY <1>0, <2>1, BondTrans
    <2>3. \A n \in DOMAIN parent' : Bond(parent'[n], n)
        BY <1>0, <2>1, <2>2 DEF Halve
    <2>4. \A n : Bond(x, n) => Bond(x', n)
        BY <2>1, <2>2, BondTrans
    <2> QED
        BY <1>0, <2>1, <2>3, <2>4 DEF BondInv
<1>3. CASE FoundFirst
    <2>1. /\ parent' = Seen(edge[2]) /\ first' = x /\ x' = edge[2] /\ pc' = "second"
          /\ edge' = edge /\ groups' = groups /\ Bond(x, edge[1])
        BY <1>3 DEF FoundFirst, BondInv
    <2> QED
        BY <1>0, <2>1, SeenBonds, BondRefl
<1>4. CASE FoundSecond
    <2>1. /\ parent' = Link(first, x) /\ pc' = "take" /\ groups' = groups
          /\ Bond(first, edge[1]) /\ Bond(x, edge[2]) /\ edge \in Edges
        BY <1>4 DEF FoundSecond, BondInv, TypeOK
    <2>2. Bond(first, x)
        BY <2>1, EdgeBonds, BondTrans, BondSym
    <2>3. Bond(Smaller(first, x), Larger(first, x))
        BY <2>2, BondSym, BondRefl DEF Smaller, Larger
    <2> QED
        BY <1>0, <2>1, <2>3 DEF Link
<1>5. CASE AllTaken
    BY <1>0, <1>5 DEF AllTaken
<1>6. CASE TakeNode
    <2>1. x' = node' /\ pc' = "place" /\ parent' = parent /\ groups' = groups
        BY <1>6 DEF TakeNode
    <2> QED
        BY <1>0, <2>1, BondRefl
<1>7. CASE FoundRoot
    <2>1. groups' = Placed(node, x) /\ Bond(x, node) /\ pc' = "next" /\ parent' = parent
        BY <1>7 DEF FoundRoot, BondInv
    <2>2. \A r \in DOMAIN Placed(node, x) : \A n \in Placed(node, x)[r] : Bond(r, n)
        BY <1>0, <2>1 DEF Placed
    <2> QED
        BY <1>0, <2>1, <2>2
<1>8. CASE Return
    BY <1>0, <1>8 DEF Return
<1>9. CASE UNCHANGED vars
    BY <1>9 DEF vars, BondInv
<1> QED
    BY <1>1, <1>2, <1>3, <1>4, <1>5, <1>6, <1>7, <1>8, <1>9 DEF Next

LEMMA BondKept ==
    ASSUME count' = count, BondNext
    PROVE  BondInv'
<1>1. \A a, b : Bond(a, b) => Bond(a, b)'
    BY BondStays
<1> QED
    BY <1>1 DEF BondNext, BondInv

LEMMA StrangersStep ==
    ASSUME BondInv, NoStrangers, count' = count, [Next]_vars
    PROVE  NoStrangers'
<1>1. Edges' = Edges
    BY DEF Edges
<1>2. \A m, n : Connected(m, n) => Connected(m, n)'
    BY <1>1 DEF Connected, Closed
<1>3. CASE Return
    <2>1. ASSUME NEW C \in circles', NEW m \in C, NEW n \in C PROVE Connected(m, n)
        <3>1. PICK r \in DOMAIN groups : C = groups[r]
            BY <1>3 DEF Return
        <3>2. Bond(r, m) /\ Bond(r, n)
            BY <3>1 DEF BondInv
        <3> QED
            BY <3>2 DEF Bond, Connected
    <2> QED
        BY <1>2, <2>1 DEF NoStrangers
<1>4. CASE ~ Return
    <2>1. circles' = circles
        BY <1>4 DEF Next, vars, TakeEdge, Follow, FoundFirst, FoundSecond, AllTaken, TakeNode, FoundRoot
    <2> QED
        BY <1>2, <2>1 DEF NoStrangers
<1> QED
    BY <1>3, <1>4

-----------------------------------------------------------------------------

LEMMA CirclesInit == Init => CirclesInv
<1> SUFFICES ASSUME Init PROVE CirclesInv
    OBVIOUS
<1>1. DOMAIN parent = {} /\ DOMAIN groups = {} /\ circles = {} /\ queue = {}
    BY DEF Init
<1> QED
    BY <1>1 DEF Init, CirclesInv, TypeOK, PointersDown, BondInv, NoStrangers

LEMMA CirclesStep == CirclesInv /\ [Next]_vars => CirclesInv'
<1> SUFFICES ASSUME CirclesInv, [Next]_vars PROVE CirclesInv'
    OBVIOUS
<1>1. TypeOK /\ PointersDown /\ BondInv /\ NoStrangers /\ count' = count
    BY CountStays DEF CirclesInv
<1>2. BondInv'
    BY <1>1, BondStep, BondKept
<1> QED
    BY <1>1, <1>2, TypeStep, DownStep, StrangersStep DEF CirclesInv

\* find_circles follows nodes it has seen and stays within its types.
THEOREM TypeCorrect == Spec => []TypeOK
<1>1. CirclesInv => TypeOK
    BY DEF CirclesInv
<1> QED
    BY CirclesInit, CirclesStep, <1>1, PTL DEF Spec

\* Union-find never builds a circle of pointers, and links roots only.
THEOREM PointersGoDown == Spec => []PointersDown
<1>1. CirclesInv => PointersDown
    BY DEF CirclesInv
<1> QED
    BY CirclesInit, CirclesStep, <1>1, PTL DEF Spec

\* Members of a circle that is reported are connected by edges.
THEOREM CirclesConnected == Spec => []NoStrangers
<1>1. CirclesInv => NoStrangers
    BY DEF CirclesInv
<1> QED
    BY CirclesInit, CirclesStep, <1>1, PTL DEF Spec

-----------------------------------------------------------------------------
(* What the pointers stand for.                                            *)

Taken == Edges \ (todo \cup {edge})

\* The ends of an edge that was taken are tied, those of the current edge to the nodes
\* that were found for them, and only ends of edges were seen.
TakenInv ==
    /\ edge \notin todo
    /\ pc \notin {"first", "second"} => edge = NoEdge
    /\ pc \in {"next", "place", "done"} => todo = {}
    /\ \A e \in Taken : {e[1], e[2]} \subseteq DOMAIN parent /\ Tied(e[1], e[2])
    /\ \A n \in DOMAIN parent : \E e \in Edges : n \in {e[1], e[2]}
    /\ pc = "first" => edge[1] \in DOMAIN parent /\ Tied(x, edge[1])
    /\ pc = "second" => /\ {edge[1], edge[2]} \subseteq DOMAIN parent
                        /\ Tied(first, edge[1]) /\ Tied(x, edge[2])

\* Groups are named by roots and hold nodes tied to them; whoever left the queue is in one.
PlacedInv ==
    /\ pc = "place" => Tied(x, node)
    /\ \A r \in DOMAIN groups : parent[r] = r /\ \A n \in groups[r] : Tied(r, n)
    /\ pc \in {"next", "place", "done"} =>
          \A n \in DOMAIN parent \ queue :
             (pc = "place" /\ n = node) \/ \E r \in DOMAIN groups : n \in groups[r]
    /\ pc \notin {"next", "place", "done"} => DOMAIN groups = {}
    /\ pc = "done" => /\ queue = {}
                      /\ circles = {groups[r] : r \in {s \in DOMAIN groups : LargeEnough(groups[s])}}

LEMMA TiedRefl == ASSUME NEW a PROVE Tied(a, a)
    BY DEF Tied

LEMMA TiedSym == ASSUME NEW a, NEW b, Tied(a, b) PROVE Tied(b, a)
    BY DEF Tied

LEMMA TiedTrans == ASSUME NEW a, NEW b, NEW c, Tied(a, b), Tied(b, c) PROVE Tied(a, c)
    BY DEF Tied

\* A node is tied to what it points to.
LEMMA TiedPointer == ASSUME NEW n \in DOMAIN parent PROVE Tied(n, parent[n])
    BY DEF Tied, Sealed

\* A node that is seen points to itself, which crosses no border.
LEMMA SealedSeen ==
    ASSUME NEW n, parent' = Seen(n), NEW S
    PROVE  Sealed(S)' <=> Sealed(S)
    BY DEF Sealed, Seen

\* Halving goes round a node of the same side.
LEMMA SealedHalve ==
    ASSUME TypeOK, NEW n \in DOMAIN parent, parent' = Halve(n), NEW S
    PROVE  Sealed(S)' <=> Sealed(S)
<1>1. DOMAIN parent' = DOMAIN parent /\ \A m \in DOMAIN parent : parent[m] \in DOMAIN parent
    BY DEF Halve, TypeOK
<1>2. /\ parent'[n] = parent[parent[n]]
      /\ \A m \in DOMAIN parent \ {n} : parent'[m] = parent[m]
    BY DEF Halve
<1>3. ASSUME Sealed(S) PROVE Sealed(S)'
    <2>1. \A m \in DOMAIN parent : m \in S <=> parent[m] \in S
        BY <1>3 DEF Sealed
    <2>2. n \in S <=> parent'[n] \in S
        BY <1>1, <1>2, <2>1
    <2> QED
        BY <1>1, <1>2, <2>1, <2>2 DEF Sealed
<1>4. ASSUME Sealed(S)' PROVE Sealed(S)
    <2>1. \A m \in DOMAIN parent : m \in S <=> parent'[m] \in S
        BY <1>1, <1>4 DEF Sealed
    <2>2. n \in S <=> parent[n] \in S
        <3>1. CASE parent[n] = n
            BY <3>1
        <3>2. CASE parent[n] # n
            BY <1>1, <1>2, <2>1, <3>2
        <3> QED
            BY <3>1, <3>2
    <2> QED
        BY <1>2, <2>1, <2>2 DEF Sealed
<1> QED
    BY <1>3, <1>4

\* Linking two roots asks one thing more of a set: that it does not part them.
LEMMA SealedLink ==
    ASSUME NEW a \in DOMAIN parent, NEW b \in DOMAIN parent, parent[a] = a, parent[b] = b,
           parent' = Link(a, b), NEW S
    PROVE  Sealed(S)' <=> Sealed(S) /\ (a \in S <=> b \in S)
<1> DEFINE l == Larger(a, b)
           s == Smaller(a, b)
<1>1. l \in DOMAIN parent /\ parent[l] = l /\ {l, s} = {a, b}
    BY LarSm
<1>2. /\ DOMAIN parent' = DOMAIN parent /\ parent'[l] = s
      /\ \A m \in DOMAIN parent \ {l} : parent'[m] = parent[m]
    BY <1>1 DEF Link
<1>3. (l \in S <=> s \in S) <=> (a \in S <=> b \in S)
    <2> HIDE DEF l, s
    <2> QED
        BY <1>1
<1> HIDE DEF l, s
<1> QED
    BY <1>1, <1>2, <1>3 DEF Sealed

LEMMA TiedStays ==
    ASSUME \A S \in SUBSET Node : Sealed(S)' <=> Sealed(S), NEW a, NEW b
    PROVE  Tied(a, b)' <=> Tied(a, b)
    BY DEF Tied

\* No step takes a tie away.
LEMMA SealedStep ==
    ASSUME TypeOK, PointersDown, [Next]_vars, NEW S, Sealed(S)'
    PROVE  Sealed(S)
<1>1. CASE TakeEdge \/ FoundFirst
    BY <1>1, SealedSeen DEF TakeEdge, FoundFirst
<1>2. CASE Follow
    BY <1>2, SealedHalve DEF Follow, TypeOK
<1>3. CASE FoundSecond
    <2>1. /\ first \in DOMAIN parent /\ x \in DOMAIN parent /\ parent[first] = first
          /\ parent[x] = x /\ parent' = Link(first, x)
        BY <1>3 DEF FoundSecond, TypeOK, PointersDown
    <2> QED
        BY <2>1, SealedLink
<1>4. CASE AllTaken \/ TakeNode \/ FoundRoot \/ Return \/ UNCHANGED vars
    <2>1. parent' = parent
        BY <1>4 DEF AllTaken, TakeNode, FoundRoot, Return, vars
    <2> QED
        BY <2>1 DEF Sealed
<1> QED
    BY <1>1, <1>2, <1>3, <1>4 DEF Next

LEMMA TiedStep ==
    ASSUME TypeOK, PointersDown, [Next]_vars
    PROVE  \A a, b : Tied(a, b) => Tied(a, b)'
    BY SealedStep DEF Tied

LEMMA NoEdgeIsNone == NoEdge \notin Edges
    BY EdgeEnds

LEMMA EdgesStay == [Next]_vars => Edges' = Edges
    BY CountStays DEF Edges

LEMMA TakenStep == TypeOK /\ PointersDown /\ TakenInv /\ [Next]_vars => TakenInv'
<1> SUFFICES ASSUME TypeOK, PointersDown, TakenInv, [Next]_vars PROVE TakenInv'
    OBVIOUS
<1>0. /\ Edges' = Edges /\ todo \subseteq Edges
      /\ \A a, b : Tied(a, b) => Tied(a, b)'
      /\ \A a : Tied(a, a)'
    BY EdgesStay, TiedStep, TiedRefl DEF TypeOK
<1>1. ASSUME /\ Taken' = Taken /\ DOMAIN parent \subseteq DOMAIN parent'
             /\ \A n \in DOMAIN parent' \ DOMAIN parent : \E e \in Edges : n \in {e[1], e[2]}
      PROVE  /\ \A e \in Taken' : {e[1], e[2]} \subseteq DOMAIN parent' /\ Tied(e[1], e[2])'
             /\ \A n \in DOMAIN parent' : \E e \in Edges' : n \in {e[1], e[2]}
    BY <1>0, <1>1 DEF TakenInv
<1>2. CASE TakeEdge
    <2>1. PICK e \in todo : edge' = e /\ x' = e[1] /\ parent' = Seen(e[1]) /\ todo' = todo \ {e}
        BY <1>2 DEF TakeEdge
    <2>2. e \in Edges /\ edge = NoEdge /\ pc' = "first"
        BY <1>0, <1>2, <2>1 DEF TakeEdge, TakenInv
    <2>3. Taken' = Taken
        BY <1>0, <2>1, <2>2, NoEdgeIsNone DEF Taken
    <2>4. DOMAIN parent' = DOMAIN parent \cup {e[1]}
        BY <2>1, SeenFacts
    <2>5. Tied(x, edge[1])'
        BY <1>0, <2>1
    <2> QED
        BY <1>1, <2>1, <2>2, <2>3, <2>4, <2>5 DEF TakenInv
<1>3. CASE Follow
    <2>1. /\ DOMAIN parent' = DOMAIN parent /\ UNCHANGED <<pc, todo, edge, first>>
          /\ x \in DOMAIN parent /\ x' = parent[parent[x]] /\ parent[x] \in DOMAIN parent
        BY <1>3 DEF Follow, Halve, TypeOK
    <2>2. Taken' = Taken
        BY <1>0, <2>1 DEF Taken
    <2>3. Tied(x', x)
        BY <2>1, TiedPointer, TiedTrans, TiedSym
    <2>4. \A n : Tied(x, n) => Tied(x', n)
        BY <2>3, TiedTrans
    <2>5. pc = "first" => Tied(x, edge[1])'
        BY <1>0, <2>1, <2>4 DEF TakenInv
    <2>6. pc = "second" => Tied(first, edge[1])' /\ Tied(x, edge[2])'
        BY <1>0, <2>1, <2>4 DEF TakenInv
    <2> QED
        BY <1>1, <2>1, <2>2, <2>5, <2>6 DEF TakenInv
<1>4. CASE FoundFirst
    <2>1. /\ parent' = Seen(edge[2]) /\ first' = x /\ x' = edge[2] /\ pc' = "second"
          /\ UNCHANGED <<todo, edge>> /\ pc = "first" /\ edge \in Edges
        BY <1>4 DEF FoundFirst, TypeOK
    <2>2. Taken' = Taken
        BY <1>0, <2>1 DEF Taken
    <2>3. DOMAIN parent' = DOMAIN parent \cup {edge[2]}
        BY <2>1, SeenFacts
    <2>4. Tied(first, edge[1])' /\ Tied(x, edge[2])'
        BY <1>0, <2>1 DEF TakenInv
    <2> QED
        BY <1>1, <2>1, <2>2, <2>3, <2>4 DEF TakenInv
<1>5. CASE FoundSecond
    <2>1. /\ first \in DOMAIN parent /\ x \in DOMAIN parent /\ parent[first] = first
          /\ parent[x] = x /\ parent' = Link(first, x) /\ edge \in Edges
          /\ pc = "second" /\ pc' = "take" /\ edge' = NoEdge /\ todo' = todo
        BY <1>5 DEF FoundSecond, TypeOK, PointersDown
    <2>2. Taken' \subseteq Taken \cup {edge}
        BY <1>0, <2>1 DEF Taken
    <2>3. DOMAIN parent' = DOMAIN parent
        BY <2>1 DEF Link
    <2>4. \A S : Sealed(S)' => (first \in S <=> x \in S)
        BY <2>1, SealedLink
    <2>5. PICK e \in Edges : e = edge
        BY <2>1
    <2>6. Tied(e[1], e[2])'
        <3>1. Tied(first, e[1]) /\ Tied(x, e[2])
            BY <2>1, <2>5 DEF TakenInv
        <3>2. \A S : Sealed(S)' => Sealed(S)
            BY SealedStep
        <3>3. \A S \in SUBSET Node : Sealed(S)' => (e[1] \in S <=> e[2] \in S)
            BY <2>4, <3>1, <3>2 DEF Tied
        <3> QED
            BY <3>3 DEF Tied
    <2>7. \A f \in Taken' : {f[1], f[2]} \subseteq DOMAIN parent' /\ Tied(f[1], f[2])'
        BY <1>0, <2>1, <2>2, <2>3, <2>5, <2>6 DEF TakenInv
    <2>8. edge' \notin todo'
        BY <1>0, <2>1, NoEdgeIsNone
    <2> QED
        BY <1>0, <2>1, <2>3, <2>7, <2>8 DEF TakenInv
<1>6. CASE AllTaken \/ TakeNode \/ FoundRoot \/ Return
    <2>1. /\ parent' = parent /\ todo' = todo /\ edge' = edge
          /\ pc' \notin {"first", "second"}
          /\ pc \notin {"first", "second"} /\ (pc \in {"next", "place", "done"} \/ todo = {})
        BY <1>6 DEF AllTaken, TakeNode, FoundRoot, Return
    <2>2. Taken' = Taken
        BY <1>0, <2>1 DEF Taken
    <2> QED
        BY <1>1, <2>1, <2>2 DEF TakenInv
<1>7. CASE UNCHANGED vars
    <2>1. UNCHANGED <<parent, todo, edge, pc, x, first>>
        BY <1>7 DEF vars
    <2>2. Taken' = Taken
        BY <1>0, <2>1 DEF Taken
    <2>3. \A a, b : Tied(a, b)' <=> Tied(a, b)
        BY <2>1 DEF Tied, Sealed
    <2> QED
        BY <1>1, <2>1, <2>2, <2>3 DEF TakenInv
<1> QED
    BY <1>2, <1>3, <1>4, <1>5, <1>6, <1>7 DEF Next

LEMMA PlacedStep == TypeOK /\ PointersDown /\ TakenInv /\ PlacedInv /\ [Next]_vars => PlacedInv'
<1> SUFFICES ASSUME TypeOK, PointersDown, TakenInv, PlacedInv, [Next]_vars PROVE PlacedInv'
    OBVIOUS
<1>0. /\ \A a, b : Tied(a, b) => Tied(a, b)'
      /\ \A a : Tied(a, a)'
      /\ DOMAIN groups \subseteq DOMAIN parent
    BY TiedStep, TiedRefl DEF TypeOK
<1>1. CASE TakeEdge \/ FoundFirst \/ FoundSecond
    <2>1. DOMAIN groups' = {} /\ pc' \notin {"next", "place", "done"}
        BY <1>1 DEF TakeEdge, FoundFirst, FoundSecond, PlacedInv
    <2> QED
        BY <2>1 DEF PlacedInv
<1>2. CASE Follow
    <2>1. /\ x \in DOMAIN parent /\ parent[x] # x /\ x' = parent[parent[x]]
          /\ parent' = Halve(x) /\ DOMAIN parent' = DOMAIN parent
          /\ UNCHANGED <<pc, groups, queue, node>> /\ parent[x] \in DOMAIN parent
        BY <1>2 DEF Follow, Halve, TypeOK
    <2>2. \A r \in DOMAIN parent : parent[r] = r => parent'[r] = r
        BY <2>1 DEF Halve
    <2>3. Tied(x', x)
        BY <2>1, TiedPointer, TiedTrans, TiedSym
    <2>4. \A n : Tied(x, n) => Tied(x', n)
        BY <2>3, TiedTrans
    <2>5. pc' = "place" => Tied(x, node)'
        BY <1>0, <2>1, <2>4 DEF PlacedInv
    <2>6. \A r \in DOMAIN groups' : parent'[r] = r /\ \A n \in groups'[r] : Tied(r, n)'
        BY <1>0, <2>1, <2>2 DEF PlacedInv
    <2>7. pc # "done"
        BY <1>2 DEF Follow
    <2> QED
        BY <2>1, <2>5, <2>6, <2>7 DEF PlacedInv
<1>3. CASE AllTaken
    <2>1. DOMAIN groups' = {} /\ queue' = DOMAIN parent' /\ pc' = "next"
        BY <1>3 DEF AllTaken, PlacedInv
    <2> QED
        BY <2>1 DEF PlacedInv
<1>4. CASE TakeNode
    <2>1. PICK n \in queue : node' = n /\ x' = n /\ queue' = queue \ {n}
        BY <1>4 DEF TakeNode
    <2>2. pc = "next" /\ pc' = "place" /\ parent' = parent /\ groups' = groups
        BY <1>4 DEF TakeNode
    <2>3. Tied(x, node)'
        BY <1>0, <2>1
    <2>4. \A r \in DOMAIN groups' : parent'[r] = r /\ \A m \in groups'[r] : Tied(r, m)'
        BY <1>0, <2>2 DEF PlacedInv
    <2> QED
        BY <2>1, <2>2, <2>3, <2>4 DEF PlacedInv
<1>5. CASE FoundRoot
    <2>1. /\ pc = "place" /\ pc' = "next" /\ parent[x] = x /\ parent' = parent
          /\ groups' = Placed(node, x) /\ queue' = queue
        BY <1>5 DEF FoundRoot
    <2>2. \A n \in DOMAIN parent' \ queue' : \E r \in DOMAIN groups' : n \in groups'[r]
        <3>1. SUFFICES ASSUME NEW n \in DOMAIN parent \ queue
                       PROVE  \E r \in DOMAIN groups' : n \in groups'[r]
            BY <2>1
        <3>2. CASE n = node
            <4>1. x \in DOMAIN groups' /\ node \in groups'[x]
                BY <2>1 DEF Placed
            <4> QED
                BY <3>2, <4>1
        <3>3. CASE n # node
            <4>1. PICK r \in DOMAIN groups : n \in groups[r]
                BY <2>1, <3>3 DEF PlacedInv
            <4>2. r \in DOMAIN groups' /\ n \in groups'[r]
                BY <2>1, <4>1 DEF Placed
            <4> QED
                BY <4>2
        <3> QED
            BY <3>2, <3>3
    <2>3. \A r \in DOMAIN groups' : parent[r] = r /\ \A n \in groups'[r] : Tied(r, n)
        BY <2>1 DEF Placed, PlacedInv
    <2>4. \A r \in DOMAIN groups' : parent'[r] = r /\ \A n \in groups'[r] : Tied(r, n)'
        BY <1>0, <2>1, <2>3
    <2> QED
        BY <2>1, <2>2, <2>4 DEF PlacedInv
<1>6. CASE Return
    <2>1. /\ pc = "next" /\ pc' = "done" /\ queue = {}
          /\ UNCHANGED <<parent, groups, queue>>
          /\ circles' = {groups[r] : r \in {s \in DOMAIN groups : LargeEnough(groups[s])}}
        BY <1>6 DEF Return
    <2>2. \A S : LargeEnough(S)' <=> LargeEnough(S)
        BY DEF LargeEnough
    <2>3. circles' = {groups[r] : r \in {s \in DOMAIN groups : LargeEnough(groups[s])}}'
        BY <2>1, <2>2 DEF LargeEnough
    <2>4. \A r \in DOMAIN groups' : parent'[r] = r /\ \A n \in groups'[r] : Tied(r, n)'
        BY <1>0, <2>1 DEF PlacedInv
    <2> QED
        BY <2>1, <2>3, <2>4 DEF PlacedInv
<1>7. CASE UNCHANGED vars
    <2>1. UNCHANGED <<parent, pc, x, node, queue, groups, circles>>
        BY <1>7 DEF vars
    <2>2. \A a, b : Tied(a, b)' <=> Tied(a, b)
        BY <2>1 DEF Tied, Sealed
    <2> QED
        BY <2>1, <2>2 DEF PlacedInv, LargeEnough
<1> QED
    BY <1>1, <1>2, <1>3, <1>4, <1>5, <1>6, <1>7 DEF Next

-----------------------------------------------------------------------------
(* Two roots are never tied: the nodes that lead to one of them form a     *)
(* sealed set without the other.  Whoever leads to r is in every set that  *)
(* has r and, with a node, whoever points to it.                           *)

LeadsIn(r, T) ==
    /\ T \subseteq DOMAIN parent /\ r \in T
    /\ \A m \in DOMAIN parent : parent[m] \in T => m \in T

Followers(r) == {m \in DOMAIN parent : \A T \in SUBSET DOMAIN parent : LeadsIn(r, T) => m \in T}

LEMMA RootsApart ==
    ASSUME TypeOK, NEW r \in DOMAIN parent, NEW s \in DOMAIN parent,
           parent[r] = r, parent[s] = s, Tied(r, s)
    PROVE  r = s
<1> DEFINE F == Followers(r)
<1>1. LeadsIn(r, F)
    BY DEF Followers, LeadsIn
<1>2. ASSUME NEW m \in F PROVE parent[m] \in F
    <2>1. SUFFICES ASSUME parent[m] \notin F PROVE FALSE
        OBVIOUS
    <2>2. m # r /\ m \in DOMAIN parent
        BY <1>1, <2>1 DEF LeadsIn
    <2>3. LeadsIn(r, F \ {m})
        BY <1>1, <2>1, <2>2 DEF LeadsIn
    <2>4. m \in F \ {m}
        BY <1>2, <2>3 DEF Followers, LeadsIn
    <2> QED
        BY <2>4
<1>3. Sealed(F) /\ F \subseteq Node
    <2>1. DOMAIN parent \subseteq Node
        BY DEF TypeOK
    <2> QED
        BY <1>1, <1>2, <2>1 DEF Sealed, LeadsIn
<1>4. r \in F
    BY <1>1 DEF LeadsIn
<1>5. s \in F
    BY <1>3, <1>4 DEF Tied
<1>6. ASSUME r # s PROVE FALSE
    <2>1. LeadsIn(r, DOMAIN parent \ {s})
        BY <1>6 DEF LeadsIn
    <2> QED
        BY <1>5, <2>1 DEF Followers
<1> QED
    BY <1>6

-----------------------------------------------------------------------------
(* The result.                                                             *)

MapInv == CirclesInv /\ TakenInv /\ PlacedInv

LEMMA MapInit == Init => MapInv
<1> SUFFICES ASSUME Init PROVE MapInv
    OBVIOUS
<1>1. CirclesInv
    BY CirclesInit
<1>2. Taken = {} /\ NoEdge \notin todo /\ edge = NoEdge
    BY NoEdgeIsNone DEF Init, Taken
<1>3. DOMAIN parent = {} /\ DOMAIN groups = {} /\ pc = "take"
    BY DEF Init
<1> QED
    BY <1>1, <1>2, <1>3 DEF MapInv, TakenInv, PlacedInv

LEMMA MapStep == MapInv /\ [Next]_vars => MapInv'
    BY CirclesStep, TakenStep, PlacedStep DEF MapInv, CirclesInv

LEMMA MapInvariance == Spec => []MapInv
    BY MapInit, MapStep, PTL DEF Spec

\* When every node is placed, two nodes in groups that are tied are in one.
LEMMA GroupsApart ==
    ASSUME MapInv, NEW r \in DOMAIN groups, NEW s \in DOMAIN groups,
           NEW m \in groups[r], NEW n \in groups[s], Tied(m, n)
    PROVE  r = s
<1>1. /\ Tied(r, m) /\ Tied(s, n) /\ parent[r] = r /\ parent[s] = s
      /\ r \in DOMAIN parent /\ s \in DOMAIN parent
    BY DEF MapInv, CirclesInv, PlacedInv, TypeOK
<1>2. Tied(r, s)
    BY <1>1, TiedTrans, TiedSym
<1> QED
    BY <1>1, <1>2, RootsApart DEF MapInv, CirclesInv

\* At the end a group is a component: all that is connected to any of its members.
LEMMA GroupIsComponent ==
    ASSUME MapInv, pc = "done", NEW r \in DOMAIN groups, NEW m \in groups[r]
    PROVE  groups[r] = {n \in Node : Connected(m, n)}
<1>1. /\ groups[r] \subseteq Node /\ todo = {} /\ edge = NoEdge
      /\ \A n \in DOMAIN parent : \E s \in DOMAIN groups : n \in groups[s]
    BY DEF MapInv, CirclesInv, TakenInv, PlacedInv, TypeOK
<1>2. \A n \in groups[r] : Connected(m, n)
    BY DEF MapInv, CirclesInv, BondInv, Bond, Connected
<1>3. Closed(groups[r])
    <2>1. SUFFICES ASSUME NEW e \in Edges PROVE e[1] \in groups[r] <=> e[2] \in groups[r]
        BY DEF Closed
    <2>2. {e[1], e[2]} \subseteq DOMAIN parent /\ Tied(e[1], e[2])
        BY <1>1, NoEdgeIsNone DEF MapInv, TakenInv, Taken
    <2>3. PICK s \in DOMAIN groups : e[1] \in groups[s]
        BY <1>1, <2>2
    <2>4. PICK t \in DOMAIN groups : e[2] \in groups[t]
        BY <1>1, <2>2
    <2>5. s = t
        BY <2>2, <2>3, <2>4, GroupsApart
    <2>6. e[1] \in groups[r] => r = t
        BY <2>2, <2>4, GroupsApart
    <2>7. e[2] \in groups[r] => s = r
        BY <2>2, <2>3, GroupsApart
    <2> QED
        BY <2>3, <2>4, <2>5, <2>6, <2>7
<1>4. \A n \in Node : Connected(m, n) => n \in groups[r]
    BY <1>1, <1>3 DEF Connected
<1> QED
    BY <1>1, <1>2, <1>4

LEMMA MapComponents == MapInv => CirclesAreComponents
<1> SUFFICES ASSUME MapInv, pc = "done" PROVE circles = {C \in Components : Cardinality(C) >= MinSize}
    BY DEF CirclesAreComponents
<1>1. /\ circles = {groups[r] : r \in {s \in DOMAIN groups : LargeEnough(groups[s])}}
      /\ \A n \in DOMAIN parent : \E s \in DOMAIN groups : n \in groups[s]
      /\ \A s \in DOMAIN groups : s \in DOMAIN parent /\ parent[s] = s
    BY DEF MapInv, CirclesInv, PlacedInv, TypeOK
<1>2. ASSUME NEW r \in DOMAIN groups PROVE groups[r] \in Components
    <2>1. PICK s \in DOMAIN groups : r \in groups[s]
        BY <1>1
    <2>2. Tied(s, r)
        BY <2>1 DEF MapInv, PlacedInv
    <2>3. r = s
        BY <1>1, <2>2, RootsApart DEF MapInv, CirclesInv
    <2>4. groups[r] = {n \in Node : Connected(r, n)}
        BY <2>1, <2>3, GroupIsComponent
    <2>5. \E e \in Edges : r \in {e[1], e[2]}
        BY <1>1 DEF MapInv, TakenInv
    <2> QED
        BY <2>4, <2>5 DEF Components
<1>3. ASSUME NEW C \in Components PROVE \E r \in DOMAIN groups : C = groups[r]
    <2>1. PICK m \in UNION {{e[1], e[2]} : e \in Edges} : C = {n \in Node : Connected(m, n)}
        BY DEF Components
    <2>2. PICK e \in Edges : m \in {e[1], e[2]}
        BY <2>1
    <2>3. todo = {} /\ edge = NoEdge
        BY DEF MapInv, TakenInv
    <2>4. m \in DOMAIN parent
        BY <2>2, <2>3, NoEdgeIsNone DEF MapInv, TakenInv, Taken
    <2>5. PICK r \in DOMAIN groups : m \in groups[r]
        BY <1>1, <2>4
    <2> QED
        BY <2>1, <2>5, GroupIsComponent
<1> QED
    BY <1>1, <1>2, <1>3 DEF LargeEnough

\* The circles find_circles returns are all components of the graph that have the size,
\* and nothing else, for every graph and every order the nodes were seen in.
THEOREM CirclesExact == Spec => []CirclesAreComponents
    BY MapInvariance, MapComponents, PTL

-----------------------------------------------------------------------------
(* Refinement: pointers implement blocks that are merged.                  *)

Block(n) == {m \in Node : Tied(m, n)}

Left == todo \cup (IF edge = NoEdge THEN {} ELSE {edge})

LEMMA BlocksAre == Blocks = {Block(n) : n \in Node}
    BY DEF Blocks, Block

LEMMA BlockHas == ASSUME NEW n \in Node PROVE n \in Block(n)
    BY TiedRefl DEF Block

LEMMA BlockSame ==
    ASSUME NEW n \in Node, NEW m \in Block(n)
    PROVE  Block(m) = Block(n)
    BY TiedSym, TiedTrans DEF Block

\* Pointers stay in a block.
LEMMA BlockSealed ==
    ASSUME TypeOK, NEW n \in Node
    PROVE  Sealed(Block(n))
<1>1. SUFFICES ASSUME NEW m \in DOMAIN parent PROVE m \in Block(n) <=> parent[m] \in Block(n)
    BY DEF Sealed
<1>2. Tied(m, parent[m]) /\ m \in Node /\ parent[m] \in Node
    BY TiedPointer DEF TypeOK
<1> QED
    BY <1>2, TiedSym, TiedTrans DEF Block

\* Where no border opens or closes, the blocks stay.
LEMMA BlocksStay ==
    ASSUME \A S \in SUBSET Node : Sealed(S)' <=> Sealed(S)
    PROVE  Blocks' = Blocks
<1>1. \A m, n : Tied(m, n)' <=> Tied(m, n)
    BY DEF Tied
<1> QED
    BY <1>1 DEF Blocks

\* Linking the roots of an edge merges the blocks of its ends.
LEMMA LinkMerges ==
    ASSUME MapInv, FoundSecond
    PROVE  Merge!Take(edge)
<1>1. /\ TypeOK /\ TakenInv /\ edge \in Edges /\ edge[1] \in Node /\ edge[2] \in Node
      /\ edge # NoEdge /\ edge' = NoEdge /\ todo' = todo /\ edge \notin todo
      /\ first \in DOMAIN parent /\ x \in DOMAIN parent
      /\ parent[first] = first /\ parent[x] = x /\ parent' = Link(first, x)
      /\ Tied(first, edge[1]) /\ Tied(x, edge[2])
    BY EdgeEnds DEF MapInv, CirclesInv, TypeOK, PointersDown, TakenInv, FoundSecond
<1>2. PICK a \in Node, b \in Node : a = edge[1] /\ b = edge[2]
    BY <1>1
<1>u. PICK U : U = Block(a) \cup Block(b)
    OBVIOUS
<1>3. \A S \in SUBSET Node : Sealed(S)' <=> Sealed(S) /\ (a \in S <=> b \in S)
    <2>1. ASSUME NEW S \in SUBSET Node PROVE Sealed(S)' <=> Sealed(S) /\ (a \in S <=> b \in S)
        <3>1. Sealed(S)' <=> Sealed(S) /\ (first \in S <=> x \in S)
            BY <1>1, SealedLink
        <3> QED
            BY <1>1, <1>2, <3>1 DEF Tied
    <2> QED
        BY <2>1
<1>4. Sealed(U)' /\ a \in U /\ b \in U /\ U \subseteq Node
    <2>1. Sealed(Block(a)) /\ Sealed(Block(b)) /\ a \in Block(a) /\ b \in Block(b) /\ U \subseteq Node
        BY <1>1, <1>u, BlockSealed, BlockHas DEF Block
    <2>2. Sealed(U)
        BY <1>u, <2>1 DEF Sealed
    <2> QED
        BY <1>3, <1>u, <2>1, <2>2
<1>5. \A m, n \in Node : Tied(m, n) => (m \in U <=> n \in U)
    BY <1>u, TiedSym, TiedTrans DEF Block
<1>6. ASSUME NEW m \in Node, NEW n \in Node
      PROVE  Tied(m, n)' <=> Tied(m, n) \/ (m \in U /\ n \in U)
    <2>1. ASSUME Tied(m, n) PROVE Tied(m, n)'
        BY <1>3, <2>1 DEF Tied
    <2>2. ASSUME m \in U, n \in U PROVE Tied(m, n)'
        <3>1. SUFFICES ASSUME NEW S \in SUBSET Node, Sealed(S)' PROVE m \in S <=> n \in S
            BY DEF Tied
        <3>2. Sealed(S) /\ (a \in S <=> b \in S)
            BY <1>3, <3>1
        <3>3. (m \in S <=> a \in S) /\ (n \in S <=> a \in S)
            BY <1>u, <2>2, <3>2 DEF Block, Tied
        <3> QED
            BY <3>3
    <2>3. ASSUME Tied(m, n)', m \in U PROVE n \in U
        BY <1>4, <2>3 DEF Tied
    <2>4. ASSUME Tied(m, n)', m \notin U PROVE Tied(m, n)
        <3>1. PICK B : B = Block(m)
            OBVIOUS
        <3>2. a \notin B /\ b \notin B /\ B \subseteq Node
            BY <1>u, <2>4, <3>1, TiedSym DEF Block
        <3>3. Sealed(B)'
            BY <1>1, <1>3, <3>1, <3>2, BlockSealed
        <3>4. n \in B
            BY <2>4, <3>1, <3>2, <3>3, BlockHas DEF Tied
        <3> QED
            BY <3>1, <3>4, TiedSym DEF Block
    <2> QED
        BY <2>1, <2>2, <2>3, <2>4
<1>7. \A n \in Node : {m \in Node : Tied(m, n)'} = IF n \in U THEN U ELSE Block(n)
    BY <1>4, <1>5, <1>6 DEF Block
<1>8. Blocks' = {IF n \in U THEN U ELSE Block(n) : n \in Node}
    BY <1>7 DEF Blocks
<1>9. Merge!Touched(edge) = {Block(a), Block(b)}
    <2>1. Merge!Touched(edge) = {c \in Blocks : a \in c \/ b \in c}
        BY <1>2 DEF Merge!Touched
    <2>2. \A n \in Node : a \in Block(n) => Block(n) = Block(a)
        BY BlockSame
    <2>3. \A n \in Node : b \in Block(n) => Block(n) = Block(b)
        BY BlockSame
    <2> QED
        BY <2>1, <2>2, <2>3, BlocksAre, BlockHas
<1>10. \A n \in Node : n \in U <=> Block(n) \in {Block(a), Block(b)}
    BY <1>u, BlockSame, BlockHas
<1>11. Blocks' = (Blocks \ {Block(a), Block(b)}) \cup {U}
    BY <1>4, <1>8, <1>10, BlocksAre
<1>12. Left' = Left \ {edge}
    BY <1>1 DEF Left
<1> QED
    BY <1>9, <1>11, <1>12, <1>u DEF Merge!Take, Left

\* Every other step leaves the blocks and the edges that are left.
LEMMA OthersStutter ==
    ASSUME MapInv, [Next]_vars, ~FoundSecond
    PROVE  Left' = Left /\ Blocks' = Blocks
<1>1. TypeOK /\ TakenInv
    BY DEF MapInv, CirclesInv
<1>2. CASE TakeEdge
    <2>1. PICK e \in todo : edge' = e /\ todo' = todo \ {e} /\ parent' = Seen(e[1])
        BY <1>2 DEF TakeEdge
    <2>2. edge = NoEdge /\ e # NoEdge
        BY <1>1, <1>2, <2>1, NoEdgeIsNone DEF TakeEdge, TakenInv, TypeOK
    <2>3. Left' = Left
        BY <2>1, <2>2 DEF Left
    <2> QED
        BY <2>1, <2>3, SealedSeen, BlocksStay
<1>3. CASE Follow
    BY <1>1, <1>3, SealedHalve, BlocksStay DEF Follow, Left, TypeOK
<1>4. CASE FoundFirst
    BY <1>4, SealedSeen, BlocksStay DEF FoundFirst, Left
<1>5. CASE AllTaken \/ TakeNode \/ FoundRoot \/ Return \/ UNCHANGED vars
    <2>1. parent' = parent /\ todo' = todo /\ edge' = edge
        BY <1>5 DEF AllTaken, TakeNode, FoundRoot, Return, vars
    <2>2. \A S : Sealed(S)' <=> Sealed(S)
        BY <2>1 DEF Sealed
    <2> QED
        BY <2>1, <2>2, BlocksStay DEF Left
<1> QED
    BY <1>2, <1>3, <1>4, <1>5 DEF Next

LEMMA MergeInit == Init => Merge!Init
<1> SUFFICES ASSUME Init PROVE Merge!Init
    OBVIOUS
<1>1. todo = Edges /\ edge = NoEdge /\ DOMAIN parent = {}
    BY DEF Init
<1>2. \A S : Sealed(S)
    BY <1>1 DEF Sealed
<1>3. \A m, n \in Node : Tied(m, n) <=> m = n
    <2>1. ASSUME NEW m \in Node, NEW n \in Node, Tied(m, n) PROVE m = n
        <3>1. {n} \in SUBSET Node
            OBVIOUS
        <3>2. m \in {n}
            BY <1>2, <2>1, <3>1 DEF Tied
        <3> QED
            BY <3>2
    <2> QED
        BY <2>1, TiedRefl
<1>4. Blocks = {{n} : n \in Node}
    <2>1. \A n \in Node : {m \in Node : Tied(m, n)} = {n}
        BY <1>3
    <2> QED
        BY <2>1 DEF Blocks
<1>5. Edges \subseteq Pair
    BY DEF Edges
<1> QED
    BY <1>1, <1>4, <1>5 DEF Merge!Init

LEMMA MergeStep == MapInv /\ [Next]_vars => [Merge!Next]_<<Left, Blocks>>
<1> SUFFICES ASSUME MapInv, [Next]_vars PROVE Merge!Next \/ UNCHANGED <<Left, Blocks>>
    OBVIOUS
<1>1. CASE FoundSecond
    <2>1. edge \in Left
        BY <1>1, EdgeEnds DEF FoundSecond, Left, MapInv, CirclesInv, TypeOK
    <2> QED
        BY <1>1, <2>1, LinkMerges DEF Merge!Next, Left
<1>2. CASE ~FoundSecond
    BY <1>2, OthersStutter
<1> QED
    BY <1>1, <1>2

\* Union-find with path halving implements merging the blocks of an edge's ends: halving
\* changes no block, and an edge is taken when its roots are linked.
THEOREM ImplementsMerging == Spec => MergeSpec
<1>1. MapInv /\ [Next]_vars => [Merge!Next]_<<todo \cup (IF edge = NoEdge THEN {} ELSE {edge}), Blocks>>
    BY MergeStep DEF Left
<1> QED
    BY MapInvariance, MergeInit, <1>1, PTL DEF Spec, MergeSpec, Merge!Spec

-----------------------------------------------------------------------------
(* Why find returns: every round of its loop is at a smaller person.       *)

FindAdvances == [][Follow => x' < x]_vars

\* The loop of find goes on to smaller people only, although halving moves the pointers
\* it follows, so it has at most as many rounds as there are people.
THEOREM FindIsBounded == Spec => FindAdvances
<1>1. MapInv /\ [Next]_vars => [Follow => x' < x]_vars
    <2>1. SUFFICES ASSUME MapInv, Follow PROVE x' < x
        OBVIOUS
    <2>2. /\ x \in DOMAIN parent /\ parent[x] # x /\ x' = parent[parent[x]]
          /\ parent[x] \in DOMAIN parent /\ parent[parent[x]] \in DOMAIN parent
        BY <2>1 DEF Follow, Halve, MapInv, CirclesInv, TypeOK
    <2>3. DOMAIN parent \subseteq Nat /\ \A n \in DOMAIN parent : parent[n] <= n
        BY <2>1, CirclesAssumption DEF MapInv, CirclesInv, TypeOK, PointersDown
    <2> QED
        BY <2>2, <2>3
<1> QED
    BY MapInvariance, <1>1, PTL DEF Spec, FindAdvances

-----------------------------------------------------------------------------
(* Why find_circles returns.                                               *)

\* There is an edge that the sorted list has next.
HasNextEdge == todo # {} => \E e \in todo : \A f \in todo \ {e} : Before(e, f)

Finding == pc \in {"first", "second", "place"}

\* The loops of find that are still to come, and what is between them.
LoopsLeft ==
    CASE pc = "take" -> 3 * Cardinality(todo) + 2 * Cardinality(Node) + 3
      [] pc = "first" -> 3 * Cardinality(todo) + 2 * Cardinality(Node) + 5
      [] pc = "second" -> 3 * Cardinality(todo) + 2 * Cardinality(Node) + 4
      [] pc = "next" -> 2 * Cardinality(queue) + 1
      [] pc = "place" -> 2 * Cardinality(queue) + 2
      [] OTHER -> 0

Below(n) == {m \in Node : m < n}

\* A loop of find has no more rounds than there are people before the one it is at.
RoundsLeft == IF Finding THEN Cardinality(Below(x)) ELSE 0

StepsLeft == LoopsLeft * (Cardinality(Node) + 1) + RoundsLeft

CountsDown == [][StepsLeft' < StepsLeft]_vars

LEMMA LeastNat ==
    ASSUME NEW N \in SUBSET Nat, N # {}
    PROVE  \E n \in N : \A m \in N : n <= m
<1>1. PICK n \in N : \A m \in N : ~ (<<m, n>> \in OpToRel(<, Nat))
    BY WFMin, NatLessThanWellFounded
<1>2. ASSUME NEW m \in N PROVE n <= m
    <2>1. ~ (m < n) /\ m \in Nat /\ n \in Nat
        BY <1>1 DEF OpToRel
    <2> QED
        BY <2>1
<1> QED
    BY <1>2

LEMMA FirstEdge == ASSUME TypeOK PROVE HasNextEdge
<1> SUFFICES ASSUME todo # {} PROVE \E e \in todo : \A f \in todo \ {e} : Before(e, f)
    BY DEF HasNextEdge
<1>1. \A e \in todo : e \in Node \X Node /\ e[1] \in Nat /\ e[2] \in Nat
    BY CirclesAssumption DEF TypeOK, Edges, Pair
<1> DEFINE A == {e[1] : e \in todo}
<1>2. PICK a \in A : \A m \in A : a <= m
    <2>1. A \in SUBSET Nat /\ A # {}
        BY <1>1
    <2> HIDE DEF A
    <2> QED
        BY <2>1, LeastNat
<1> DEFINE B == {e[2] : e \in {f \in todo : f[1] = a}}
<1>3. PICK b \in B : \A m \in B : b <= m
    <2>1. B \in SUBSET Nat /\ B # {}
        BY <1>1
    <2> HIDE DEF B
    <2> QED
        BY <2>1, LeastNat
<1>4. PICK e \in todo : e[1] = a /\ e[2] = b
    OBVIOUS
<1>5. ASSUME NEW f \in todo \ {e} PROVE Before(e, f)
    <2>1. a <= f[1] /\ (f[1] = a => b <= f[2])
        BY <1>2, <1>3
    <2>2. e[1] # f[1] \/ e[2] # f[2]
        BY <1>1
    <2> QED
        BY <1>1, <1>4, <2>1, <2>2 DEF Before
<1> QED
    BY <1>5

LEMMA Counted ==
    ASSUME IsFiniteSet(Node), TypeOK
    PROVE  /\ Cardinality(Node) \in Nat
           /\ IsFiniteSet(todo) /\ Cardinality(todo) \in Nat
           /\ IsFiniteSet(queue) /\ Cardinality(queue) \in Nat
           /\ Cardinality(DOMAIN parent) \in Nat
           /\ Cardinality(DOMAIN parent) <= Cardinality(Node)
           /\ \A n : /\ Cardinality(Below(n)) \in Nat
                     /\ Cardinality(Below(n)) < Cardinality(Node) + 1
<1>1. IsFiniteSet(Node \X Node)
    BY FS_Product
<1>2. todo \in SUBSET (Node \X Node) /\ queue \in SUBSET Node /\ DOMAIN parent \in SUBSET Node
    BY DEF TypeOK, Edges, Pair
<1>3. IsFiniteSet(todo) /\ Cardinality(todo) \in Nat
    BY <1>1, <1>2, FS_Subset, FS_CardinalityType
<1>4. IsFiniteSet(queue) /\ Cardinality(queue) \in Nat
    BY <1>2, FS_Subset, FS_CardinalityType
<1>5. /\ Cardinality(DOMAIN parent) \in Nat
      /\ Cardinality(DOMAIN parent) <= Cardinality(Node) /\ Cardinality(Node) \in Nat
    BY <1>2, FS_Subset, FS_CardinalityType
<1>6. ASSUME NEW n
      PROVE  Cardinality(Below(n)) \in Nat /\ Cardinality(Below(n)) < Cardinality(Node) + 1
    <2>1. Below(n) \in SUBSET Node
        BY DEF Below
    <2>2. Cardinality(Below(n)) <= Cardinality(Node) /\ Cardinality(Below(n)) \in Nat
        BY <2>1, FS_Subset, FS_CardinalityType
    <2> QED
        BY <1>5, <2>2
<1> QED
    BY <1>3, <1>4, <1>5, <1>6

\* One loop less outweighs all the rounds of the next one.
LEMMA OneLoopLess ==
    ASSUME NEW M \in Nat, NEW k \in Nat, NEW l \in Nat, k < l,
           NEW r \in Nat, NEW s \in Nat, r < M
    PROVE  k * M + r < l * M + s
<1>1. (k + 1) * M <= l * M
    BY SMT
<1>2. (k + 1) * M = k * M + M /\ k * M \in Nat /\ l * M \in Nat
    BY SMT
<1> QED
    BY <1>1, <1>2

LEMMA CountsDownStep ==
    ASSUME IsFiniteSet(Node), TypeOK, PointersDown, Next
    PROVE  StepsLeft' < StepsLeft
<1>1. PICK N \in Nat, t \in Nat, q \in Nat :
         N = Cardinality(Node) /\ t = Cardinality(todo) /\ q = Cardinality(queue)
    BY Counted
<1>2. PICK b \in Nat : b = Cardinality(Below(x')) /\ b < N + 1
    BY <1>1, Counted
<1>3. /\ RoundsLeft \in Nat /\ RoundsLeft' = IF Finding' THEN b ELSE 0
      /\ RoundsLeft' \in Nat /\ RoundsLeft' < N + 1
    BY <1>1, <1>2, Counted DEF RoundsLeft, Below
<1>4. ASSUME NEW k \in Nat, NEW l \in Nat, LoopsLeft' = k, LoopsLeft = l, k < l
      PROVE  StepsLeft' < StepsLeft
    <2>1. PICK M \in Nat, r \in Nat, s \in Nat :
             M = N + 1 /\ r = RoundsLeft' /\ s = RoundsLeft
        BY <1>1, <1>3
    <2>2. StepsLeft = l * M + s /\ StepsLeft' = k * M + r
        BY <1>1, <1>4, <2>1 DEF StepsLeft
    <2>3. r < M
        BY <1>3, <2>1
    <2>4. k * M + r < l * M + s
        BY <1>4, <2>3, OneLoopLess
    <2> QED
        BY <2>2, <2>4
<1>5. CASE TakeEdge
    <2>1. PICK e \in todo : todo' = todo \ {e}
        BY <1>5 DEF TakeEdge
    <2>2. Cardinality(todo') = t - 1 /\ t - 1 \in Nat
        BY <1>1, <2>1, Counted, FS_RemoveElement, FS_EmptySet
    <2>3. pc = "take" /\ pc' = "first"
        BY <1>5 DEF TakeEdge
    <2>4. LoopsLeft = 3 * t + 2 * N + 3 /\ LoopsLeft' = 3 * (t - 1) + 2 * N + 5
        BY <1>1, <2>2, <2>3 DEF LoopsLeft
    <2> QED
        BY <1>1, <1>4, <2>2, <2>4
<1>6. CASE Follow
    <2>1. x' < x /\ x \in Nat /\ x' \in Node
        <3>1. /\ x \in DOMAIN parent /\ parent[x] # x /\ x' = parent[parent[x]]
              /\ parent[x] \in DOMAIN parent /\ parent[parent[x]] \in DOMAIN parent
            BY <1>6 DEF Follow, Halve, TypeOK
        <3>2. /\ DOMAIN parent \subseteq Nat /\ DOMAIN parent \subseteq Node
              /\ \A n \in DOMAIN parent : parent[n] <= n
            BY CirclesAssumption DEF TypeOK, PointersDown
        <3> QED
            BY <3>1, <3>2
    <2>2. Below(x') \in SUBSET Below(x) /\ x' \in Below(x) /\ x' \notin Below(x')
        <3>1. PICK y \in Nat : y = x'
            BY <2>1, CirclesAssumption
        <3>2. \A m \in Node : m \in Nat /\ (m < y => m < x)
            BY <2>1, <3>1, CirclesAssumption
        <3>3. Below(y) \in SUBSET Below(x)
            BY <3>2 DEF Below
        <3>4. y \in Node /\ y < x /\ ~(y < y)
            BY <2>1, <3>1
        <3>5. y \in Below(x) /\ y \notin Below(y)
            BY <3>4 DEF Below
        <3> QED
            BY <3>1, <3>3, <3>5
    <2>3. Cardinality(Below(x')) < Cardinality(Below(x))
        <3>1. IsFiniteSet(Below(x)) /\ Below(x) \in SUBSET Node
            BY FS_Subset DEF Below
        <3>2. /\ Cardinality(Below(x')) <= Cardinality(Below(x))
              /\ Cardinality(Below(x')) # Cardinality(Below(x))
            BY <2>2, <3>1, FS_Subset
        <3> QED
            BY <3>2, Counted
    <2>4. pc' = pc /\ Finding /\ UNCHANGED <<todo, queue>>
        BY <1>6 DEF Follow, Finding
    <2>5. PICK l \in Nat : l = LoopsLeft /\ l = LoopsLeft'
        BY <1>1, <2>4 DEF LoopsLeft, Finding
    <2>6. StepsLeft = l * (N + 1) + Cardinality(Below(x)) /\ StepsLeft' = l * (N + 1) + b
        BY <1>1, <1>2, <1>3, <2>4, <2>5 DEF StepsLeft, RoundsLeft, Finding
    <2>7. l * (N + 1) \in Nat /\ Cardinality(Below(x)) \in Nat
        BY Counted
    <2> QED
        BY <1>2, <2>3, <2>6, <2>7
<1>7. CASE FoundFirst
    <2>1. pc = "first" /\ pc' = "second" /\ todo' = todo
        BY <1>7 DEF FoundFirst
    <2>2. LoopsLeft = 3 * t + 2 * N + 5 /\ LoopsLeft' = 3 * t + 2 * N + 4
        BY <1>1, <2>1 DEF LoopsLeft
    <2> QED
        BY <1>1, <1>4, <2>2
<1>8. CASE FoundSecond
    <2>1. pc = "second" /\ pc' = "take" /\ todo' = todo
        BY <1>8 DEF FoundSecond
    <2>2. LoopsLeft = 3 * t + 2 * N + 4 /\ LoopsLeft' = 3 * t + 2 * N + 3
        BY <1>1, <2>1 DEF LoopsLeft
    <2> QED
        BY <1>1, <1>4, <2>2
<1>9. CASE AllTaken
    <2>1. pc = "take" /\ pc' = "next" /\ queue' = DOMAIN parent
        BY <1>9 DEF AllTaken
    <2>2. PICK d \in Nat : d = Cardinality(DOMAIN parent) /\ d <= N
        BY <1>1, Counted
    <2>3. LoopsLeft = 3 * t + 2 * N + 3 /\ LoopsLeft' = 2 * d + 1
        BY <1>1, <2>1, <2>2 DEF LoopsLeft
    <2> QED
        BY <1>1, <1>4, <2>2, <2>3
<1>10. CASE TakeNode
    <2>1. PICK n \in queue : queue' = queue \ {n} /\ pc = "next" /\ pc' = "place"
        BY <1>10 DEF TakeNode
    <2>2. Cardinality(queue') = q - 1 /\ q - 1 \in Nat
        BY <1>1, <2>1, Counted, FS_RemoveElement, FS_EmptySet
    <2>3. LoopsLeft = 2 * q + 1 /\ LoopsLeft' = 2 * (q - 1) + 2
        BY <1>1, <2>1, <2>2 DEF LoopsLeft
    <2> QED
        BY <1>1, <1>4, <2>2, <2>3
<1>11. CASE FoundRoot
    <2>1. pc = "place" /\ pc' = "next" /\ queue' = queue
        BY <1>11 DEF FoundRoot
    <2>2. LoopsLeft = 2 * q + 2 /\ LoopsLeft' = 2 * q + 1
        BY <1>1, <2>1 DEF LoopsLeft
    <2> QED
        BY <1>1, <1>4, <2>2
<1>12. CASE Return
    <2>1. pc = "next" /\ pc' = "done"
        BY <1>12 DEF Return
    <2>2. LoopsLeft = 2 * q + 1 /\ LoopsLeft' = 0
        BY <1>1, <2>1 DEF LoopsLeft
    <2> QED
        BY <1>1, <1>4, <2>2
<1> QED
    BY <1>5, <1>6, <1>7, <1>8, <1>9, <1>10, <1>11, <1>12 DEF Next

\* find_circles returns for any finite graph: there is always a next edge while edges are
\* left, and every step, a halved pointer included, leaves fewer steps.  Returns needs
\* nothing else but that a function that is called goes on.
THEOREM FindCirclesReturns ==
    ASSUME IsFiniteSet(Node)
    PROVE  Spec => [](HasNextEdge /\ StepsLeft \in Nat) /\ CountsDown
<1>1. ASSUME TypeOK PROVE StepsLeft \in Nat
    <2>1. /\ Cardinality(Node) \in Nat /\ Cardinality(todo) \in Nat
          /\ Cardinality(queue) \in Nat
        BY <1>1, Counted
    <2>2. LoopsLeft \in Nat
        BY <2>1 DEF LoopsLeft
    <2>3. RoundsLeft \in Nat
        BY <1>1, Counted DEF RoundsLeft
    <2> QED
        BY <2>1, <2>2, <2>3 DEF StepsLeft
<1>2. TypeOK /\ PointersDown /\ [Next]_vars => [StepsLeft' < StepsLeft]_vars
    BY CountsDownStep
<1>3. TypeOK => HasNextEdge
    BY FirstEdge
<1> QED
    BY TypeCorrect, PointersGoDown, <1>1, <1>2, <1>3, PTL DEF Spec, CountsDown
=============================================================================
