------------------------------ MODULE Circles -------------------------------
(***************************************************************************)
(* The GRAPH stage's circles: build_edges keeps the pairs that interacted  *)
(* often enough, find_circles joins them by union-find with path halving   *)
(* and reports the components that are large enough.  One step for each    *)
(* round of a loop.  People are numbered in the order of their pseudonyms. *)
(***************************************************************************)
EXTENDS Naturals, FiniteSets, Sequences

CONSTANTS
    Node,            \* users and their counterparties
    Counts,          \* what the interactions of the pairs in the window may be
    MinInteractions, \* PIPELINE_MIN_EDGE_INTERACTIONS
    MinSize          \* PIPELINE_CIRCLE_MIN_SIZE

\* No edge, and no node.
NoEdge == <<>>
NoNode == 0

\* Edges are undirected: (a, b) is sorted.
Pair == {p \in Node \X Node : p[1] < p[2]}

ASSUME CirclesAssumption ==
    /\ Node \subseteq Nat \ {NoNode}
    /\ Counts \subseteq [Pair -> Nat]
    /\ MinInteractions \in Nat
    /\ MinSize \in Nat

VARIABLES
    count,   \* interactions of each pair
    todo,    \* edges not taken yet
    edge,    \* the edge that is taken, or NoEdge
    parent,  \* the dict of find_circles, over the nodes that were seen
    pc,      \* where the function is
    x,       \* the node that find follows
    first,   \* the root of the edge's first end
    queue,   \* nodes to put into a group
    node,    \* the node that is put into a group
    groups,  \* members by root
    circles  \* what the function returns

vars == <<count, todo, edge, parent, pc, x, first, queue, node, groups, circles>>

Before(p, q) == p[1] < q[1] \/ (p[1] = q[1] /\ p[2] < q[2])

Edges == {p \in Pair : count[p] >= MinInteractions}

Larger(a, b) == IF a < b THEN b ELSE a
Smaller(a, b) == IF a < b THEN a ELSE b

-----------------------------------------------------------------------------

Init ==
    /\ count \in Counts
    /\ todo = Edges
    /\ edge = NoEdge /\ parent = <<>> /\ pc = "take"
    /\ x = NoNode /\ first = NoNode
    /\ queue = {} /\ node = NoNode /\ groups = <<>> /\ circles = {}

\* parent.setdefault(n, n)
Seen(n) == [m \in DOMAIN parent \cup {n} |-> IF m \in DOMAIN parent THEN parent[m] ELSE n]

\* for edge in edges: build_edges sorts them.
TakeEdge ==
    /\ pc = "take" /\ todo # {}
    /\ \E e \in todo :
          /\ \A f \in todo \ {e} : Before(e, f)
          /\ edge' = e /\ x' = e[1] /\ parent' = Seen(e[1])
          /\ todo' = todo \ {e}
    /\ pc' = "first"
    /\ UNCHANGED <<count, first, queue, node, groups, circles>>

\* Mutant: a pointer at a root is cut off.
HalveToSelf(n) ==
    [parent EXCEPT ![n] = IF parent[parent[n]] = parent[n] THEN n ELSE parent[parent[n]]]

\* parent[x] = parent[parent[x]]
Halve(n) == [parent EXCEPT ![n] = parent[parent[n]]]

\* Mutant: the loop does not move on.
FollowStay ==
    /\ pc \in {"first", "second", "place"} /\ parent[x] # x
    /\ parent' = Halve(x)
    /\ UNCHANGED <<count, todo, edge, pc, x, first, queue, node, groups, circles>>

\* One round of the loop in find.
Follow ==
    /\ pc \in {"first", "second", "place"} /\ parent[x] # x
    /\ parent' = Halve(x)
    /\ x' = parent'[x]
    /\ UNCHANGED <<count, todo, edge, pc, first, queue, node, groups, circles>>

FoundFirst ==
    /\ pc = "first" /\ parent[x] = x
    /\ first' = x
    /\ x' = edge[2] /\ parent' = Seen(edge[2])
    /\ pc' = "second"
    /\ UNCHANGED <<count, todo, edge, queue, node, groups, circles>>

\* parent[max(ra, rb)] = min(ra, rb); roots that are one stay as they are.
Link(a, b) == [parent EXCEPT ![Larger(a, b)] = Smaller(a, b)]

FoundSecond ==
    /\ pc = "second" /\ parent[x] = x
    /\ parent' = Link(first, x)
    /\ edge' = NoEdge /\ x' = NoNode /\ first' = NoNode
    /\ pc' = "take"
    /\ UNCHANGED <<count, todo, queue, node, groups, circles>>

AllTaken ==
    /\ pc = "take" /\ todo = {}
    /\ queue' = DOMAIN parent
    /\ pc' = "next"
    /\ UNCHANGED <<count, todo, edge, parent, x, first, node, groups, circles>>

\* The order in which nodes were seen does not matter: any is allowed.
TakeNode ==
    /\ pc = "next"
    /\ \E n \in queue :
          /\ node' = n /\ x' = n
          /\ queue' = queue \ {n}
    /\ pc' = "place"
    /\ UNCHANGED <<count, todo, edge, parent, first, groups, circles>>

\* groups.setdefault(root, []).append(n)
Placed(n, root) ==
    [r \in DOMAIN groups \cup {root} |->
        (IF r \in DOMAIN groups THEN groups[r] ELSE {}) \cup (IF r = root THEN {n} ELSE {})]

FoundRoot ==
    /\ pc = "place" /\ parent[x] = x
    /\ groups' = Placed(node, x)
    /\ node' = NoNode /\ x' = NoNode
    /\ pc' = "next"
    /\ UNCHANGED <<count, todo, edge, parent, first, queue, circles>>

\* Mutant: a circle must be larger than the minimum.
LargerThan(members) == Cardinality(members) > MinSize

LargeEnough(members) == Cardinality(members) >= MinSize

Return ==
    /\ pc = "next" /\ queue = {}
    /\ circles' = {groups[r] : r \in {s \in DOMAIN groups : LargeEnough(groups[s])}}
    /\ pc' = "done"
    /\ UNCHANGED <<count, todo, edge, parent, x, first, queue, node, groups>>

Next == TakeEdge \/ Follow \/ FoundFirst \/ FoundSecond \/ AllTaken \/ TakeNode \/ FoundRoot \/ Return

\* A function that is called goes on.
Spec == Init /\ [][Next]_vars /\ WF_vars(Next)

-----------------------------------------------------------------------------
(* Properties.                                                             *)

\* Everything has its type; the function follows nodes it has seen.
TypeOK ==
    /\ count \in Counts /\ todo \subseteq Edges
    /\ edge \in Edges \cup {NoEdge}
    /\ DOMAIN parent \subseteq Node
    /\ \A n \in DOMAIN parent : parent[n] \in DOMAIN parent
    /\ pc \in {"take", "first", "second", "next", "place", "done"}
    /\ pc \in {"first", "second"} => edge # NoEdge
    /\ pc \in {"first", "second", "place"} => x \in DOMAIN parent
    /\ pc = "second" => first \in DOMAIN parent
    /\ pc = "place" => node \in DOMAIN parent
    /\ queue \subseteq DOMAIN parent
    /\ DOMAIN groups \subseteq DOMAIN parent
    /\ \A r \in DOMAIN groups : groups[r] \subseteq DOMAIN parent

\* Pointers lead to smaller people only, so find cannot run in a circle; following the
\* second end does not unseat the root that was found for the first.
PointersDown ==
    /\ \A n \in DOMAIN parent : parent[n] <= n
    /\ pc = "second" => parent[first] = first

\* A set of people that no edge leaves.
Closed(S) == \A e \in Edges : e[1] \in S <=> e[2] \in S

\* There is a way along edges from m to n.
Connected(m, n) == \A S \in SUBSET Node : Closed(S) /\ m \in S => n \in S

\* Whoever is put into one circle is connected by edges: a group offer never joins
\* strangers.
NoStrangers == \A C \in circles : \A m, n \in C : Connected(m, n)

Components == {{n \in Node : Connected(m, n)} : m \in UNION {{e[1], e[2]} : e \in Edges}}

\* The circles are all components of the graph that have the size, and nothing else
\* (requirement 5: groups are indivisible).
CirclesAreComponents == pc = "done" => circles = {C \in Components : Cardinality(C) >= MinSize}

\* No pointer leaves S, and none leads into it.
Sealed(S) == \A n \in DOMAIN parent : n \in S <=> parent[n] \in S

\* The pointers of m and n lead to one root.
Tied(m, n) == \A S \in SUBSET Node : Sealed(S) => (m \in S <=> n \in S)

Blocks == {{m \in Node : Tied(m, n)} : n \in Node}

\* Pointers are an implementation of blocks that are merged: an edge is taken when its
\* roots are linked, and halving a path changes no block.
Merge == INSTANCE Merging
    WITH Node <- Node, Edge <- Pair,
         left <- todo \cup (IF edge = NoEdge THEN {} ELSE {edge}), blocks <- Blocks

MergeSpec == Merge!Spec

\* find_circles returns.
Returns == <>(pc = "done")
=============================================================================
