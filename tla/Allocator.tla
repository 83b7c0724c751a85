----------------------------- MODULE Allocator ------------------------------
(***************************************************************************)
(* The ALLOCATE stage's choice of items under the budget: the exact        *)
(* dynamic program over scaled costs, the greedy fallback, and what is     *)
(* reported of each item.  An item is a candidate or a whole bundle; of a  *)
(* choice key, a user or a circle, at most one item may be picked.         *)
(*                                                                         *)
(* One step is one round of a loop: a row of the table for a key, a step   *)
(* of the walk back through the table, an item the greedy loop looks at.   *)
(* Decision takes the result as any choice of one item for each key.       *)
(***************************************************************************)
EXTENDS Integers, FiniteSets, Functions

CONSTANTS
    Item,   \* items, numbered in the order of item_id
    KeyOf,  \* the choice key of an item, numbered in the order of the keys
    Input,  \* arguments of allocate
    NoItem  \* no item

\* exact: ALLOCATOR_STRATEGY is auto or exact_dp; scale: ALLOCATOR_COST_SCALE_IDR;
\* cells: ALLOCATOR_MAX_DP_CELLS.  Values are priorities, which may be negative.
Arguments == [cost : [Item -> Nat], value : [Item -> Int], budget : Nat, scale : Nat \ {0},
              exact : BOOLEAN, cells : Nat]

ASSUME AllocatorAssumption ==
    /\ IsFiniteSet(Item)
    /\ Item \subseteq Nat
    /\ KeyOf \in [Item -> Nat]
    /\ Input \subseteq Arguments
    /\ NoItem \notin Item

VARIABLES
    input,    \* the arguments
    pc,       \* the loop it is in
    keys,     \* keys the loop has not reached
    best,     \* the best value for each capacity
    table,    \* the item chosen for each key and capacity
    at,       \* the capacity the walk back has left
    rest,     \* items the greedy loop has not reached
    picked,   \* items picked
    spent,    \* what they cost
    strategy, \* the strategy that is reported
    reason    \* the exclusion reason of each item, or why it has none

vars == <<input, pc, keys, best, table, at, rest, picked, spent, strategy, reason>>

Cost(i)  == input.cost[i]
Value(i) == input.value[i]

KeysOf(S) == {KeyOf[i] : i \in S}

Positive == {i \in Item : Value(i) > 0}
Usable   == {i \in Positive : Cost(i) <= input.budget}

Capacity == input.budget \div input.scale
Capacities == 0..Capacity

\* Mutant: costs are rounded down.
WeightDown(i) == Cost(i) \div input.scale

\* Costs are rounded up to the scale.
Weight(i) == (Cost(i) + input.scale - 1) \div input.scale

TooLarge == Cardinality(KeysOf(Usable)) * (Capacity + 1) > input.cells

EmptyTable == [k \in KeysOf(Item) |-> [c \in Capacities |-> NoItem]]

-----------------------------------------------------------------------------
(* knapsack.solve.                                                         *)

\* Mutant: an item that fills the capacity is left out.
OptionsShort(k, c) == {i \in Usable : KeyOf[i] = k /\ Weight(i) < c}

Options(k, c) == {i \in Usable : KeyOf[i] = k /\ Weight(i) <= c}

Worth(i, c) == best[c - Weight(i)] + Value(i)

\* The options that improve on the row before.
Better(k, c) == {i \in Options(k, c) : Worth(i, c) > best[c]}

\* The first of the best improvements, in the order of their ids.
IsChoice(k, c, i) ==
    /\ i \in Better(k, c)
    /\ \A j \in Better(k, c) : Worth(j, c) < Worth(i, c) \/ (Worth(j, c) = Worth(i, c) /\ i <= j)

Choice(k, c) ==
    IF \E i \in Usable : IsChoice(k, c, i) THEN CHOOSE i \in Usable : IsChoice(k, c, i) ELSE NoItem

BestWith(k, c) == IF Choice(k, c) = NoItem THEN best[c] ELSE Worth(Choice(k, c), c)

SolveNothing ==
    /\ pc = "start" /\ input.exact
    /\ Usable = {}
    /\ strategy' = "EXACT_DP"
    /\ pc' = "decide"
    /\ UNCHANGED <<input, keys, best, table, at, rest, picked, spent, reason>>

SolveExactly ==
    /\ pc = "start" /\ input.exact
    /\ Usable # {}
    /\ ~TooLarge
    /\ strategy' = "EXACT_DP"
    /\ keys' = KeysOf(Usable)
    /\ best' = [c \in Capacities |-> 0]
    /\ pc' = "rows"
    /\ UNCHANGED <<input, table, at, rest, picked, spent, reason>>

FillRow ==
    /\ pc = "rows"
    /\ \E k \in keys :
        /\ \A l \in keys : k <= l
        /\ table' = [table EXCEPT ![k] = [c \in Capacities |-> Choice(k, c)]]
        /\ best' = [c \in Capacities |-> BestWith(k, c)]
        /\ keys' = keys \ {k}
    /\ UNCHANGED <<input, pc, at, rest, picked, spent, strategy, reason>>

\* The walk back starts at the smallest of the best capacities.
WalkBack ==
    /\ pc = "rows"
    /\ keys = {}
    /\ keys' = KeysOf(Usable)
    /\ \E c \in Capacities :
        /\ \A d \in Capacities : best[d] < best[c] \/ (best[d] = best[c] /\ c <= d)
        /\ at' = c
    /\ pc' = "walk"
    /\ UNCHANGED <<input, best, table, rest, picked, spent, strategy, reason>>

Last(k) == k \in keys /\ \A l \in keys : l <= k

Take ==
    /\ pc = "walk"
    /\ \E k \in keys :
        /\ Last(k)
        /\ table[k][at] # NoItem
        /\ picked' = picked \cup {table[k][at]}
        /\ spent' = spent + Cost(table[k][at])
        /\ at' = at - Weight(table[k][at])
        /\ keys' = keys \ {k}
    /\ UNCHANGED <<input, pc, best, table, rest, strategy, reason>>

Pass ==
    /\ pc = "walk"
    /\ \E k \in keys :
        /\ Last(k)
        /\ table[k][at] = NoItem
        /\ keys' = keys \ {k}
    /\ UNCHANGED <<input, pc, best, table, at, rest, picked, spent, strategy, reason>>

WalkEnds ==
    /\ pc = "walk"
    /\ keys = {}
    /\ pc' = "decide"
    /\ UNCHANGED <<input, keys, best, table, at, rest, picked, spent, strategy, reason>>

-----------------------------------------------------------------------------
(* greedy.solve.                                                           *)

AtLeastOne(n) == IF n = 0 THEN 1 ELSE n

\* value / max(cost, 1), compared without the division.
Denser(i, j) ==
    LET x == Value(i) * AtLeastOne(Cost(j))
        y == Value(j) * AtLeastOne(Cost(i))
    IN  x > y \/ (x = y /\ i < j)

SolveGreedily ==
    /\ pc = "start"
    /\ input.exact => Usable # {} /\ TooLarge
    /\ strategy' = "GREEDY_DENSITY"
    /\ rest' = Positive
    /\ pc' = "greedy"
    /\ UNCHANGED <<input, keys, best, table, at, picked, spent, reason>>

NextItem(i) == i \in rest /\ \A j \in rest \ {i} : Denser(i, j)

Fits(i) == KeyOf[i] \notin KeysOf(picked) /\ Cost(i) <= input.budget - spent

Grab ==
    /\ pc = "greedy"
    /\ \E i \in rest :
        /\ NextItem(i)
        /\ Fits(i)
        /\ picked' = picked \cup {i}
        /\ spent' = spent + Cost(i)
        /\ rest' = rest \ {i}
    /\ UNCHANGED <<input, pc, keys, best, table, at, strategy, reason>>

\* Mutant: the first item that does not fit ends the loop.
GiveUp ==
    /\ pc = "greedy"
    /\ \E i \in rest :
        /\ NextItem(i)
        /\ ~Fits(i)
    /\ rest' = {}
    /\ UNCHANGED <<input, pc, keys, best, table, at, picked, spent, strategy, reason>>

LeaveOut ==
    /\ pc = "greedy"
    /\ \E i \in rest :
        /\ NextItem(i)
        /\ ~Fits(i)
        /\ rest' = rest \ {i}
    /\ UNCHANGED <<input, pc, keys, best, table, at, picked, spent, strategy, reason>>

GreedyEnds ==
    /\ pc = "greedy"
    /\ rest = {}
    /\ pc' = "decide"
    /\ UNCHANGED <<input, keys, best, table, at, rest, picked, spent, strategy, reason>>

-----------------------------------------------------------------------------
(* allocate: what is reported of each item.                                *)

Reasons == {"SELECTED", "NO_EXPECTED_GAIN", "RUNNER_UP", "BUDGET_EXHAUSTED"}

ReasonOf(i) ==
    IF i \in picked THEN "SELECTED"
    ELSE IF Value(i) <= 0 THEN "NO_EXPECTED_GAIN"
    ELSE IF KeyOf[i] \in KeysOf(picked) THEN "RUNNER_UP" ELSE "BUDGET_EXHAUSTED"

Decide ==
    /\ pc = "decide"
    /\ reason' = [i \in Item |-> ReasonOf(i)]
    /\ pc' = "done"
    /\ UNCHANGED <<input, keys, best, table, at, rest, picked, spent, strategy>>

Init ==
    /\ input \in Input
    /\ pc = "start"
    /\ keys = {}
    /\ best = [c \in Capacities |-> 0]
    /\ table = EmptyTable
    /\ at = 0
    /\ rest = {}
    /\ picked = {}
    /\ spent = 0
    /\ strategy = "GREEDY_DENSITY"
    /\ reason = [i \in Item |-> "NO_EXPECTED_GAIN"]

Next ==
    \/ SolveNothing \/ SolveExactly \/ SolveGreedily
    \/ FillRow \/ WalkBack \/ Take \/ Pass \/ WalkEnds
    \/ Grab \/ LeaveOut \/ GreedyEnds
    \/ Decide

Spec == Init /\ [][Next]_vars

-----------------------------------------------------------------------------
TypeOK ==
    /\ input \in Arguments
    /\ pc \in {"start", "rows", "walk", "greedy", "decide", "done"}
    /\ keys \subseteq KeysOf(Item)
    /\ best \in [Capacities -> Int]
    /\ table \in [KeysOf(Item) -> [Capacities -> Item \cup {NoItem}]]
    /\ at \in Capacities
    /\ rest \subseteq Item
    /\ picked \subseteq Item
    /\ spent \in Nat
    /\ strategy \in {"EXACT_DP", "GREEDY_DENSITY"}
    /\ reason \in [Item -> Reasons]

\* What is picked never costs more than the budget, although the exact strategy
\* counts scaled costs ("so the result never overspends the real budget":
\* knapsack.py).
WithinBudget == spent <= input.budget

\* At most one incentive for a user, one reward for a circle, with either strategy
\* ("Each choice key (user or group) gets at most one pick": selection.py).
OnePerKey == \A i, j \in picked : KeyOf[i] = KeyOf[j] => i = j

TotalValue(S)  == SumFunctionOnSet(input.value, S)
TotalWeight(S) == SumFunctionOnSet([i \in Item |-> Weight(i)], S)

\* One item for each key within the scaled budget.
Feasible(S) ==
    /\ \A i, j \in S : KeyOf[i] = KeyOf[j] => i = j
    /\ TotalWeight(S) <= Capacity

\* The dynamic program returns a choice of the greatest value among all that fit the
\* scaled budget ("Return the item_ids of an optimal selection": knapsack.solve).
ExactIsOptimal ==
    pc = "done" /\ strategy = "EXACT_DP" =>
        /\ Feasible(picked)
        /\ \A S \in SUBSET Usable : Feasible(S) => TotalValue(S) <= TotalValue(picked)

\* The greedy fallback reports BUDGET_EXHAUSTED only of items that could not have been
\* added to what was picked: it does not stop at the first item that is too dear.
GreedyIsMaximal ==
    pc = "done" /\ strategy = "GREEDY_DENSITY" =>
        \A i \in Item : reason[i] = "BUDGET_EXHAUSTED" => spent + Cost(i) > input.budget

\* The optimum for the costs themselves, which rounding up to the scale may miss.
OptimalForCosts ==
    pc = "done" /\ strategy = "EXACT_DP" =>
        \A S \in SUBSET Usable :
            /\ \A i, j \in S : KeyOf[i] = KeyOf[j] => i = j
            /\ SumFunctionOnSet(input.cost, S) <= input.budget
            => TotalValue(S) <= TotalValue(picked)

\* Where every usable cost is a multiple of the scale, rounding misses nothing.
ScaleDivides == \A i \in Usable : Cost(i) % input.scale = 0

OptimalForMultiples == ScaleDivides => OptimalForCosts
=============================================================================
