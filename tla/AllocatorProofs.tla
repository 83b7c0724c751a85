-------------------------- MODULE AllocatorProofs ---------------------------
(***************************************************************************)
(* Proofs about Allocator for any items, keys, costs, values, budgets and  *)
(* scales.                                                                 *)
(***************************************************************************)
EXTENDS Allocator, FiniteSetTheorems, WellFoundedInduction, TLAPS

\* Division rounds down.
LEMMA DivDown ==
    ASSUME NEW a \in Nat, NEW b \in Nat \ {0}
    PROVE  /\ a \div b \in Nat
           /\ b * (a \div b) <= a
           /\ a < b * (a \div b) + b
    BY SMT

LEMMA Distributes ==
    ASSUME NEW s \in Nat, NEW x \in Int, NEW y \in Int
    PROVE  s * (x - y) = s * x - s * y
    BY SMT

\* The scaled budget is no more than the budget.
LEMMA CapacityFits ==
    ASSUME input \in Arguments
    PROVE  Capacity \in Nat /\ input.scale * Capacity <= input.budget
<1>1. input.budget \in Nat /\ input.scale \in Nat \ {0}
    BY DEF Arguments
<1>2. QED
    BY <1>1, DivDown DEF Capacity

\* A weight covers the cost it stands for.
LEMMA WeightCovers ==
    ASSUME input \in Arguments, NEW i \in Item
    PROVE  /\ Weight(i) \in Nat
           /\ Cost(i) \in Nat
           /\ Cost(i) <= input.scale * Weight(i)
<1>1. Cost(i) \in Nat /\ input.scale \in Nat \ {0}
    BY DEF Arguments, Cost
<1>2. Cost(i) + input.scale - 1 \in Nat
    BY <1>1
<1>3. Weight(i) \in Nat /\ Cost(i) + input.scale - 1 < input.scale * Weight(i) + input.scale
    BY <1>1, <1>2, DivDown DEF Weight
<1>4. input.scale * Weight(i) \in Int
    BY <1>1, <1>3
<1>5. QED
    BY <1>1, <1>3, <1>4

LEMMA Monotone ==
    ASSUME NEW s \in Nat, NEW x \in Int, NEW y \in Int, x <= y
    PROVE  s * x <= s * y
    BY SMT

LEMMA InputsTyped == Input \subseteq Arguments
    BY AllocatorAssumption

\* What the table may hold for a key and a capacity.
LEMMA ChoiceFits ==
    ASSUME NEW k, NEW c, Choice(k, c) # NoItem
    PROVE  /\ Choice(k, c) \in Item
           /\ KeyOf[Choice(k, c)] = k
           /\ Weight(Choice(k, c)) <= c
<1>1. PICK i \in Usable : IsChoice(k, c, i)
    BY DEF Choice
<1>2. IsChoice(k, c, Choice(k, c))
    BY <1>1 DEF Choice
<1>3. QED
    BY <1>2 DEF IsChoice, Better, Options, Usable, Positive

LEMMA BestTyped ==
    ASSUME input \in Arguments, best \in [Capacities -> Int], NEW k, NEW c \in Capacities
    PROVE  BestWith(k, c) \in Int
<1>1. CASE Choice(k, c) = NoItem
    BY <1>1 DEF BestWith
<1>2. CASE Choice(k, c) # NoItem
    <2>1. Choice(k, c) \in Item /\ Weight(Choice(k, c)) <= c
        BY <1>2, ChoiceFits
    <2>2. Weight(Choice(k, c)) \in Nat /\ Capacity \in Nat
        BY <2>1, WeightCovers, CapacityFits
    <2>3. c - Weight(Choice(k, c)) \in Capacities
        BY <2>1, <2>2 DEF Capacities
    <2>4. Value(Choice(k, c)) \in Int
        BY <2>1 DEF Value, Arguments
    <2>5. QED
        BY <1>2, <2>3, <2>4 DEF BestWith, Worth
<1>3. QED
    BY <1>1, <1>2

-----------------------------------------------------------------------------
(* Sums over finite sets.  The library's sum is a function CHOSEN to       *)
(* satisfy its recursion, so the proofs first show that there is one.      *)

LEMMA LeastNat ==
    ASSUME NEW N \in SUBSET Nat, N # {}
    PROVE  \E n \in N : \A m \in N : n <= m
<1>1. PICK n \in N : \A m \in N : ~ (<<m, n>> \in OpToRel(<, Nat))
    BY WFMin, NatLessThanWellFounded
<1>2. \A m \in N : n <= m
    <2>1. SUFFICES ASSUME NEW m \in N PROVE n <= m
        OBVIOUS
    <2>2. ~ (m < n) /\ m \in Nat /\ n \in Nat
        BY <1>1 DEF OpToRel
    <2> QED
        BY <2>2
<1> QED
    BY <1>2

Some(T) == CHOOSE i \in T : TRUE

\* g sums f over the members of a family that is closed under leaving an element out.
Sums(f, family, g) ==
    g = [T \in family |-> IF T = {} THEN 0 ELSE f[Some(T)] + g[T \ {Some(T)}]]

LEMMA SomeIn == ASSUME NEW T, T # {} PROVE Some(T) \in T
    BY DEF Some

\* Leaving out the chosen element of a finite set.
LEMMA Smaller ==
    ASSUME NEW D, IsFiniteSet(D), NEW T \in SUBSET D
    PROVE  /\ IsFiniteSet(T) /\ Cardinality(T) \in Nat
           /\ Cardinality(T) = 0 <=> T = {}
           /\ \A i \in T : /\ T \ {i} \in SUBSET D
                           /\ Cardinality(T \ {i}) = Cardinality(T) - 1
<1>1. IsFiniteSet(T)
    BY FS_Subset
<1>2. Cardinality(T) \in Nat /\ (Cardinality(T) = 0 <=> T = {})
    BY <1>1, FS_CardinalityType, FS_EmptySet
<1>3. \A i \in T : Cardinality(T \ {i}) = Cardinality(T) - 1
    BY <1>1, FS_RemoveElement
<1> QED
    BY <1>1, <1>2, <1>3

UpTo(D, n) == {T \in SUBSET D : Cardinality(T) <= n}

\* Subsets that have at most n elements have sums.
LEMMA SumsUpTo ==
    ASSUME NEW D, IsFiniteSet(D), NEW f, \A i \in D : f[i] \in Int
    PROVE  \A n \in Nat : \E g \in [UpTo(D, n) -> Int] : Sums(f, UpTo(D, n), g)
<1> USE DEF UpTo
<1> DEFINE Fam(n) == UpTo(D, n)
           Good(n) == \E g \in [Fam(n) -> Int] : Sums(f, Fam(n), g)
           Bad == {n \in Nat : ~Good(n)}
<1>1. Good(0)
    <2>1. \A T \in Fam(0) : T = {}
        BY Smaller
    <2> DEFINE g == [T \in Fam(0) |-> 0]
    <2>2. Sums(f, Fam(0), g)
        BY <2>1 DEF Sums
    <2> QED
        BY <2>2
<1>2. ASSUME NEW n \in Nat, Good(n) PROVE Good(n + 1)
    <2>1. PICK g \in [Fam(n) -> Int] : Sums(f, Fam(n), g)
        BY <1>2
    <2> DEFINE h == [T \in Fam(n + 1) |-> IF T = {} THEN 0 ELSE f[Some(T)] + g[T \ {Some(T)}]]
    <2>2. ASSUME NEW T \in Fam(n + 1), T # {}
          PROVE  /\ T \ {Some(T)} \in Fam(n) /\ T \ {Some(T)} \in Fam(n + 1)
                 /\ f[Some(T)] \in Int
        <3>1. Some(T) \in T /\ Some(T) \in D
            BY <2>2, SomeIn
        <3>2. /\ Cardinality(T) \in Nat /\ Cardinality(T) <= n + 1
              /\ T \ {Some(T)} \in SUBSET D /\ Cardinality(T \ {Some(T)}) = Cardinality(T) - 1
            BY <3>1, Smaller
        <3> QED
            BY <3>1, <3>2
    <2>3. \A T \in Fam(n) : T \in Fam(n + 1) /\ h[T] = g[T]
        <3>1. SUFFICES ASSUME NEW T \in Fam(n) PROVE T \in Fam(n + 1) /\ h[T] = g[T]
            OBVIOUS
        <3>2. Cardinality(T) \in Nat
            BY Smaller
        <3>3. T \in Fam(n + 1)
            BY <3>2
        <3> QED
            BY <2>1, <3>3 DEF Sums
    <2>4. h \in [Fam(n + 1) -> Int]
        BY <2>2
    <2>5. h = [T \in Fam(n + 1) |-> IF T = {} THEN 0 ELSE f[Some(T)] + h[T \ {Some(T)}]]
        <3>1. \A T \in Fam(n + 1) : T # {} => h[T \ {Some(T)}] = g[T \ {Some(T)}]
            BY <2>2, <2>3
        <3> HIDE DEF Fam
        <3> QED
            BY <3>1
    <2>6. Sums(f, Fam(n + 1), h)
        BY <2>5 DEF Sums
    <2> QED
        BY <2>4, <2>6
<1>3. ASSUME Bad # {} PROVE FALSE
    <2>1. PICK n \in Bad : \A m \in Bad : n <= m
        BY <1>3, LeastNat
    <2>2. n # 0 /\ n \in Nat
        BY <1>1, <2>1
    <2> HIDE DEF Bad, Good
    <2>3. n - 1 \in Nat /\ ~ (n <= n - 1) /\ (n - 1) + 1 = n
        BY <2>2
    <2>4. Good(n - 1)
        BY <2>1, <2>3 DEF Bad
    <2>5. Good((n - 1) + 1)
        BY <1>2, <2>3, <2>4
    <2>6. Good(n)
        BY <2>3, <2>5
    <2> QED
        BY <2>1, <2>6 DEF Bad
<1> QED
    BY <1>3

\* There is a sum over all subsets of a finite set.
LEMMA SumsExist ==
    ASSUME NEW D, IsFiniteSet(D), NEW f, \A i \in D : f[i] \in Int
    PROVE  \E g \in [SUBSET D -> Int] : Sums(f, SUBSET D, g)
<1>1. Cardinality(D) \in Nat
    BY FS_CardinalityType
<1>2. UpTo(D, Cardinality(D)) = SUBSET D
    BY FS_Subset DEF UpTo
<1>3. \E g \in [UpTo(D, Cardinality(D)) -> Int] : Sums(f, UpTo(D, Cardinality(D)), g)
    BY <1>1, SumsUpTo
<1> QED
    BY <1>2, <1>3

\* Two functions give every part of a set the same sum.
SameSums(E, g, h) == \A T \in SUBSET E : g[T] = h[T]

\* Sums over the subsets of two sets agree where both are defined.
LEMMA SumsAgree ==
    ASSUME NEW D, IsFiniteSet(D), NEW E \in SUBSET D, NEW f, NEW g, NEW h,
           Sums(f, SUBSET D, g), Sums(f, SUBSET E, h)
    PROVE  SameSums(E, g, h)
<1> DEFINE Off == {T \in SUBSET E : g[T] # h[T]}
           N == {Cardinality(T) : T \in Off}
<1>1. ASSUME Off # {} PROVE FALSE
    <2>1. N \in SUBSET Nat /\ N # {}
        BY <1>1, Smaller
    <2>2. PICK n \in N : \A m \in N : n <= m
        BY <2>1, LeastNat
    <2>3. PICK T \in Off : n = Cardinality(T)
        BY <2>2
    <2>4. T \in SUBSET D /\ T \in SUBSET E
        BY <2>3
    <2>5. CASE T = {}
        BY <2>3, <2>4, <2>5 DEF Sums
    <2>6. CASE T # {}
        <3> DEFINE R == T \ {Some(T)}
        <3>1. R \in SUBSET E /\ Cardinality(T) \in Nat /\ Cardinality(R) = Cardinality(T) - 1
            BY <2>4, <2>6, SomeIn, Smaller
        <3>2. R \notin Off
            <4> HIDE DEF Off, R
            <4>1. Cardinality(R) \in N => Cardinality(T) <= Cardinality(T) - 1
                BY <2>2, <2>3, <3>1
            <4>2. Cardinality(R) \notin N
                BY <3>1, <4>1
            <4> QED
                BY <4>2
        <3>3. g[R] = h[R]
            BY <3>1, <3>2
        <3>4. g[T] = f[Some(T)] + g[R] /\ h[T] = f[Some(T)] + h[R]
            BY <2>4, <2>6 DEF Sums
        <3> QED
            BY <2>3, <3>3, <3>4
    <2> QED
        BY <2>5, <2>6
<1> QED
    BY <1>1 DEF SameSums

LEMMA SumUnfolds ==
    ASSUME NEW f, NEW S
    PROVE  SumFunctionOnSet(f, S) = (CHOOSE g : Sums(f, SUBSET S, g))[S]
    BY DEF SumFunctionOnSet, FoldFunctionOnSet, MapThenFoldSet, Sums, Some

\* The sum of the library takes out the elements one by one.
LEMMA SumRecursion ==
    ASSUME NEW D, IsFiniteSet(D), NEW f, \A i \in D : f[i] \in Int
    PROVE  \A T \in SUBSET D :
              /\ SumFunctionOnSet(f, T) \in Int
              /\ T = {} => SumFunctionOnSet(f, T) = 0
              /\ T # {} => SumFunctionOnSet(f, T) = f[Some(T)] + SumFunctionOnSet(f, T \ {Some(T)})
<1>1. PICK g \in [SUBSET D -> Int] : Sums(f, SUBSET D, g)
    BY SumsExist
<1>2. ASSUME NEW T \in SUBSET D PROVE SumFunctionOnSet(f, T) = g[T]
    <2>1. IsFiniteSet(T) /\ \A i \in T : f[i] \in Int
        BY FS_Subset
    <2>2. \E h : Sums(f, SUBSET T, h)
        BY <2>1, SumsExist
    <2>3. PICK h : h = (CHOOSE g1 : Sums(f, SUBSET T, g1))
        OBVIOUS
    <2>4. Sums(f, SUBSET T, h)
        BY <2>2, <2>3
    <2>5. g[T] = h[T]
        <3>1. SameSums(T, g, h)
            BY <1>1, <2>4, SumsAgree
        <3> QED
            BY <3>1 DEF SameSums
    <2>6. SumFunctionOnSet(f, T) = h[T]
        BY <2>3, SumUnfolds
    <2> QED
        BY <2>5, <2>6
<1>3. ASSUME NEW T \in SUBSET D
      PROVE  g[T] = IF T = {} THEN 0 ELSE f[Some(T)] + g[T \ {Some(T)}]
    BY <1>1 DEF Sums
<1>4. SUFFICES ASSUME NEW T \in SUBSET D
               PROVE  /\ SumFunctionOnSet(f, T) \in Int
                      /\ T = {} => SumFunctionOnSet(f, T) = 0
                      /\ T # {} => SumFunctionOnSet(f, T) = f[Some(T)] + SumFunctionOnSet(f, T \ {Some(T)})
    OBVIOUS
<1>5. T \ {Some(T)} \in SUBSET D
    OBVIOUS
<1> QED
    BY <1>2, <1>3, <1>5

\* The order does not matter: any element may be the first.
LEMMA SumSplit ==
    ASSUME NEW D, IsFiniteSet(D), NEW f, \A i \in D : f[i] \in Int,
           NEW T \in SUBSET D, NEW i \in T
    PROVE  SumFunctionOnSet(f, T) = f[i] + SumFunctionOnSet(f, T \ {i})
<1> DEFINE F(U) == SumFunctionOnSet(f, U)
           Off == {U \in SUBSET D : \E j \in U : F(U) # f[j] + F(U \ {j})}
           N == {Cardinality(U) : U \in Off}
<1>0. \A U \in SUBSET D : /\ F(U) \in Int
                          /\ U = {} => F(U) = 0
                          /\ U # {} => F(U) = f[Some(U)] + F(U \ {Some(U)})
    BY SumRecursion
<1>1. ASSUME Off # {} PROVE FALSE
    <2>1. N \in SUBSET Nat /\ N # {}
        BY <1>1, Smaller
    <2>2. PICK n \in N : \A m \in N : n <= m
        BY <2>1, LeastNat
    <2>3. PICK U \in Off : n = Cardinality(U)
        BY <2>2
    <2>4. PICK j \in U : F(U) # f[j] + F(U \ {j})
        BY <2>3
    <2> DEFINE s == Some(U)
    <2>5. U \in SUBSET D /\ U # {} /\ s \in U /\ f[s] \in Int /\ f[j] \in Int
        BY <2>3, <2>4, SomeIn
    <2>6. s # j
        BY <1>0, <2>4, <2>5
    <2>7. ASSUME NEW k \in U, NEW l \in U \ {k} PROVE F(U \ {k}) = f[l] + F((U \ {k}) \ {l})
        <3>1. /\ U \ {k} \in SUBSET D /\ Cardinality(U) \in Nat
              /\ Cardinality(U \ {k}) = Cardinality(U) - 1
            BY <2>5, Smaller
        <3> HIDE DEF Off, F
        <3>2. Cardinality(U \ {k}) \notin N
            BY <2>2, <2>3, <3>1
        <3>3. U \ {k} \notin Off
            BY <3>2
        <3> QED
            BY <3>1, <3>3 DEF Off
    <2>8. (U \ {j}) \ {s} = (U \ {s}) \ {j}
        OBVIOUS
    <2>9. F(U \ {j}) = f[s] + F((U \ {s}) \ {j}) /\ F(U \ {s}) = f[j] + F((U \ {s}) \ {j})
        <3> HIDE DEF F, s
        <3> QED
            BY <2>5, <2>6, <2>7, <2>8
    <2>10. F((U \ {s}) \ {j}) \in Int /\ F(U) = f[s] + F(U \ {s})
        BY <1>0, <2>5
    <2> HIDE DEF F, s
    <2> QED
        BY <2>4, <2>5, <2>9, <2>10
<1> QED
    BY <1>1

LEMMA SumAdd ==
    ASSUME NEW D, IsFiniteSet(D), NEW f, \A i \in D : f[i] \in Int,
           NEW T \in SUBSET D, NEW i \in D, i \notin T
    PROVE  SumFunctionOnSet(f, T \cup {i}) = f[i] + SumFunctionOnSet(f, T)
<1>1. T \cup {i} \in SUBSET D /\ (T \cup {i}) \ {i} = T
    OBVIOUS
<1> QED
    BY <1>1, SumSplit

\* A sum of naturals is one.
LEMMA SumNat ==
    ASSUME NEW D, IsFiniteSet(D), NEW f, \A i \in D : f[i] \in Nat
    PROVE  \A T \in SUBSET D : SumFunctionOnSet(f, T) \in Nat
<1> DEFINE F(U) == SumFunctionOnSet(f, U)
           Off == {U \in SUBSET D : F(U) \notin Nat}
           N == {Cardinality(U) : U \in Off}
<1>0. \A U \in SUBSET D : /\ F(U) \in Int
                          /\ U = {} => F(U) = 0
                          /\ U # {} => F(U) = f[Some(U)] + F(U \ {Some(U)})
    <2>1. \A i \in D : f[i] \in Int
        OBVIOUS
    <2> QED
        BY <2>1, SumRecursion
<1>1. ASSUME Off # {} PROVE FALSE
    <2>1. N \in SUBSET Nat /\ N # {}
        BY <1>1, Smaller
    <2>2. PICK n \in N : \A m \in N : n <= m
        BY <2>1, LeastNat
    <2>3. PICK U \in Off : n = Cardinality(U)
        BY <2>2
    <2>4. U # {} /\ U \in SUBSET D
        <3>1. U \in SUBSET D /\ F(U) \notin Nat
            BY <2>3
        <3>2. U = {} => F(U) = 0
            BY <1>0, <3>1
        <3> HIDE DEF F
        <3> QED
            BY <3>1, <3>2
    <2> DEFINE R == U \ {Some(U)}
    <2>5. /\ R \in SUBSET D /\ Cardinality(U) \in Nat /\ Cardinality(R) = Cardinality(U) - 1
          /\ f[Some(U)] \in Nat
        BY <2>4, SomeIn, Smaller
    <2>6. F(R) \in Nat
        <3> HIDE DEF Off, F, R
        <3>1. Cardinality(R) \notin N
            <4> HIDE DEF N
            <4> QED
                BY <2>2, <2>3, <2>5
        <3> QED
            BY <2>5, <3>1 DEF Off
    <2>7. F(U) \in Nat
        BY <1>0, <2>4, <2>5, <2>6
    <2> QED
        BY <2>3, <2>7
<1> QED
    BY <1>1

\* A finite set has an element of the greatest value.
LEMMA FiniteMax ==
    ASSUME NEW D, IsFiniteSet(D), NEW f, \A i \in D : f[i] \in Int
    PROVE  \A T \in SUBSET D : T # {} => \E i \in T : \A j \in T : f[j] <= f[i]
<1> DEFINE Has(T) == \E i \in T : \A j \in T : f[j] <= f[i]
           Off == {T \in SUBSET D : T # {} /\ ~Has(T)}
           N == {Cardinality(T) : T \in Off}
<1>1. ASSUME Off # {} PROVE FALSE
    <2>1. N \in SUBSET Nat /\ N # {}
        BY <1>1, Smaller
    <2>2. PICK n \in N : \A m \in N : n <= m
        BY <2>1, LeastNat
    <2>3. PICK T \in Off : n = Cardinality(T)
        BY <2>2
    <2>4. T \in SUBSET D /\ T # {} /\ ~Has(T)
        BY <2>3
    <2>5. PICK i \in T : TRUE
        BY <2>4
    <2> DEFINE R == T \ {i}
    <2>6. R \in SUBSET D /\ Cardinality(T) \in Nat /\ Cardinality(R) = Cardinality(T) - 1
        BY <2>4, Smaller
    <2>7. R = {} \/ Has(R)
        <3> HIDE DEF Has, Off, R
        <3>1. Cardinality(R) \notin N
            <4> HIDE DEF N
            <4> QED
                BY <2>2, <2>3, <2>6
        <3>2. R \notin Off
            BY <3>1
        <3> QED
            BY <2>6, <3>2 DEF Off
    <2>8. \A j \in T : f[j] \in Int
        BY <2>4
    <2>9. CASE R = {}
        <3>1. \A j \in T : f[j] <= f[i]
            BY <2>8, <2>9
        <3> QED
            BY <2>4, <3>1
    <2>10. CASE Has(R)
        <3>1. PICK m \in R : \A j \in R : f[j] <= f[m]
            BY <2>10
        <3>2. CASE f[i] <= f[m]
            BY <2>4, <3>1, <3>2
        <3>3. CASE ~ (f[i] <= f[m])
            <4>1. \A j \in T : f[j] <= f[i]
                BY <2>8, <3>1, <3>3
            <4> QED
                BY <2>4, <4>1
        <3> QED
            BY <3>2, <3>3
    <2> QED
        BY <2>7, <2>9, <2>10
<1> QED
    BY <1>1

-----------------------------------------------------------------------------
(* What an optimum is.                                                     *)

ItemsOf(K) == {i \in Usable : KeyOf[i] \in K}

OnePer(S) == \A i, j \in S : KeyOf[i] = KeyOf[j] => i = j

\* The choices of items of some keys that weigh no more than c, one item for a key.
Within(K, c) == {S \in SUBSET ItemsOf(K) : OnePer(S) /\ TotalWeight(S) <= c}

\* v is the greatest value of such a choice.
IsBest(K, c, v) ==
    /\ \E S \in Within(K, c) : TotalValue(S) = v
    /\ \A S \in Within(K, c) : TotalValue(S) <= v

AllKeys == KeysOf(Usable)

LEMMA ItemTyped ==
    ASSUME input \in Arguments, NEW i \in Item
    PROVE  Value(i) \in Int /\ Weight(i) \in Nat /\ input.value[i] = Value(i)
    BY WeightCovers DEF Arguments, Value

LEMMA UsableItems == Usable \subseteq Item
    BY DEF Usable, Positive

\* Values of sets of items: of none, and with one item more.
LEMMA ValueFacts ==
    ASSUME input \in Arguments
    PROVE  /\ TotalValue({}) = 0
           /\ \A S \in SUBSET Item : TotalValue(S) \in Int
           /\ \A S \in SUBSET Item : \A i \in Item \ S : TotalValue(S \cup {i}) = Value(i) + TotalValue(S)
<1>1. IsFiniteSet(Item) /\ \A i \in Item : input.value[i] \in Int /\ input.value[i] = Value(i)
    BY AllocatorAssumption, ItemTyped
<1>2. \A S \in SUBSET Item : /\ SumFunctionOnSet(input.value, S) \in Int
                             /\ S = {} => SumFunctionOnSet(input.value, S) = 0
    BY <1>1, SumRecursion
<1>3. ASSUME NEW S \in SUBSET Item, NEW i \in Item \ S
      PROVE  SumFunctionOnSet(input.value, S \cup {i}) = input.value[i] + SumFunctionOnSet(input.value, S)
    BY <1>1, SumAdd
<1> QED
    BY <1>1, <1>2, <1>3 DEF TotalValue

LEMMA WeightFacts ==
    ASSUME input \in Arguments
    PROVE  /\ TotalWeight({}) = 0
           /\ \A S \in SUBSET Item : TotalWeight(S) \in Nat
           /\ \A S \in SUBSET Item : \A i \in Item \ S : TotalWeight(S \cup {i}) = Weight(i) + TotalWeight(S)
<1> DEFINE w == [i \in Item |-> Weight(i)]
<1>1. IsFiniteSet(Item) /\ \A i \in Item : w[i] \in Nat /\ w[i] \in Int /\ w[i] = Weight(i)
    BY AllocatorAssumption, ItemTyped
<1>0. \A S : TotalWeight(S) = SumFunctionOnSet(w, S)
    BY DEF TotalWeight
<1> HIDE DEF w
<1>2. \A S \in SUBSET Item : S = {} => SumFunctionOnSet(w, S) = 0
    BY <1>1, SumRecursion
<1>3. \A S \in SUBSET Item : SumFunctionOnSet(w, S) \in Nat
    BY <1>1, SumNat
<1>4. ASSUME NEW S \in SUBSET Item, NEW i \in Item \ S
      PROVE  SumFunctionOnSet(w, S \cup {i}) = w[i] + SumFunctionOnSet(w, S)
    BY <1>1, SumAdd
<1> QED
    BY <1>0, <1>1, <1>2, <1>3, <1>4

LEMMA WithinItems ==
    ASSUME NEW K, NEW c, NEW S \in Within(K, c)
    PROVE  S \in SUBSET Item /\ S \subseteq Usable /\ S \subseteq ItemsOf(K)
    BY UsableItems DEF Within, ItemsOf

LEMMA BestIsInt ==
    ASSUME input \in Arguments, NEW K, NEW c, NEW v, IsBest(K, c, v)
    PROVE  v \in Int
    BY ValueFacts, WithinItems DEF IsBest

LEMMA BestUnique ==
    ASSUME input \in Arguments, NEW K, NEW c, NEW v, NEW w, IsBest(K, c, v), IsBest(K, c, w)
    PROVE  v = w
<1>1. v \in Int /\ w \in Int
    BY BestIsInt
<1>2. v <= w /\ w <= v
    BY DEF IsBest
<1> QED
    BY <1>1, <1>2

\* Without keys nothing can be chosen.
LEMMA BestOfNothing ==
    ASSUME input \in Arguments, NEW c \in Nat
    PROVE  IsBest({}, c, 0)
<1>1. Within({}, c) = {{}}
    <2>1. ItemsOf({}) = {}
        BY DEF ItemsOf
    <2>2. {} \in Within({}, c)
        BY WeightFacts DEF Within, OnePer
    <2> QED
        BY <2>1, <2>2 DEF Within
<1> QED
    BY <1>1, ValueFacts DEF IsBest

\* The input does not change, so neither does an optimum.
LEMMA BestKept ==
    ASSUME input' = input
    PROVE  /\ \A K, c, v : IsBest(K, c, v)' <=> IsBest(K, c, v)
           /\ Usable' = Usable /\ AllKeys' = AllKeys /\ Capacity' = Capacity
           /\ \A i : Weight(i)' = Weight(i) /\ Value(i)' = Value(i)
           /\ \A S : TotalValue(S)' = TotalValue(S) /\ TotalWeight(S)' = TotalWeight(S)
<1>1. /\ Usable' = Usable /\ Capacity' = Capacity
      /\ \A i : Weight(i)' = Weight(i) /\ Value(i)' = Value(i)
    BY DEF Usable, Positive, Cost, Value, Capacity, Weight
<1>2. \A S : TotalValue(S)' = TotalValue(S)
    BY DEF TotalValue
<1>3. \A S : TotalWeight(S)' = TotalWeight(S)
    BY <1>1 DEF TotalWeight
<1>4. AllKeys' = AllKeys
    BY <1>1 DEF AllKeys, KeysOf
<1>5. \A K, c : Within(K, c)' = Within(K, c)
    BY <1>1, <1>3 DEF Within, ItemsOf, OnePer
<1>6. \A K, c, v : IsBest(K, c, v)' <=> IsBest(K, c, v)
    BY <1>2, <1>5 DEF IsBest
<1> QED
    BY <1>1, <1>2, <1>3, <1>4, <1>6

-----------------------------------------------------------------------------
(* A row of the table.                                                     *)

\* When something improves on the row before, there is a first best improvement.
LEMMA ChoiceExists ==
    ASSUME input \in Arguments, best \in [Capacities -> Int], NEW k, NEW c \in Capacities,
           Better(k, c) # {}
    PROVE  \E i \in Usable : IsChoice(k, c, i)
<1>1. Better(k, c) \subseteq Usable /\ Better(k, c) \subseteq Item /\ Better(k, c) \subseteq Nat
    BY UsableItems, AllocatorAssumption DEF Better, Options
<1>2. \A i \in Better(k, c) : Worth(i, c) \in Int
    <2>1. SUFFICES ASSUME NEW i \in Better(k, c) PROVE Worth(i, c) \in Int
        OBVIOUS
    <2>2. Weight(i) \in Nat /\ Weight(i) <= c /\ Value(i) \in Int /\ Capacity \in Nat
        BY <1>1, ItemTyped, CapacityFits DEF Better, Options
    <2>3. c - Weight(i) \in Capacities
        BY <2>2 DEF Capacities
    <2> QED
        BY <2>2, <2>3 DEF Worth
<1> DEFINE B == Better(k, c)
           f == [i \in B |-> Worth(i, c)]
<1>3. IsFiniteSet(B)
    BY <1>1, AllocatorAssumption, FS_Subset
<1>4. PICK m \in B : \A j \in B : Worth(j, c) <= Worth(m, c)
    <2>1. \A i \in B : f[i] \in Int /\ f[i] = Worth(i, c)
        BY <1>2
    <2> HIDE DEF f
    <2>2. \A T \in SUBSET B : T # {} => \E i \in T : \A j \in T : f[j] <= f[i]
        <3> HIDE DEF B
        <3> QED
            BY <1>3, <2>1, FiniteMax
    <2>3. \E i \in B : \A j \in B : f[j] <= f[i]
        BY <2>2
    <2> QED
        BY <2>1, <2>3
<1> DEFINE M == {i \in B : Worth(i, c) = Worth(m, c)}
<1>5. PICK i \in M : \A j \in M : i <= j
    <2>1. M \in SUBSET Nat /\ M # {}
        BY <1>1
    <2> HIDE DEF M
    <2> QED
        BY <2>1, LeastNat
<1>6. IsChoice(k, c, i)
    <2>1. ASSUME NEW j \in B
          PROVE  Worth(j, c) < Worth(i, c) \/ (Worth(j, c) = Worth(i, c) /\ i <= j)
        <3>1. Worth(j, c) \in Int /\ Worth(m, c) \in Int /\ Worth(i, c) = Worth(m, c)
            BY <1>2, <1>5
        <3>2. Worth(j, c) <= Worth(m, c)
            BY <1>4
        <3>3. CASE Worth(j, c) = Worth(m, c)
            BY <1>5, <3>1, <3>3
        <3>4. CASE Worth(j, c) # Worth(m, c)
            BY <3>1, <3>2, <3>4
        <3> QED
            BY <3>3, <3>4
    <2> QED
        BY <1>5, <2>1 DEF IsChoice
<1> QED
    BY <1>1, <1>5, <1>6

\* The choices with one key more: those without an item of it, and one item with a
\* choice of the rest.
LEMMA WithinSplit ==
    ASSUME input \in Arguments, NEW K, NEW k, k \notin K, NEW c \in Nat, NEW S \in Within(K \cup {k}, c)
    PROVE  \/ S \in Within(K, c)
           \/ \E i \in Usable : /\ KeyOf[i] = k /\ Weight(i) <= c
                                /\ \E R \in Within(K, c - Weight(i)) :
                                      TotalValue(S) = Value(i) + TotalValue(R)
<1>1. S \in SUBSET Item /\ S \subseteq Usable /\ S \subseteq ItemsOf(K \cup {k}) /\ OnePer(S) /\ TotalWeight(S) <= c
    BY WithinItems DEF Within
<1>2. CASE \A i \in S : KeyOf[i] # k
    <2>1. S \subseteq ItemsOf(K)
        BY <1>1, <1>2 DEF ItemsOf
    <2> QED
        BY <1>1, <2>1 DEF Within
<1>3. CASE \E i \in S : KeyOf[i] = k
    <2>1. PICK i \in S : KeyOf[i] = k
        BY <1>3
    <2> DEFINE R == S \ {i}
    <2>2. R \in SUBSET Item /\ i \in Item \ R /\ S = R \cup {i} /\ i \in Usable
        BY <1>1
    <2>3. TotalValue(S) = Value(i) + TotalValue(R) /\ TotalWeight(S) = Weight(i) + TotalWeight(R)
        BY <2>2, ValueFacts, WeightFacts
    <2>4. TotalWeight(R) \in Nat /\ Weight(i) \in Nat
        BY <2>2, WeightFacts, ItemTyped
    <2>5. Weight(i) <= c /\ TotalWeight(R) <= c - Weight(i)
        BY <1>1, <2>3, <2>4
    <2>6. R \subseteq ItemsOf(K) /\ OnePer(R)
        BY <1>1, <2>1 DEF ItemsOf, OnePer
    <2>7. R \in Within(K, c - Weight(i))
        BY <2>5, <2>6 DEF Within
    <2> QED
        BY <2>1, <2>2, <2>3, <2>5, <2>7
<1> QED
    BY <1>2, <1>3

\* An item of a new key may join any choice that leaves room for it.
LEMMA WithinJoin ==
    ASSUME input \in Arguments, NEW K, NEW k, k \notin K, NEW c \in Nat,
           NEW i \in Usable, KeyOf[i] = k, Weight(i) <= c, NEW R \in Within(K, c - Weight(i))
    PROVE  /\ R \cup {i} \in Within(K \cup {k}, c)
           /\ TotalValue(R \cup {i}) = Value(i) + TotalValue(R)
<1>1. R \in SUBSET Item /\ R \subseteq ItemsOf(K) /\ OnePer(R) /\ TotalWeight(R) <= c - Weight(i)
    BY WithinItems DEF Within
<1>2. i \in Item \ R /\ \A j \in R : KeyOf[j] # k
    BY <1>1, UsableItems DEF ItemsOf
<1>3. /\ TotalValue(R \cup {i}) = Value(i) + TotalValue(R)
      /\ TotalWeight(R \cup {i}) = Weight(i) + TotalWeight(R)
    BY <1>1, <1>2, ValueFacts, WeightFacts
<1>4. TotalWeight(R) \in Nat /\ Weight(i) \in Nat
    BY <1>1, <1>2, WeightFacts, ItemTyped
<1>5. TotalWeight(R \cup {i}) <= c
    BY <1>1, <1>3, <1>4
<1>6. R \cup {i} \subseteq ItemsOf(K \cup {k}) /\ OnePer(R \cup {i})
    BY <1>1, <1>2 DEF ItemsOf, OnePer
<1> QED
    BY <1>3, <1>5, <1>6 DEF Within

LEMMA WithinGrows ==
    ASSUME NEW K, NEW k, NEW c, NEW S \in Within(K, c)
    PROVE  S \in Within(K \cup {k}, c)
    BY DEF Within, ItemsOf

\* From the optima for the keys before, a row of the table has the optima with its key,
\* and says by which item they are reached.
LEMMA RowIsBest ==
    ASSUME input \in Arguments, best \in [Capacities -> Int], NEW K, NEW k, k \notin K,
           \A c \in Capacities : IsBest(K, c, best[c]), NEW c \in Capacities
    PROVE  /\ IsBest(K \cup {k}, c, BestWith(k, c))
           /\ Choice(k, c) = NoItem => BestWith(k, c) = best[c]
           /\ Choice(k, c) # NoItem =>
                 /\ Choice(k, c) \in Usable /\ Weight(Choice(k, c)) <= c
                 /\ IsBest(K, c - Weight(Choice(k, c)), best[c - Weight(Choice(k, c))])
                 /\ BestWith(k, c) = best[c - Weight(Choice(k, c))] + Value(Choice(k, c))
<1>1. c \in Nat /\ Capacity \in Nat /\ best[c] \in Int /\ IsBest(K, c, best[c])
    BY CapacityFits DEF Capacities
\* What an option is worth is what its choice of the rest and itself are worth.
<1>2. ASSUME NEW i \in Usable, Weight(i) <= c
      PROVE  /\ Weight(i) \in Nat /\ Value(i) \in Int /\ c - Weight(i) \in Capacities
             /\ Worth(i, c) = best[c - Weight(i)] + Value(i) /\ Worth(i, c) \in Int
             /\ best[c - Weight(i)] \in Int
             /\ IsBest(K, c - Weight(i), best[c - Weight(i)])
    <2>1. Weight(i) \in Nat /\ Value(i) \in Int
        BY UsableItems, ItemTyped
    <2>2. c - Weight(i) \in Capacities
        BY <1>1, <1>2, <2>1 DEF Capacities
    <2> QED
        BY <2>1, <2>2 DEF Worth
\* No choice is worth more than the row before or than an option.
<1>3. ASSUME NEW S \in Within(K \cup {k}, c)
      PROVE  \/ TotalValue(S) <= best[c]
             \/ \E i \in Options(k, c) : TotalValue(S) <= Worth(i, c)
    <2>1. CASE S \in Within(K, c)
        BY <1>1, <2>1 DEF IsBest
    <2>2. ASSUME NEW i \in Usable, KeyOf[i] = k, Weight(i) <= c,
                 NEW R \in Within(K, c - Weight(i)), TotalValue(S) = Value(i) + TotalValue(R)
          PROVE  TotalValue(S) <= Worth(i, c) /\ i \in Options(k, c)
        <3>1. TotalValue(R) <= best[c - Weight(i)]
            BY <1>2, <2>2 DEF IsBest
        <3>2. TotalValue(R) \in Int
            BY ValueFacts, WithinItems
        <3> QED
            BY <1>2, <2>2, <3>1, <3>2 DEF Options
    <2> QED
        BY <1>1, <2>1, <2>2, WithinSplit
<1>4. ASSUME Choice(k, c) = NoItem
      PROVE  BestWith(k, c) = best[c] /\ IsBest(K \cup {k}, c, best[c])
    <2>1. Better(k, c) = {}
        <3>1. SUFFICES ASSUME Better(k, c) # {} PROVE FALSE
            OBVIOUS
        <3>2. \E i \in Usable : IsChoice(k, c, i)
            BY <3>1, ChoiceExists
        <3>3. Choice(k, c) \in Usable
            BY <3>2 DEF Choice
        <3> QED
            BY <1>4, <3>3, UsableItems, AllocatorAssumption
    <2>2. \A i \in Options(k, c) : Worth(i, c) <= best[c]
        BY <1>1, <1>2, <2>1 DEF Better, Options
    <2>3. \A S \in Within(K \cup {k}, c) : TotalValue(S) <= best[c]
        <3>1. SUFFICES ASSUME NEW S \in Within(K \cup {k}, c) PROVE TotalValue(S) <= best[c]
            OBVIOUS
        <3>2. TotalValue(S) \in Int
            BY ValueFacts, WithinItems
        <3>3. \A i \in Options(k, c) : Worth(i, c) \in Int
            BY <1>2 DEF Options
        <3> QED
            BY <1>1, <1>3, <2>2, <3>2, <3>3
    <2>4. \E S \in Within(K \cup {k}, c) : TotalValue(S) = best[c]
        BY <1>1, WithinGrows DEF IsBest
    <2> QED
        BY <1>4, <2>3, <2>4 DEF BestWith, IsBest
<1>5. ASSUME Choice(k, c) # NoItem
      PROVE  /\ IsBest(K \cup {k}, c, BestWith(k, c))
             /\ Choice(k, c) \in Usable /\ Weight(Choice(k, c)) <= c
             /\ IsBest(K, c - Weight(Choice(k, c)), best[c - Weight(Choice(k, c))])
             /\ BestWith(k, c) = best[c - Weight(Choice(k, c))] + Value(Choice(k, c))
    <2>1. PICK i : i = Choice(k, c)
        OBVIOUS
    <2>2. IsChoice(k, c, i) /\ i \in Usable
        BY <1>5, <2>1 DEF Choice
    <2>3. i \in Better(k, c) /\ KeyOf[i] = k /\ Weight(i) <= c /\ Worth(i, c) > best[c]
        BY <2>2 DEF IsChoice, Better, Options
    <2>4. BestWith(k, c) = Worth(i, c)
        BY <1>5, <2>1 DEF BestWith
    <2>5. \A j \in Better(k, c) : Worth(j, c) <= Worth(i, c)
        <3>1. SUFFICES ASSUME NEW j \in Better(k, c) PROVE Worth(j, c) <= Worth(i, c)
            OBVIOUS
        <3>2. Worth(j, c) \in Int /\ Worth(i, c) \in Int
            BY <1>2, <2>2, <2>3 DEF Better, Options
        <3> QED
            BY <2>2, <3>2 DEF IsChoice
    <2>6. \A j \in Options(k, c) : Worth(j, c) <= Worth(i, c)
        <3>1. SUFFICES ASSUME NEW j \in Options(k, c) PROVE Worth(j, c) <= Worth(i, c)
            OBVIOUS
        <3>2. Worth(j, c) \in Int /\ Worth(i, c) \in Int
            BY <1>2, <2>2, <2>3 DEF Options
        <3>3. CASE Worth(j, c) > best[c]
            BY <2>5, <3>3 DEF Better
        <3>4. CASE ~ (Worth(j, c) > best[c])
            BY <1>1, <2>3, <3>2, <3>4
        <3> QED
            BY <3>3, <3>4
    <2>7. \A S \in Within(K \cup {k}, c) : TotalValue(S) <= Worth(i, c)
        <3>1. SUFFICES ASSUME NEW S \in Within(K \cup {k}, c) PROVE TotalValue(S) <= Worth(i, c)
            OBVIOUS
        <3>2. TotalValue(S) \in Int /\ Worth(i, c) \in Int
            BY <1>2, <2>2, <2>3, ValueFacts, WithinItems
        <3>3. CASE TotalValue(S) <= best[c]
            BY <1>1, <2>3, <3>2, <3>3
        <3>4. CASE \E j \in Options(k, c) : TotalValue(S) <= Worth(j, c)
            <4>1. PICK j \in Options(k, c) : TotalValue(S) <= Worth(j, c)
                BY <3>4
            <4>2. Worth(j, c) \in Int
                BY <1>2 DEF Options
            <4> QED
                BY <2>6, <3>2, <4>1, <4>2
        <3> QED
            BY <1>3, <3>3, <3>4
    <2>8. \E S \in Within(K \cup {k}, c) : TotalValue(S) = Worth(i, c)
        <3>1. PICK R \in Within(K, c - Weight(i)) : TotalValue(R) = best[c - Weight(i)]
            BY <1>2, <2>2, <2>3 DEF IsBest
        <3>2. /\ R \cup {i} \in Within(K \cup {k}, c)
              /\ TotalValue(R \cup {i}) = Value(i) + TotalValue(R)
            <4>1. \A T \in Within(K, c - Weight(i)) :
                     /\ T \cup {i} \in Within(K \cup {k}, c)
                     /\ TotalValue(T \cup {i}) = Value(i) + TotalValue(T)
                BY <1>1, <2>2, <2>3, WithinJoin
            <4> QED
                BY <4>1
        <3>3. TotalValue(R \cup {i}) = Worth(i, c)
            BY <1>2, <2>2, <2>3, <3>1, <3>2
        <3> QED
            BY <3>2, <3>3
    <2>9. IsBest(K \cup {k}, c, Worth(i, c))
        BY <2>7, <2>8 DEF IsBest
    <2> QED
        BY <1>2, <2>1, <2>2, <2>3, <2>4, <2>9
<1> QED
    BY <1>4, <1>5

-----------------------------------------------------------------------------
(* The inductive invariant.                                                *)

\* A chosen item belongs to its key and fits its capacity.
TableInv ==
    \A k \in KeysOf(Item) : \A c \in Capacities :
        table[k][c] # NoItem => KeyOf[table[k][c]] = k /\ Weight(table[k][c]) <= c

\* Before anything is picked nothing is spent; on the way back the capacity that is
\* left and what was spent are within the budget, and the keys ahead have no pick.
PickInv ==
    /\ pc \in {"start", "rows"} => picked = {} /\ spent = 0
    /\ pc = "walk" => /\ spent + input.scale * at <= input.budget
                      /\ \A i \in picked : KeyOf[i] \notin keys
    /\ WithinBudget
    /\ OnePerKey

\* What the greedy loop has passed is picked, has a picked rival or is too dear.
Settled(i) == i \in picked \/ KeyOf[i] \in KeysOf(picked) \/ spent + Cost(i) > input.budget

GreedyInv ==
    /\ pc \in {"rows", "walk"} => strategy = "EXACT_DP"
    /\ pc = "greedy" => strategy = "GREEDY_DENSITY"
    /\ pc \in {"greedy", "decide", "done"} /\ strategy = "GREEDY_DENSITY" =>
          \A i \in Positive \ rest : Settled(i)
    /\ pc \in {"decide", "done"} /\ strategy = "GREEDY_DENSITY" => rest = {}
    /\ pc = "done" => \A i \in Item : reason[i] = ReasonOf(i)

Inv == TypeOK /\ TableInv /\ PickInv /\ GreedyInv

LEMMA InitInv == Init => Inv
<1> SUFFICES ASSUME Init PROVE Inv
    OBVIOUS
<1>1. input \in Arguments
    BY InputsTyped DEF Init
<1>2. Capacity \in Nat
    BY <1>1, CapacityFits
<1>3. TypeOK
    BY <1>1, <1>2 DEF Init, TypeOK, EmptyTable, Capacities, Reasons
<1>4. TableInv
    BY DEF Init, TableInv, EmptyTable
<1>5. PickInv
    BY <1>1 DEF Init, PickInv, WithinBudget, OnePerKey, Arguments
<1>6. GreedyInv
    BY DEF Init, GreedyInv
<1>7. QED
    BY <1>3, <1>4, <1>5, <1>6 DEF Inv

LEMMA InputKept == ASSUME [Next]_vars PROVE input' = input
    BY DEF Next, vars, SolveNothing, SolveExactly, SolveGreedily, FillRow, WalkBack, Take, Pass,
       WalkEnds, Grab, LeaveOut, GreedyEnds, Decide

-----------------------------------------------------------------------------
(* Types.                                                                  *)

LEMMA TypeStep == ASSUME Inv, [Next]_vars PROVE TypeOK'
<1> USE DEF TypeOK
<1>1. input \in Arguments /\ input' = input /\ Capacities' = Capacities
    BY InputKept DEF Inv, Capacities, Capacity
<1>2. Capacity \in Nat
    BY <1>1, CapacityFits
<1>3. KeysOf(Usable) \subseteq KeysOf(Item)
    BY DEF KeysOf, Usable, Positive
<1>4. CASE SolveNothing
    BY <1>1, <1>4 DEF Inv, SolveNothing
<1>5. CASE SolveExactly
    <2>1. [c \in Capacities |-> 0] \in [Capacities -> Int]
        OBVIOUS
    <2>2. QED
        BY <1>1, <1>3, <1>5, <2>1 DEF Inv, SolveExactly
<1>6. CASE SolveGreedily
    BY <1>1, <1>6 DEF Inv, SolveGreedily, Positive
<1>7. CASE FillRow
    <2>1. PICK k \in keys :
            /\ table' = [table EXCEPT ![k] = [c \in Capacities |-> Choice(k, c)]]
            /\ best' = [c \in Capacities |-> BestWith(k, c)]
            /\ keys' = keys \ {k}
        BY <1>7 DEF FillRow
    <2>2. best' \in [Capacities' -> Int]
        BY <1>1, <2>1, BestTyped DEF Inv
    <2>3. [c \in Capacities |-> Choice(k, c)] \in [Capacities -> Item \cup {NoItem}]
        BY ChoiceFits
    <2>4. table' \in [KeysOf(Item) -> [Capacities' -> Item \cup {NoItem}]]
        BY <1>1, <2>1, <2>3 DEF Inv
    <2>5. keys' \subseteq KeysOf(Item)
        BY <2>1 DEF Inv
    <2>6. QED
        BY <1>1, <1>7, <2>2, <2>4, <2>5 DEF Inv, FillRow
<1>8. CASE WalkBack
    BY <1>1, <1>3, <1>8 DEF Inv, WalkBack
<1>9. CASE Take
    <2>1. PICK k \in keys :
            /\ table[k][at] # NoItem
            /\ picked' = picked \cup {table[k][at]}
            /\ spent' = spent + Cost(table[k][at])
            /\ at' = at - Weight(table[k][at])
            /\ keys' = keys \ {k}
        BY <1>9 DEF Take
    <2>2. k \in KeysOf(Item) /\ at \in Capacities
        BY DEF Inv
    <2>3. table[k][at] \in Item /\ Weight(table[k][at]) <= at
        BY <2>1, <2>2 DEF Inv, TableInv
    <2>4. Weight(table[k][at]) \in Nat /\ Cost(table[k][at]) \in Nat
        BY <1>1, <2>3, WeightCovers
    <2>5. at' \in Capacities'
        <3>1. at \in 0..Capacity /\ Weight(table[k][at]) \in Nat /\ Weight(table[k][at]) <= at
            BY <2>2, <2>3, <2>4 DEF Capacities
        <3>2. at - Weight(table[k][at]) \in 0..Capacity
            BY <1>2, <3>1
        <3>3. QED
            BY <1>1, <2>1, <3>2 DEF Capacities
    <2>6. spent' \in Nat /\ picked' \subseteq Item /\ keys' \subseteq KeysOf(Item)
        BY <2>1, <2>3, <2>4 DEF Inv
    <2>7. QED
        BY <1>1, <1>9, <2>5, <2>6 DEF Inv, Take
<1>10. CASE Pass
    BY <1>1, <1>10 DEF Inv, Pass
<1>11. CASE WalkEnds
    BY <1>1, <1>11 DEF Inv, WalkEnds
<1>12. CASE Grab
    <2>1. PICK i \in rest :
            picked' = picked \cup {i} /\ spent' = spent + Cost(i) /\ rest' = rest \ {i}
        BY <1>12 DEF Grab
    <2>2. i \in Item
        BY DEF Inv
    <2>3. Cost(i) \in Nat
        BY <1>1, <2>2, WeightCovers
    <2>4. QED
        BY <1>1, <1>12, <2>1, <2>2, <2>3 DEF Inv, Grab
<1>13. CASE LeaveOut
    BY <1>1, <1>13 DEF Inv, LeaveOut
<1>14. CASE GreedyEnds
    BY <1>1, <1>14 DEF Inv, GreedyEnds
<1>15. CASE Decide
    <2>1. \A i \in Item : ReasonOf(i) \in Reasons
        BY DEF ReasonOf, Reasons
    <2>2. QED
        BY <1>1, <1>15, <2>1 DEF Inv, Decide
<1>16. CASE UNCHANGED vars
    BY <1>1, <1>16 DEF Inv, vars
<1>17. QED
    BY <1>4, <1>5, <1>6, <1>7, <1>8, <1>9, <1>10, <1>11, <1>12, <1>13, <1>14, <1>15, <1>16
       DEF Next

\* Choices enter the table where they fit.
LEMMA TableStep == ASSUME Inv, [Next]_vars PROVE TableInv'
<1>1. input' = input /\ Capacities' = Capacities
    BY InputKept DEF Capacities, Capacity
<1>2. CASE FillRow
    <2>1. PICK k \in keys : table' = [table EXCEPT ![k] = [c \in Capacities |-> Choice(k, c)]]
        BY <1>2 DEF FillRow
    <2>2. SUFFICES ASSUME NEW l \in KeysOf(Item), NEW c \in Capacities, table'[l][c] # NoItem
                   PROVE  KeyOf[table'[l][c]] = l /\ Weight(table[l][c])' <= c
        BY <1>1 DEF TableInv
    <2>4. CASE l = k
        <3>1. table'[l][c] = Choice(k, c)
            BY <2>1, <2>4 DEF Inv, TypeOK
        <3>2. Weight(table[l][c])' = Weight(Choice(k, c))
            BY <1>1, <3>1 DEF Weight, Cost
        <3>3. QED
            BY <2>2, <2>4, <3>1, <3>2, ChoiceFits
    <2>5. CASE l # k
        <3>1. table'[l][c] = table[l][c]
            BY <2>1, <2>5 DEF Inv, TypeOK
        <3>2. Weight(table[l][c])' = Weight(table[l][c])
            BY <1>1, <3>1 DEF Weight, Cost
        <3>3. QED
            BY <2>2, <3>1, <3>2 DEF Inv, TableInv
    <2>6. QED
        BY <2>4, <2>5
<1>3. CASE ~FillRow
    <2>1. table' = table
        BY <1>3 DEF Next, vars, SolveNothing, SolveExactly, SolveGreedily, WalkBack, Take, Pass,
           WalkEnds, Grab, LeaveOut, GreedyEnds, Decide
    <2>2. ASSUME NEW k \in KeysOf(Item), NEW c \in Capacities
          PROVE  Weight(table[k][c])' = Weight(table[k][c])
        BY <1>1, <2>1 DEF Weight, Cost
    <2>3. QED
        BY <1>1, <2>1, <2>2 DEF Inv, TableInv
<1>4. QED
    BY <1>2, <1>3

-----------------------------------------------------------------------------
(* The budget and the keys.                                                *)

LEMMA PickStep == ASSUME Inv, [Next]_vars PROVE PickInv'
<1> USE DEF PickInv, WithinBudget
<1>1. /\ input' = input /\ input \in Arguments
      /\ input.budget \in Nat /\ input.scale \in Nat /\ spent \in Nat
    BY InputKept DEF Inv, TypeOK, Arguments
<1>2. Capacity \in Nat /\ input.scale * Capacity <= input.budget
    BY <1>1, CapacityFits
<1>3. CASE picked' = picked /\ spent' = spent /\ pc' \notin {"rows", "walk"}
    BY <1>1, <1>3 DEF Inv, OnePerKey, Next, vars, SolveNothing, SolveExactly, SolveGreedily,
       FillRow, WalkBack, Take, Pass, WalkEnds, Grab, LeaveOut, GreedyEnds, Decide
<1>4. CASE SolveExactly
    BY <1>1, <1>4 DEF Inv, OnePerKey, SolveExactly
<1>5. CASE FillRow
    BY <1>1, <1>5 DEF Inv, OnePerKey, FillRow
<1>6. CASE WalkBack
    <2>1. at' \in 0..Capacity /\ picked = {} /\ spent = 0 /\ UNCHANGED <<picked, spent>>
        BY <1>6 DEF Inv, WalkBack, Capacities
    <2>2. input.scale * at' <= input.scale * Capacity
        BY <1>1, <1>2, <2>1, Monotone
    <2>3. spent' + input'.scale * at' <= input'.budget
        BY <1>1, <1>2, <2>1, <2>2
    <2>4. QED
        BY <1>1, <1>6, <2>1, <2>3 DEF WalkBack, OnePerKey
<1>7. CASE Take
    <2>1. PICK k \in keys :
            /\ table[k][at] # NoItem
            /\ picked' = picked \cup {table[k][at]}
            /\ spent' = spent + Cost(table[k][at])
            /\ at' = at - Weight(table[k][at])
            /\ keys' = keys \ {k}
        BY <1>7 DEF Take
    <2> DEFINE i == table[k][at]
    <2>2. k \in KeysOf(Item) /\ at \in Capacities
        BY DEF Inv, TypeOK
    <2>3. i \in Item /\ KeyOf[i] = k
        BY <2>1, <2>2 DEF Inv, TypeOK, TableInv
    <2>4. Weight(i) \in Nat /\ Cost(i) \in Nat /\ Cost(i) <= input.scale * Weight(i)
        BY <1>1, <2>3, WeightCovers
    <2>5. pc = "walk" /\ pc' = "walk" /\ at \in Nat
        BY <1>2, <1>7, <2>2 DEF Take, Capacities
    <2>6. spent + input.scale * at <= input.budget /\ \A j \in picked : KeyOf[j] \notin keys
        BY <2>5 DEF Inv
    <2>7. input.scale * at' = input.scale * at - input.scale * Weight(i)
        BY <1>1, <2>1, <2>4, <2>5, Distributes
    <2>8. spent' + input.scale * at' <= input.budget
        <3> HIDE DEF i
        <3>1. input.scale * at \in Int /\ input.scale * Weight(i) \in Int
            BY <1>1, <2>4, <2>5
        <3>2. spent' = spent + Cost(i)
            BY <2>1 DEF i
        <3>3. QED
            BY <1>1, <2>4, <2>6, <2>7, <3>1, <3>2
    <2>9. spent' <= input.budget
        <3>1. at' \in Nat
            BY <2>1, <2>2, <2>3, <2>4 DEF Inv, TableInv, Capacities
        <3>2. input.scale * at' \in Nat
            BY <1>1, <3>1
        <3>3. spent' \in Nat
            BY <1>1, <2>1, <2>4
        <3>4. QED
            BY <1>1, <2>8, <3>2, <3>3
    <2>10. \A j \in picked' : KeyOf[j] \notin keys'
        BY <2>1, <2>3, <2>6
    <2>11. OnePerKey'
        BY <2>1, <2>3, <2>6 DEF Inv, OnePerKey
    <2>12. QED
        BY <1>1, <2>5, <2>8, <2>9, <2>10, <2>11
<1>8. CASE Pass
    BY <1>1, <1>8 DEF Inv, OnePerKey, Pass
<1>9. CASE Grab
    <2>1. PICK i \in rest : Fits(i) /\ picked' = picked \cup {i} /\ spent' = spent + Cost(i)
        BY <1>9 DEF Grab
    <2>2. i \in Item
        BY DEF Inv, TypeOK
    <2>3. Cost(i) \in Nat
        BY <1>1, <2>2, WeightCovers
    <2>4. spent' <= input.budget
        BY <1>1, <2>1, <2>3 DEF Fits
    <2>5. \A j \in picked : KeyOf[j] # KeyOf[i]
        BY <2>1 DEF Fits, KeysOf
    <2>6. OnePerKey'
        BY <2>1, <2>5 DEF Inv, OnePerKey
    <2>7. QED
        BY <1>1, <1>9, <2>4, <2>6 DEF Grab
<1>10. CASE UNCHANGED vars
    BY <1>1, <1>10 DEF Inv, OnePerKey, vars
<1>11. QED
    BY <1>3, <1>4, <1>5, <1>6, <1>7, <1>8, <1>9, <1>10
       DEF Next, SolveNothing, SolveGreedily, WalkEnds, LeaveOut, GreedyEnds, Decide

-----------------------------------------------------------------------------
(* The greedy loop.                                                        *)

LEMMA GreedyStep == ASSUME Inv, [Next]_vars PROVE GreedyInv'
<1> USE DEF GreedyInv
<1>1. /\ input' = input /\ input.budget \in Nat /\ spent \in Nat
      /\ \A i \in Item : Cost(i) \in Nat
    BY InputKept, WeightCovers DEF Inv, TypeOK, Arguments
<1>2. Positive' = Positive
    BY <1>1 DEF Positive, Value
<1>3. \A i \in Item : Cost(i)' = Cost(i)
    BY <1>1 DEF Cost
<1>4. CASE SolveNothing
    BY <1>4 DEF Inv, SolveNothing
<1>5. CASE SolveExactly
    BY <1>5 DEF Inv, SolveExactly
<1>6. CASE SolveGreedily
    BY <1>2, <1>6 DEF Inv, SolveGreedily
<1>7. CASE FillRow \/ WalkBack \/ Take \/ Pass
    BY <1>7 DEF Inv, FillRow, WalkBack, Take, Pass
<1>8. CASE WalkEnds
    BY <1>8 DEF Inv, WalkEnds
<1>9. CASE Grab
    <2>1. PICK i \in rest :
            picked' = picked \cup {i} /\ spent' = spent + Cost(i) /\ rest' = rest \ {i}
        BY <1>9 DEF Grab
    <2>2. i \in Item /\ rest \subseteq Item
        BY DEF Inv, TypeOK
    <2>3. ASSUME NEW j \in Positive', j \notin rest' PROVE Settled(j)'
        <3>1. j \in Item
            BY <1>2, <2>3 DEF Positive
        <3>2. CASE j = i
            BY <2>1, <3>2 DEF Settled
        <3>3. CASE j # i
            <4>1. Settled(j)
                BY <1>2, <1>9, <2>1, <2>3, <3>3 DEF Inv, Grab
            <4>2. KeysOf(picked) \subseteq KeysOf(picked)'
                BY <2>1 DEF KeysOf
            <4>3. spent' >= spent /\ spent' \in Nat
                BY <1>1, <2>1, <2>2
            <4>4. CASE spent + Cost(j) > input.budget
                <5>1. Cost(j) \in Nat /\ Cost(j)' = Cost(j)
                    BY <1>1, <1>3, <3>1
                <5>2. spent' + Cost(j)' > input'.budget
                    BY <1>1, <4>3, <4>4, <5>1
                <5>3. QED
                    BY <5>2 DEF Settled
            <4>5. CASE j \in picked \/ KeyOf[j] \in KeysOf(picked)
                BY <2>1, <4>2, <4>5 DEF Settled
            <4>6. QED
                BY <4>1, <4>4, <4>5 DEF Settled
        <3>4. QED
            BY <3>2, <3>3
    <2>4. QED
        BY <1>9, <2>3 DEF Inv, Grab
<1>10. CASE LeaveOut
    <2>1. PICK i \in rest : ~Fits(i) /\ rest' = rest \ {i}
        BY <1>10 DEF LeaveOut
    <2>2. UNCHANGED <<picked, spent>> /\ i \in Item
        BY <1>10 DEF LeaveOut, Inv, TypeOK
    <2>3. Settled(i)
        BY <1>1, <2>1, <2>2 DEF Fits, Settled
    <2>4. ASSUME NEW j \in Positive', j \notin rest' PROVE Settled(j)'
        <3>1. j \in Item
            BY <1>2, <2>4 DEF Positive
        <3>2. Settled(j)
            BY <1>2, <1>10, <2>1, <2>3, <2>4 DEF Inv, LeaveOut
        <3>3. QED
            BY <1>1, <1>3, <2>2, <3>1, <3>2 DEF Settled
    <2>5. QED
        BY <1>10, <2>4 DEF Inv, LeaveOut
<1>11. CASE GreedyEnds
    BY <1>1, <1>2, <1>3, <1>11 DEF Inv, GreedyEnds, Settled, Positive
<1>12. CASE Decide
    <2>1. UNCHANGED <<picked, spent, rest, strategy>>
        BY <1>12 DEF Decide
    <2>2. \A i \in Item : ReasonOf(i)' = ReasonOf(i)
        BY <1>1, <2>1 DEF ReasonOf, Value
    <2>3. \A i \in Item : reason'[i] = ReasonOf(i)
        BY <1>12 DEF Decide
    <2>4. \A i \in Positive : Settled(i)' <=> Settled(i)
        BY <1>1, <1>3, <2>1 DEF Settled, Positive
    <2>5. QED
        BY <1>2, <1>12, <2>1, <2>2, <2>3, <2>4 DEF Inv, Decide
<1>13. CASE UNCHANGED vars
    <2>1. UNCHANGED <<input, pc, picked, spent, rest, strategy, reason>>
        BY <1>13 DEF vars
    <2>2. \A i \in Item : ReasonOf(i)' = ReasonOf(i)
        BY <2>1 DEF ReasonOf, Value
    <2>3. \A i \in Positive : Settled(i)' <=> Settled(i)
        BY <1>1, <1>3, <2>1 DEF Settled, Positive
    <2>4. QED
        BY <1>2, <2>1, <2>2, <2>3 DEF Inv
<1>14. QED
    BY <1>4, <1>5, <1>6, <1>7, <1>8, <1>9, <1>10, <1>11, <1>12, <1>13 DEF Next

-----------------------------------------------------------------------------
(* The dynamic program: what its loops keep.                               *)

KeysBelow(k) == {l \in AllKeys : l < k}

\* Item i, or none, is how the optimum with key k is reached for capacity c.
Reaches(k, c, i) ==
    \/ /\ i = NoItem
       /\ \E v : IsBest(KeysBelow(k), c, v) /\ IsBest(KeysBelow(k) \cup {k}, c, v)
    \/ /\ i \in Usable /\ Weight(i) <= c
       /\ \E v : /\ IsBest(KeysBelow(k), c - Weight(i), v)
                 /\ IsBest(KeysBelow(k) \cup {k}, c, v + Value(i))

RowInv(k) == \A c \in Capacities : Reaches(k, c, table[k][c])

\* Rows are filled in the order of the keys; best has the optima for the keys so far.
RowsInv ==
    pc = "rows" =>
        /\ keys \subseteq AllKeys
        /\ \A l \in AllKeys \ keys, m \in keys : l < m
        /\ \A c \in Capacities : IsBest(AllKeys \ keys, c, best[c])
        /\ \A k \in AllKeys \ keys : RowInv(k)

\* On the way back, what is picked and the optimum of the keys ahead for the capacity
\* that is left make an optimum of all keys.
WalkInv ==
    pc = "walk" =>
        /\ keys \subseteq AllKeys
        /\ \A l \in AllKeys \ keys, m \in keys : m < l
        /\ \A k \in AllKeys : RowInv(k)
        /\ TotalWeight(picked) + at <= Capacity
        /\ \E v : IsBest(keys, at, v) /\ IsBest(AllKeys, Capacity, TotalValue(picked) + v)

ResultInv ==
    pc \in {"decide", "done"} /\ strategy = "EXACT_DP" =>
        /\ TotalWeight(picked) <= Capacity
        /\ IsBest(AllKeys, Capacity, TotalValue(picked))

ExactInv == RowsInv /\ WalkInv /\ ResultInv

LEMMA ExactInit == Init => ExactInv
    BY DEF Init, ExactInv, RowsInv, WalkInv, ResultInv

LEMMA AllKeysTyped == AllKeys \subseteq Nat /\ AllKeys \subseteq KeysOf(Item)
    BY UsableItems, AllocatorAssumption DEF AllKeys, KeysOf

LEMMA ReachesKept ==
    ASSUME input' = input, NEW k
    PROVE  \A c, i : Reaches(k, c, i)' <=> Reaches(k, c, i)
<1>1. /\ \A K, c, v : IsBest(K, c, v)' <=> IsBest(K, c, v)
      /\ Usable' = Usable /\ AllKeys' = AllKeys
      /\ \A i : Weight(i)' = Weight(i) /\ Value(i)' = Value(i)
    BY BestKept
<1>2. KeysBelow(k)' = KeysBelow(k)
    BY <1>1 DEF KeysBelow
<1> QED
    BY <1>1, <1>2 DEF Reaches

\* A row is kept as long as the table keeps it.
LEMMA RowKept ==
    ASSUME input' = input, NEW k, table'[k] = table[k], RowInv(k)
    PROVE  RowInv(k)'
<1>1. \A c, i : Reaches(k, c, i)' <=> Reaches(k, c, i)
    BY ReachesKept
<1>2. Capacities' = Capacities
    BY DEF Capacities, Capacity
<1> QED
    BY <1>1, <1>2 DEF RowInv

LEMMA TableElse ==
    ASSUME [Next]_vars, ~FillRow
    PROVE  table' = table
    BY DEF Next, vars, SolveNothing, SolveExactly, SolveGreedily, WalkBack, Take, Pass,
       WalkEnds, Grab, LeaveOut, GreedyEnds, Decide

\* Filling a row keeps the optima of the keys so far.
LEMMA RowsStep == ASSUME Inv, ExactInv, [Next]_vars PROVE RowsInv'
<1> USE DEF RowsInv
<1>1. /\ input' = input /\ input \in Arguments /\ Capacities' = Capacities
      /\ best \in [Capacities -> Int] /\ Capacity \in Nat
    BY InputKept, CapacityFits DEF Inv, TypeOK, Capacities, Capacity
<1>2. /\ \A K, c, v : IsBest(K, c, v)' <=> IsBest(K, c, v)
      /\ AllKeys' = AllKeys
    BY <1>1, BestKept
<1>3. CASE SolveExactly
    <2>1. keys' = AllKeys /\ best' = [c \in Capacities |-> 0] /\ pc' = "rows"
        BY <1>3 DEF SolveExactly, AllKeys
    <2>2. AllKeys' \ keys' = {}
        BY <1>2, <2>1
    <2>3. \A c \in Capacities : c \in Nat /\ IsBest({}, c, 0)
        BY <1>1, BestOfNothing DEF Capacities
    <2>4. ASSUME NEW c \in Capacities' PROVE IsBest(AllKeys \ keys, c, best[c])'
        <3>1. best'[c] = 0
            BY <1>1, <2>1, <2>4
        <3>2. IsBest(AllKeys' \ keys', c, best'[c])
            BY <1>1, <2>2, <2>3, <2>4, <3>1
        <3> QED
            BY <1>2, <3>2
    <2> QED
        BY <1>2, <2>1, <2>2, <2>4
<1>4. CASE FillRow
    <2>1. PICK k \in keys :
            /\ \A l \in keys : k <= l
            /\ table' = [table EXCEPT ![k] = [c \in Capacities |-> Choice(k, c)]]
            /\ best' = [c \in Capacities |-> BestWith(k, c)]
            /\ keys' = keys \ {k}
        BY <1>4 DEF FillRow
    <2>2. PICK K : K = AllKeys \ keys
        OBVIOUS
    <2>3. /\ pc = "rows" /\ keys \subseteq AllKeys /\ k \in AllKeys /\ k \notin K
          /\ \A l \in K, m \in keys : l < m
          /\ \A c \in Capacities : IsBest(K, c, best[c])
          /\ \A l \in K : RowInv(l)
        BY <1>4, <2>1, <2>2 DEF FillRow, ExactInv
    <2>4. AllKeys \subseteq Nat /\ AllKeys \subseteq KeysOf(Item)
        BY AllKeysTyped
    <2>5. KeysBelow(k) = K
        <3>1. \A l \in keys : ~ (l < k)
            BY <2>1, <2>3, <2>4
        <3> QED
            BY <2>1, <2>2, <2>3, <3>1 DEF KeysBelow
    <2>6. AllKeys' \ keys' = K \cup {k}
        BY <1>2, <2>1, <2>2, <2>3
    <2>7. \A l \in AllKeys' \ keys', m \in keys' : l < m
        <3>1. \A m \in keys' : k < m
            BY <2>1, <2>3, <2>4
        <3> QED
            BY <2>1, <2>3, <2>6, <3>1
    <2>8. \A c \in Capacities :
            /\ IsBest(K \cup {k}, c, BestWith(k, c))
            /\ Choice(k, c) = NoItem => BestWith(k, c) = best[c]
            /\ Choice(k, c) # NoItem =>
                  /\ Choice(k, c) \in Usable /\ Weight(Choice(k, c)) <= c
                  /\ IsBest(K, c - Weight(Choice(k, c)), best[c - Weight(Choice(k, c))])
                  /\ BestWith(k, c) = best[c - Weight(Choice(k, c))] + Value(Choice(k, c))
        BY <1>1, <2>3, RowIsBest
    <2>9. ASSUME NEW c \in Capacities' PROVE IsBest(AllKeys \ keys, c, best[c])'
        <3>1. best'[c] = BestWith(k, c)
            BY <1>1, <2>1, <2>9
        <3>2. IsBest(AllKeys' \ keys', c, best'[c])
            BY <1>1, <2>6, <2>8, <2>9, <3>1
        <3> QED
            BY <1>2, <3>2
    <2>10. ASSUME NEW c \in Capacities PROVE Reaches(k, c, Choice(k, c))
        <3>1. CASE Choice(k, c) = NoItem
            BY <2>3, <2>5, <2>8, <3>1 DEF Reaches
        <3>2. CASE Choice(k, c) # NoItem
            BY <2>5, <2>8, <3>2 DEF Reaches
        <3> QED
            BY <3>1, <3>2
    <2>11. RowInv(k)'
        <3>1. \A c \in Capacities : table'[k][c] = Choice(k, c)
            BY <2>1, <2>3, <2>4 DEF Inv, TypeOK
        <3>2. \A c, i : Reaches(k, c, i)' <=> Reaches(k, c, i)
            BY <1>1, ReachesKept
        <3> QED
            BY <1>1, <2>10, <3>1, <3>2 DEF RowInv
    <2>12. ASSUME NEW l \in K PROVE RowInv(l)'
        <3>1. l # k /\ RowInv(l) /\ l \in KeysOf(Item)
            BY <2>2, <2>3, <2>4
        <3>2. table'[l] = table[l]
            BY <2>1, <3>1 DEF Inv, TypeOK
        <3> QED
            BY <1>1, <3>1, <3>2, RowKept
    <2>13. keys' \subseteq AllKeys'
        BY <1>2, <2>1, <2>3
    <2> QED
        BY <2>6, <2>7, <2>9, <2>11, <2>12, <2>13
<1>5. CASE ~SolveExactly /\ ~FillRow
    <2>1. SUFFICES ASSUME pc' = "rows" PROVE RowsInv'
        OBVIOUS
    <2>2. UNCHANGED <<pc, keys, best, table>>
        BY <1>5, <2>1 DEF Next, vars, SolveNothing, SolveGreedily, WalkBack, Take, Pass,
           WalkEnds, Grab, LeaveOut, GreedyEnds, Decide
    <2>3. \A k : RowInv(k) => RowInv(k)'
        BY <1>1, <2>2, RowKept
    <2> QED
        BY <1>1, <1>2, <2>1, <2>2, <2>3 DEF ExactInv
<1> QED
    BY <1>3, <1>4, <1>5

\* The walk back takes from each row what reaches the optimum.
LEMMA WalkStep == ASSUME Inv, ExactInv, [Next]_vars PROVE WalkInv'
<1> USE DEF WalkInv
<1>1. /\ input' = input /\ input \in Arguments /\ Capacities' = Capacities
      /\ best \in [Capacities -> Int] /\ Capacity \in Nat
    BY InputKept, CapacityFits DEF Inv, TypeOK, Capacities, Capacity
<1>2. /\ \A K, c, v : IsBest(K, c, v)' <=> IsBest(K, c, v)
      /\ AllKeys' = AllKeys /\ Capacity' = Capacity
      /\ \A S : TotalValue(S)' = TotalValue(S) /\ TotalWeight(S)' = TotalWeight(S)
    BY <1>1, BestKept
<1>3. CASE WalkBack
    <2>1. PICK c \in Capacities :
            /\ \A d \in Capacities : best[d] < best[c] \/ (best[d] = best[c] /\ c <= d)
            /\ at' = c
        BY <1>3 DEF WalkBack
    <2>2. /\ keys' = AllKeys /\ keys = {} /\ UNCHANGED <<picked, table>> /\ picked = {}
          /\ pc = "rows"
        BY <1>3 DEF WalkBack, AllKeys, Inv, PickInv
    <2>3. /\ \A d \in Capacities : IsBest(AllKeys, d, best[d])
          /\ \A k \in AllKeys : RowInv(k)
        BY <2>2 DEF ExactInv, RowsInv
    <2>4. c \in Nat /\ c <= Capacity /\ Capacity \in Capacities
        BY <1>1 DEF Capacities
    <2>5. best[c] = best[Capacity]
        <3>1. best[c] \in Int /\ best[Capacity] \in Int /\ best[Capacity] <= best[c]
            BY <1>1, <2>1, <2>4
        <3>2. PICK S \in Within(AllKeys, c) : TotalValue(S) = best[c]
            BY <2>3 DEF IsBest
        <3>3. S \in Within(AllKeys, Capacity)
            <4>1. TotalWeight(S) \in Nat /\ TotalWeight(S) <= c
                BY <1>1, <3>2, WithinItems, WeightFacts DEF Within
            <4> QED
                BY <2>4, <3>2, <4>1 DEF Within
        <3>4. best[c] <= best[Capacity]
            BY <2>3, <2>4, <3>2, <3>3 DEF IsBest
        <3> QED
            BY <3>1, <3>4
    <2>6. TotalWeight({}) = 0 /\ TotalValue({}) = 0 /\ best[c] \in Int
        BY <1>1, ValueFacts, WeightFacts
    <2>7. IsBest(AllKeys, c, best[c]) /\ IsBest(AllKeys, Capacity, TotalValue({}) + best[c])
        BY <2>3, <2>4, <2>5, <2>6
    <2>8. \E v : IsBest(keys, at, v)' /\ IsBest(AllKeys, Capacity, TotalValue(picked) + v)'
        <3>1. IsBest(keys', at', best[c]) /\ IsBest(AllKeys', Capacity', TotalValue(picked') + best[c])
            BY <1>2, <2>1, <2>2, <2>7
        <3>2. PICK w : w = best[c]
            OBVIOUS
        <3>3. TotalValue(picked)' = TotalValue(picked')
            BY <1>1 DEF TotalValue
        <3> QED
            BY <1>2, <3>1, <3>2, <3>3
    <2>9. TotalWeight(picked)' + at' <= Capacity'
        <3>1. TotalWeight(picked)' = TotalWeight({})
            BY <1>2, <2>2
        <3> QED
            BY <1>2, <2>1, <2>4, <2>6, <3>1
    <2>10. \A k \in AllKeys' : RowInv(k)'
        BY <1>1, <1>2, <2>2, <2>3, RowKept
    <2> QED
        BY <1>2, <2>2, <2>8, <2>9, <2>10
<1>4. CASE Take \/ Pass
    <2>1. PICK k \in keys :
            /\ Last(k) /\ keys' = keys \ {k}
            /\ \/ /\ table[k][at] # NoItem
                  /\ picked' = picked \cup {table[k][at]}
                  /\ at' = at - Weight(table[k][at])
               \/ table[k][at] = NoItem /\ picked' = picked /\ at' = at
        BY <1>4 DEF Take, Pass
    <2>2. pc = "walk" /\ table' = table
        BY <1>4 DEF Take, Pass
    <2>3. PICK v : IsBest(keys, at, v) /\ IsBest(AllKeys, Capacity, TotalValue(picked) + v)
        BY <2>2 DEF ExactInv
    <2>4. /\ keys \subseteq AllKeys /\ k \in AllKeys /\ AllKeys \subseteq Nat
          /\ \A l \in AllKeys \ keys, m \in keys : m < l
          /\ \A l \in AllKeys : RowInv(l)
          /\ TotalWeight(picked) + at <= Capacity
        BY <2>1, <2>2, AllKeysTyped DEF ExactInv
    <2>5. keys' = KeysBelow(k) /\ keys = KeysBelow(k) \cup {k}
        <3>1. \A l \in keys : l <= k
            BY <2>1 DEF Last
        <3>2. \A l \in AllKeys \ keys : ~ (l < k)
            BY <2>1, <2>4
        <3>3. \A l \in keys \ {k} : l < k
            BY <2>4, <3>1
        <3> QED
            BY <2>1, <2>4, <3>2, <3>3 DEF KeysBelow
    <2>6. \A l \in AllKeys' \ keys', m \in keys' : m < l
        <3>1. \A m \in keys' : m < k
            BY <2>5 DEF KeysBelow
        <3> QED
            BY <1>2, <2>1, <2>4, <3>1
    <2>7. PICK i, c : i = table[k][at] /\ c = at
        OBVIOUS
    <2>8. /\ Reaches(k, c, i) /\ c \in Nat /\ picked \in SUBSET Item /\ v \in Int
          /\ TotalValue(picked) \in Int /\ TotalWeight(picked) \in Nat
        BY <1>1, <2>3, <2>4, <2>7, BestIsInt, ValueFacts, WeightFacts
           DEF RowInv, Inv, TypeOK, Capacities
    \* What remains to be shown, of sets and numbers that do not change with the step.
    <2>9. SUFFICES \E w, P, d : /\ picked' = P /\ at' = d
                                /\ TotalWeight(P) + d <= Capacity
                                /\ IsBest(KeysBelow(k), d, w)
                                /\ IsBest(AllKeys, Capacity, TotalValue(P) + w)
        <3>1. PICK w, P, d : /\ picked' = P /\ at' = d
                             /\ TotalWeight(P) + d <= Capacity
                             /\ IsBest(KeysBelow(k), d, w)
                             /\ IsBest(AllKeys, Capacity, TotalValue(P) + w)
            BY <2>9
        <3>2. TotalWeight(picked)' = TotalWeight(P) /\ TotalValue(picked)' = TotalValue(P)
            BY <1>2, <3>1
        <3>3. TotalWeight(picked)' + at' <= Capacity'
            BY <1>2, <3>1, <3>2
        <3>4. IsBest(keys', at', w) /\ IsBest(AllKeys', Capacity', TotalValue(picked)' + w)
            BY <1>2, <2>5, <3>1, <3>2
        <3>5. \E u : IsBest(keys, at, u)' /\ IsBest(AllKeys, Capacity, TotalValue(picked) + u)'
            BY <1>2, <3>4
        <3>6. \A l \in AllKeys' : RowInv(l)'
            BY <1>1, <1>2, <2>2, <2>4, RowKept
        <3>7. keys' \subseteq AllKeys'
            BY <1>2, <2>1, <2>4
        <3> QED
            BY <2>6, <3>3, <3>5, <3>6, <3>7
    <2>10. CASE i = NoItem
        <3>1. PICK w : IsBest(KeysBelow(k), c, w) /\ IsBest(KeysBelow(k) \cup {k}, c, w)
            BY <2>8, <2>10, UsableItems, AllocatorAssumption DEF Reaches
        <3>2. w = v
            BY <1>1, <2>3, <2>5, <2>7, <3>1, BestUnique
        <3> QED
            BY <2>1, <2>3, <2>4, <2>7, <2>10, <3>1, <3>2
    <2>11. CASE i # NoItem
        <3>1. i \in Usable /\ Weight(i) <= c
            BY <2>8, <2>11 DEF Reaches
        <3>2. PICK w : /\ IsBest(KeysBelow(k), c - Weight(i), w)
                       /\ IsBest(KeysBelow(k) \cup {k}, c, w + Value(i))
            BY <2>8, <2>11 DEF Reaches
        <3>3. w + Value(i) = v /\ w \in Int
            BY <1>1, <2>3, <2>5, <2>7, <3>2, BestUnique, BestIsInt
        <3>4. i \in Item \ picked
            <4>1. KeyOf[i] = k
                BY <2>4, <2>7, <2>11, AllKeysTyped DEF Inv, TableInv, TypeOK
            <4>2. \A j \in picked : KeyOf[j] \notin keys
                BY <2>2 DEF Inv, PickInv
            <4> QED
                BY <3>1, <4>1, <4>2, UsableItems
        <3>5. PICK P : P = picked \cup {i}
            OBVIOUS
        <3>6. TotalValue(P) = Value(i) + TotalValue(picked) /\ TotalWeight(P) = Weight(i) + TotalWeight(picked)
            BY <1>1, <2>8, <3>4, <3>5, ValueFacts, WeightFacts
        <3>7. Weight(i) \in Nat /\ Value(i) \in Int
            BY <1>1, <3>4, ItemTyped
        <3>8. picked' = P /\ at' = c - Weight(i)
            BY <2>1, <2>7, <2>11, <3>5
        <3>9. TotalWeight(P) + (c - Weight(i)) <= Capacity
            BY <1>1, <2>4, <2>7, <2>8, <3>6, <3>7
        <3>10. TotalValue(P) + w = TotalValue(picked) + v
            BY <2>8, <3>3, <3>6, <3>7
        <3> QED
            BY <2>3, <3>2, <3>8, <3>9, <3>10
    <2> QED
        BY <2>10, <2>11
<1>5. CASE ~WalkBack /\ ~Take /\ ~Pass
    <2>1. SUFFICES ASSUME pc' = "walk" PROVE WalkInv'
        OBVIOUS
    <2>2. UNCHANGED <<pc, keys, at, table, picked>>
        BY <1>5, <2>1 DEF Next, vars, SolveNothing, SolveExactly, SolveGreedily, FillRow,
           WalkEnds, Grab, LeaveOut, GreedyEnds, Decide
    <2>3. \A k : RowInv(k) => RowInv(k)'
        BY <1>1, <2>2, RowKept
    <2>4. PICK v : IsBest(keys, at, v) /\ IsBest(AllKeys, Capacity, TotalValue(picked) + v)
        BY <2>1, <2>2 DEF ExactInv
    <2>5. TotalValue(picked)' = TotalValue(picked) /\ TotalWeight(picked)' = TotalWeight(picked)
        BY <1>2, <2>2
    <2>6. \E u : IsBest(keys, at, u)' /\ IsBest(AllKeys, Capacity, TotalValue(picked) + u)'
        BY <1>2, <2>2, <2>4, <2>5
    <2> QED
        BY <1>2, <2>1, <2>2, <2>3, <2>5, <2>6 DEF ExactInv
<1> QED
    BY <1>3, <1>4, <1>5

\* When the walk back has ended, or there was nothing to walk, what is picked is an optimum.
LEMMA ResultStep == ASSUME Inv, ExactInv, [Next]_vars PROVE ResultInv'
<1> USE DEF ResultInv
<1>1. input' = input /\ input \in Arguments /\ Capacity \in Nat
    BY InputKept, CapacityFits DEF Inv, TypeOK
<1>2. /\ \A K, c, v : IsBest(K, c, v)' <=> IsBest(K, c, v)
      /\ AllKeys' = AllKeys /\ Capacity' = Capacity
      /\ \A S : TotalValue(S)' = TotalValue(S) /\ TotalWeight(S)' = TotalWeight(S)
    BY <1>1, BestKept
<1>3. ASSUME picked' = picked, TotalWeight(picked) <= Capacity,
             IsBest(AllKeys, Capacity, TotalValue(picked))
      PROVE  ResultInv'
    <2>1. TotalValue(picked)' = TotalValue(picked) /\ TotalWeight(picked)' = TotalWeight(picked)
        BY <1>2, <1>3
    <2>2. IsBest(AllKeys, Capacity, TotalValue(picked))'
        BY <1>2, <1>3, <2>1
    <2> QED
        BY <1>2, <1>3, <2>1, <2>2
<1>4. CASE SolveNothing
    <2>1. picked' = picked /\ picked = {} /\ AllKeys = {}
        BY <1>4 DEF SolveNothing, Inv, PickInv, AllKeys, KeysOf
    <2> QED
        BY <1>1, <1>3, <2>1, BestOfNothing, ValueFacts, WeightFacts
<1>5. CASE WalkEnds
    <2>1. pc = "walk" /\ keys = {} /\ picked' = picked /\ at \in Nat
        BY <1>1, <1>5 DEF WalkEnds, Inv, TypeOK, Capacities
    <2>2. PICK v : IsBest({}, at, v) /\ IsBest(AllKeys, Capacity, TotalValue(picked) + v)
        BY <2>1 DEF ExactInv, WalkInv
    <2>3. v = 0
        BY <1>1, <2>1, <2>2, BestOfNothing, BestUnique
    <2>4. TotalValue(picked) \in Int /\ TotalWeight(picked) \in Nat /\ TotalWeight(picked) + at <= Capacity
        BY <1>1, <2>1, ValueFacts, WeightFacts DEF Inv, TypeOK, ExactInv, WalkInv
    <2> QED
        BY <1>1, <1>3, <2>1, <2>2, <2>3, <2>4
<1>6. CASE Decide \/ UNCHANGED vars
    <2>1. picked' = picked /\ strategy' = strategy
        BY <1>6 DEF Decide, vars
    <2>2. pc' \in {"decide", "done"} => pc \in {"decide", "done"}
        BY <1>6 DEF Decide, vars
    <2> QED
        BY <1>3, <2>1, <2>2 DEF ExactInv
<1>7. CASE SolveExactly \/ FillRow \/ WalkBack \/ Take \/ Pass
    BY <1>7 DEF SolveExactly, FillRow, WalkBack, Take, Pass, Inv, TypeOK
<1>8. CASE SolveGreedily \/ Grab \/ LeaveOut \/ GreedyEnds
    <2>1. pc' \in {"decide", "done"} => strategy' = "GREEDY_DENSITY"
        BY <1>8 DEF SolveGreedily, Grab, LeaveOut, GreedyEnds, Inv, GreedyInv
    <2> QED
        BY <2>1
<1> QED
    BY <1>4, <1>5, <1>6, <1>7, <1>8 DEF Next

\* What ResultInv says of picked is what the run checks.
LEMMA ResultIsOptimal ==
    ASSUME Inv, ExactInv
    PROVE  ExactIsOptimal
<1>1. SUFFICES ASSUME pc = "done", strategy = "EXACT_DP"
               PROVE  /\ Feasible(picked)
                      /\ \A S \in SUBSET Usable : Feasible(S) => TotalValue(S) <= TotalValue(picked)
    BY DEF ExactIsOptimal
<1>2. TotalWeight(picked) <= Capacity /\ IsBest(AllKeys, Capacity, TotalValue(picked))
    BY <1>1 DEF ExactInv, ResultInv
<1>3. Feasible(picked)
    BY <1>2 DEF Feasible, Inv, PickInv, OnePerKey
<1>4. ItemsOf(AllKeys) = Usable
    BY DEF ItemsOf, AllKeys, KeysOf
<1>5. \A S \in SUBSET Usable : Feasible(S) => S \in Within(AllKeys, Capacity)
    BY <1>4 DEF Within, Feasible, OnePer
<1> QED
    BY <1>2, <1>3, <1>5 DEF IsBest

-----------------------------------------------------------------------------
LEMMA InvStep == ASSUME Inv, [Next]_vars PROVE Inv'
    BY TypeStep, TableStep, PickStep, GreedyStep DEF Inv

LEMMA Invariance == Spec => []Inv
    BY InitInv, InvStep, PTL DEF Spec

\* Capacities stay in the table and items in their domains, whatever the input.
THEOREM TypeCorrect == Spec => []TypeOK
<1>1. Inv => TypeOK
    BY DEF Inv
<1>2. QED
    BY <1>1, Invariance, PTL

\* The budget is kept by both strategies, for every scale the costs are rounded to.
THEOREM NeverOverspends == Spec => []WithinBudget
<1>1. Inv => WithinBudget
    BY DEF Inv, PickInv
<1>2. QED
    BY <1>1, Invariance, PTL

\* A user gets one incentive and a circle one reward, with both strategies.
THEOREM OnePickPerKey == Spec => []OnePerKey
<1>1. Inv => OnePerKey
    BY DEF Inv, PickInv
<1>2. QED
    BY <1>1, Invariance, PTL

\* The fallback reports as exhausted only what the budget has no room for.
THEOREM FallbackIsMaximal == Spec => []GreedyIsMaximal
<1>1. ASSUME Inv PROVE GreedyIsMaximal
    <2>1. SUFFICES ASSUME pc = "done", strategy = "GREEDY_DENSITY",
                          NEW i \in Item, reason[i] = "BUDGET_EXHAUSTED"
                   PROVE  spent + Cost(i) > input.budget
        BY DEF GreedyIsMaximal
    <2>2. ReasonOf(i) = "BUDGET_EXHAUSTED" /\ rest = {}
        BY <1>1, <2>1 DEF Inv, GreedyInv
    <2>3. i \notin picked /\ KeyOf[i] \notin KeysOf(picked) /\ ~(Value(i) <= 0)
        BY <2>2 DEF ReasonOf
    <2>4. Value(i) \in Int
        BY <1>1 DEF Inv, TypeOK, Arguments, Value
    <2>5. i \in Positive
        BY <2>3, <2>4 DEF Positive
    <2>6. Settled(i)
        BY <1>1, <2>1, <2>2, <2>5 DEF Inv, GreedyInv
    <2>7. QED
        BY <2>3, <2>6 DEF Settled
<1>2. QED
    BY <1>1, Invariance, PTL

LEMMA ExactInvariance == Spec => [](Inv /\ ExactInv)
<1>1. Inv /\ ExactInv /\ [Next]_vars => (Inv /\ ExactInv)'
    BY InvStep, RowsStep, WalkStep, ResultStep DEF ExactInv
<1> QED
    BY InitInv, ExactInit, <1>1, PTL DEF Spec

\* The dynamic program picks an optimum: within the scaled budget, one item for each key,
\* and of a value that no such choice exceeds.
THEOREM ExactFindsOptimum == Spec => []ExactIsOptimal
<1>1. Inv /\ ExactInv => ExactIsOptimal
    BY ResultIsOptimal
<1> QED
    BY ExactInvariance, <1>1, PTL

-----------------------------------------------------------------------------
(* What rounding costs: nothing, when the scale divides the costs.         *)

LEMMA NoRemainder ==
    ASSUME NEW a \in Nat, NEW b \in Nat \ {0}, a % b = 0
    PROVE  a = b * (a \div b)
    BY SMT

LEMMA OneMore ==
    ASSUME NEW s \in Nat, NEW n \in Nat
    PROVE  s * (n + 1) = s * n + s
    BY SMT

\* A cost that the scale divides has the weight it is divided to.
LEMMA WeightOfMultiple ==
    ASSUME input \in Arguments, NEW i \in Item, Cost(i) % input.scale = 0
    PROVE  input.scale * Weight(i) = Cost(i)
<1>1. PICK s \in Nat \ {0}, c \in Nat, w \in Nat, q \in Nat :
         s = input.scale /\ c = Cost(i) /\ w = Weight(i) /\ q = c \div s
    BY WeightCovers, DivDown DEF Arguments
<1>2. s * w <= c + s - 1 /\ c <= s * w
    <2>1. c + s - 1 \in Nat /\ w = (c + s - 1) \div s
        BY <1>1 DEF Weight
    <2> QED
        BY <1>1, <2>1, DivDown, WeightCovers
<1>3. c = s * q
    <2>1. c % s = 0
        BY <1>1
    <2> QED
        BY <1>1, <2>1, NoRemainder
<1>4. w <= q
    <2>1. SUFFICES ASSUME q + 1 <= w PROVE FALSE
        BY <1>1
    <2>2. s * (q + 1) <= s * w
        BY <1>1, <2>1, Monotone
    <2>3. s * (q + 1) = s * q + s
        BY <1>1, OneMore
    <2>4. s * w \in Nat /\ s * q \in Nat
        BY <1>1
    <2> QED
        BY <1>1, <1>2, <1>3, <2>2, <2>3, <2>4
<1>5. s * w <= s * q
    BY <1>1, <1>4, Monotone
<1>6. s * w \in Nat /\ s * q \in Nat
    BY <1>1
<1> QED
    BY <1>1, <1>2, <1>3, <1>5, <1>6

LEMMA ScaledSums ==
    ASSUME input \in Arguments, ScaleDivides
    PROVE  \A S \in SUBSET Usable : /\ SumFunctionOnSet(input.cost, S) \in Int
                                    /\ input.scale * TotalWeight(S) = SumFunctionOnSet(input.cost, S)
<1> DEFINE C(S) == SumFunctionOnSet(input.cost, S)
           W(S) == input.scale * TotalWeight(S)
           Off == {S \in SUBSET Usable : W(S) # C(S)}
           N == {Cardinality(S) : S \in Off}
<1>1. /\ IsFiniteSet(Usable) /\ IsFiniteSet(Item) /\ Usable \subseteq Item
      /\ \A i \in Usable : input.cost[i] \in Int /\ input.cost[i] = Cost(i)
      /\ input.scale \in Nat
    <2>1. IsFiniteSet(Item) /\ Usable \subseteq Item
        BY UsableItems, AllocatorAssumption
    <2>2. IsFiniteSet(Usable)
        BY <2>1, FS_Subset
    <2> QED
        BY <2>1, <2>2 DEF Arguments, Cost
<1>2. \A S \in SUBSET Usable : C(S) \in Int /\ (S = {} => C(S) = 0)
    BY <1>1, SumRecursion
<1>3. ASSUME NEW S \in SUBSET Usable, NEW i \in S
      PROVE  C(S) = Cost(i) + C(S \ {i}) /\ W(S) = Cost(i) + W(S \ {i})
    <2>1. C(S) = input.cost[i] + C(S \ {i})
        BY <1>1, SumSplit
    <2>2. S \ {i} \in SUBSET Item /\ i \in Item \ (S \ {i}) /\ S = (S \ {i}) \cup {i}
        BY <1>1
    <2>3. TotalWeight(S) = Weight(i) + TotalWeight(S \ {i})
        BY <2>2, WeightFacts
    <2>4. TotalWeight(S \ {i}) \in Nat /\ Weight(i) \in Nat
        BY <2>2, WeightFacts, ItemTyped
    <2>5. input.scale * Weight(i) = Cost(i)
        BY <2>2, WeightOfMultiple DEF ScaleDivides
    <2>6. input.scale * (Weight(i) + TotalWeight(S \ {i})) = input.scale * Weight(i) + input.scale * TotalWeight(S \ {i})
        BY <1>1, <2>4, SMT
    <2> QED
        BY <1>1, <2>1, <2>3, <2>5, <2>6
<1>4. ASSUME Off # {} PROVE FALSE
    <2>1. N \in SUBSET Nat /\ N # {}
        BY <1>1, <1>4, Smaller
    <2>2. PICK n \in N : \A m \in N : n <= m
        BY <2>1, LeastNat
    <2>3. PICK S \in Off : n = Cardinality(S)
        BY <2>2
    <2>4. S \in SUBSET Usable /\ W(S) # C(S)
        BY <2>3
    <2>5. CASE S = {}
        <3>1. TotalWeight(S) = 0
            BY <2>5, WeightFacts
        <3>2. input.scale * 0 = 0
            BY <1>1
        <3> QED
            BY <1>2, <2>4, <2>5, <3>1, <3>2
    <2>6. CASE S # {}
        <3>1. PICK i \in S : TRUE
            BY <2>6
        <3> DEFINE R == S \ {i}
        <3>2. /\ R \in SUBSET Usable /\ Cardinality(S) \in Nat
              /\ Cardinality(R) = Cardinality(S) - 1
            BY <1>1, <2>4, Smaller
        <3>3. R \notin Off
            <4> HIDE DEF Off, R
            <4>1. Cardinality(R) \notin N
                <5> HIDE DEF N
                <5> QED
                    BY <2>2, <2>3, <3>2
            <4> QED
                BY <4>1
        <3>4. W(R) = C(R)
            BY <3>2, <3>3
        <3> QED
            BY <1>3, <2>4, <3>4
    <2> QED
        BY <2>5, <2>6
<1> QED
    BY <1>2, <1>4

\* A choice whose costs are within the budget is then within the scaled budget, so
\* what the dynamic program picks is an optimum for the costs themselves.
THEOREM OptimalWithoutRounding == Spec => []OptimalForMultiples
<1>1. ASSUME Inv, ExactInv PROVE OptimalForMultiples
    <2>1. SUFFICES ASSUME ScaleDivides, pc = "done", strategy = "EXACT_DP", NEW S \in SUBSET Usable,
                          \A i, j \in S : KeyOf[i] = KeyOf[j] => i = j,
                          SumFunctionOnSet(input.cost, S) <= input.budget
                   PROVE  TotalValue(S) <= TotalValue(picked)
        BY DEF OptimalForMultiples, OptimalForCosts
    <2>2. input \in Arguments /\ S \in SUBSET Item
        BY <1>1, UsableItems DEF Inv, TypeOK
    <2>3. PICK s \in Nat \ {0}, b \in Nat, w \in Nat, c \in Nat :
             s = input.scale /\ b = input.budget /\ w = TotalWeight(S) /\ c = Capacity
        BY <2>2, WeightFacts, CapacityFits DEF Arguments
    <2>4. s * w <= b /\ b < s * c + s
        BY <2>1, <2>2, <2>3, ScaledSums, DivDown DEF Capacity
    <2>5. w <= c
        <3>1. SUFFICES ASSUME c + 1 <= w PROVE FALSE
            BY <2>3
        <3>2. s * (c + 1) <= s * w
            BY <2>3, <3>1, Monotone
        <3>3. s * (c + 1) = s * c + s
            BY <2>3, OneMore
        <3>4. s * w \in Nat /\ s * c \in Nat
            BY <2>3
        <3> QED
            BY <2>3, <2>4, <3>2, <3>3, <3>4
    <2>6. Feasible(S)
        BY <2>1, <2>3, <2>5 DEF Feasible
    <2> QED
        BY <1>1, <2>1, <2>6, ResultIsOptimal DEF ExactIsOptimal
<1> QED
    BY ExactInvariance, <1>1, PTL

-----------------------------------------------------------------------------
(* allocate returns: each loop finds its next element, and there are       *)
(* boundedly many rounds.                                                  *)

\* The guards of the steps from each place.  The three ways to start and the ways on
\* from an element exclude each other; what has to exist is the element.
HasNext ==
    /\ pc = "rows" /\ keys # {} => \E k \in keys : \A l \in keys : k <= l
    /\ pc = "rows" => \E c \in Capacities :
                         \A d \in Capacities : best[d] < best[c] \/ (best[d] = best[c] /\ c <= d)
    /\ pc = "walk" /\ keys # {} => \E k \in keys : Last(k)
    /\ pc = "greedy" /\ rest # {} => \E i \in rest : NextItem(i)

\* The loops that are still to come, and the rounds of the one it is in.
LoopsLeft ==
    CASE pc = "start" -> 4
      [] pc = "rows" -> 3
      [] pc \in {"walk", "greedy"} -> 2
      [] pc = "decide" -> 1
      [] OTHER -> 0

RoundsLeft ==
    IF pc \in {"rows", "walk"} THEN Cardinality(keys)
    ELSE IF pc = "greedy" THEN Cardinality(rest) ELSE 0

\* No loop has more rounds than there are items.
StepsLeft == LoopsLeft * (Cardinality(Item) + 1) + RoundsLeft

CountsDown == [][StepsLeft' < StepsLeft]_vars

\* R puts the elements of D into an order, in which S has a first one.
Orders(R, D) ==
    /\ \A i, j \in D : i # j => <<i, j>> \in R \/ <<j, i>> \in R
    /\ \A i, j, k \in D : <<i, j>> \in R /\ <<j, k>> \in R => <<i, k>> \in R

HasFirst(S, R) == \E i \in S : \A j \in S \ {i} : <<i, j>> \in R

\* A finite set has a first element in every total order.
LEMMA FirstOf ==
    ASSUME NEW D, IsFiniteSet(D), NEW R, Orders(R, D), NEW E \in SUBSET D, E # {}
    PROVE  HasFirst(E, R)
<1> USE DEF Orders, HasFirst
<1> DEFINE Off == {S \in SUBSET D : S # {} /\ ~\E i \in S : \A j \in S \ {i} : <<i, j>> \in R}
           N == {Cardinality(S) : S \in Off}
<1>1. ASSUME Off # {} PROVE FALSE
    <2>1. N \in SUBSET Nat /\ N # {}
        BY <1>1, Smaller
    <2>2. PICK n \in N : \A m \in N : n <= m
        BY <2>1, LeastNat
    <2>3. PICK S \in Off : n = Cardinality(S)
        BY <2>2
    <2>4. PICK i \in S : TRUE
        BY <2>3
    <2> DEFINE T == S \ {i}
    <2>5. T \in SUBSET D /\ Cardinality(S) \in Nat /\ Cardinality(T) = Cardinality(S) - 1
        <3>1. IsFiniteSet(S) /\ Cardinality(S) \in Nat
            BY FS_Subset, FS_CardinalityType
        <3> QED
            BY <3>1, FS_RemoveElement
    <2>6. T \notin Off
        <3> HIDE DEF T, Off
        <3>1. Cardinality(T) \in N => Cardinality(S) <= Cardinality(S) - 1
            BY <2>2, <2>3, <2>5
        <3>2. Cardinality(T) \notin N
            BY <2>5, <3>1
        <3> QED
            BY <3>2
    <2>7. T # {}
        BY <2>3, <2>4
    <2>8. PICK f \in T : \A j \in T \ {f} : <<f, j>> \in R
        BY <2>5, <2>6, <2>7
    <2>9. f \in D /\ i \in D /\ f # i
        BY <2>3, <2>4, <2>8
    <2>10. CASE <<f, i>> \in R
        <3>1. \A j \in S \ {f} : <<f, j>> \in R
            BY <2>8, <2>10
        <3> QED
            BY <2>3, <2>8, <3>1
    <2>11. CASE <<i, f>> \in R
        <3>1. \A j \in S \ {i} : <<i, j>> \in R
            BY <2>3, <2>8, <2>9, <2>11
        <3> QED
            BY <2>3, <2>4, <3>1
    <2> QED
        BY <2>9, <2>10, <2>11
<1> QED
    BY <1>1

LEMMA KeysFinite ==
    ASSUME NEW K \in SUBSET KeysOf(Item)
    PROVE  /\ IsFiniteSet(K) /\ K \in SUBSET Nat
           /\ Cardinality(K) \in Nat /\ Cardinality(K) <= Cardinality(Item)
<1>1. KeyOf \in Surjection(Item, KeysOf(Item))
    BY AllocatorAssumption DEF KeysOf, Surjection
<1>2. IsFiniteSet(KeysOf(Item)) /\ Cardinality(KeysOf(Item)) <= Cardinality(Item)
    BY <1>1, AllocatorAssumption, FS_Surjection
<1>3. IsFiniteSet(K) /\ Cardinality(K) <= Cardinality(KeysOf(Item))
    BY <1>2, FS_Subset
<1>4. /\ Cardinality(K) \in Nat /\ Cardinality(KeysOf(Item)) \in Nat
      /\ Cardinality(Item) \in Nat
    BY <1>2, <1>3, AllocatorAssumption, FS_CardinalityType
<1>5. K \in SUBSET Nat
    BY AllocatorAssumption DEF KeysOf
<1> QED
    BY <1>2, <1>3, <1>4, <1>5

\* The greedy order is total and transitive for any values and costs.
LEMMA Times ==
    ASSUME NEW a \in Int, NEW b \in Int, NEW c \in Int
    PROVE  /\ a * b \in Int /\ a * b = b * a
           /\ (a * b) * c = (a * c) * b
           /\ (a * b) * c = (c * b) * a
    BY SMT

LEMMA Scaled ==
    ASSUME NEW a \in Int, NEW b \in Int, NEW m \in Nat \ {0}
    PROVE  (a * m < b * m <=> a < b) /\ (a * m = b * m <=> a = b)
    BY SMT

LEMMA DensityTerms ==
    ASSUME input \in Arguments, NEW i \in Item
    PROVE  Value(i) \in Int /\ AtLeastOne(Cost(i)) \in Nat \ {0}
<1>1. Value(i) \in Int /\ Cost(i) \in Nat
    BY DEF Arguments, Value, Cost
<1> QED
    BY <1>1 DEF AtLeastOne

LEMMA DenserTransitive ==
    ASSUME input \in Arguments, NEW i \in Item, NEW j \in Item, NEW k \in Item,
           Denser(i, j), Denser(j, k)
    PROVE  Denser(i, k)
<1>1. PICK v \in Int, w \in Int, u \in Int, a \in Nat \ {0}, b \in Nat \ {0}, c \in Nat \ {0} :
         /\ v = Value(i) /\ w = Value(j) /\ u = Value(k)
         /\ a = AtLeastOne(Cost(i)) /\ b = AtLeastOne(Cost(j)) /\ c = AtLeastOne(Cost(k))
    BY DensityTerms
<1>2. /\ v * b > w * a \/ (v * b = w * a /\ i < j)
      /\ w * c > u * b \/ (w * c = u * b /\ j < k)
    BY <1>1 DEF Denser
<1>3. /\ v * b \in Int /\ w * a \in Int /\ w * c \in Int /\ u * b \in Int
      /\ v * c \in Int /\ u * a \in Int
    BY Times
<1>4. /\ (v * b) * c > (w * a) * c \/ ((v * b) * c = (w * a) * c /\ i < j)
      /\ (w * c) * a > (u * b) * a \/ ((w * c) * a = (u * b) * a /\ j < k)
    BY <1>2, <1>3, Scaled
<1>5. /\ (v * b) * c = (v * c) * b
      /\ (w * a) * c = (w * c) * a
      /\ (u * b) * a = (u * a) * b
    BY Times
<1>6. PICK x \in Int, y \in Int, z \in Int :
         x = (v * c) * b /\ y = (w * c) * a /\ z = (u * a) * b
    BY <1>3, Times
<1>7. x > z \/ (x = z /\ i < k)
    <2>1. i \in Nat /\ j \in Nat /\ k \in Nat
        BY AllocatorAssumption
    <2>2. (x > y \/ (x = y /\ i < j)) /\ (y > z \/ (y = z /\ j < k))
        BY <1>4, <1>5, <1>6
    <2> QED
        BY <2>1, <2>2
<1>8. v * c > u * a \/ (v * c = u * a /\ i < k)
    BY <1>3, <1>6, <1>7, Scaled
<1> QED
    BY <1>1, <1>8 DEF Denser

LEMMA DenserTotal ==
    ASSUME input \in Arguments, NEW i \in Item, NEW j \in Item, i # j
    PROVE  Denser(i, j) \/ Denser(j, i)
<1>1. PICK v \in Int, w \in Int, a \in Nat, b \in Nat :
         /\ v = Value(i) /\ w = Value(j)
         /\ a = AtLeastOne(Cost(i)) /\ b = AtLeastOne(Cost(j))
    BY DensityTerms
<1>2. v * b \in Int /\ w * a \in Int /\ i \in Nat /\ j \in Nat
    BY Times, AllocatorAssumption
<1>3. \/ v * b > w * a \/ (v * b = w * a /\ i < j)
      \/ w * a > v * b \/ (w * a = v * b /\ j < i)
    BY <1>2
<1> QED
    BY <1>1, <1>3 DEF Denser

LEMMA NextExists == ASSUME TypeOK PROVE HasNext
<1> USE DEF TypeOK
<1>1. IsFiniteSet(keys) /\ keys \in SUBSET Nat
    BY KeysFinite
<1>2. ASSUME keys # {} PROVE \E k \in keys : \A l \in keys : k <= l
    BY <1>1, <1>2, LeastNat
<1>3. ASSUME keys # {} PROVE \E k \in keys : Last(k)
    <2> DEFINE R == {p \in keys \X keys : p[2] <= p[1]}
    <2>1. \A k, l \in keys : <<k, l>> \in R <=> l <= k
        OBVIOUS
    <2> HIDE DEF R
    <2>2. Orders(R, keys)
        BY <1>1, <2>1 DEF Orders
    <2>3. HasFirst(keys, R)
        BY <1>1, <1>3, <2>2, FirstOf
    <2>4. PICK k \in keys : \A l \in keys \ {k} : <<k, l>> \in R
        BY <2>3 DEF HasFirst
    <2>5. ASSUME NEW l \in keys PROVE l <= k
        <3>1. CASE l = k
            BY <1>1, <3>1
        <3>2. CASE l # k
            BY <2>1, <2>4, <3>2
        <3> QED
            BY <3>1, <3>2
    <2> QED
        BY <2>4, <2>5 DEF Last
<1>4. \E c \in Capacities :
         \A d \in Capacities : best[d] < best[c] \/ (best[d] = best[c] /\ c <= d)
    <2>1. Capacity \in Nat
        BY CapacityFits
    <2>2. IsFiniteSet(Capacities)
        BY <2>1, FS_Interval DEF Capacities
    <2>3. 0 \in Capacities /\ Capacities \subseteq Nat
        BY <2>1 DEF Capacities
    <2> DEFINE R == {p \in Capacities \X Capacities :
                        best[p[2]] < best[p[1]] \/ (best[p[2]] = best[p[1]] /\ p[1] <= p[2])}
    <2>4. \A c, d \in Capacities :
             <<c, d>> \in R <=> best[d] < best[c] \/ (best[d] = best[c] /\ c <= d)
        OBVIOUS
    <2> HIDE DEF R
    <2>5. \A c \in Capacities : best[c] \in Int /\ c \in Nat
        BY <2>3
    <2>6. Orders(R, Capacities)
        BY <2>4, <2>5 DEF Orders
    <2>7. HasFirst(Capacities, R)
        BY <2>2, <2>3, <2>6, FirstOf
    <2>8. PICK c \in Capacities : \A d \in Capacities \ {c} : <<c, d>> \in R
        BY <2>7 DEF HasFirst
    <2>9. ASSUME NEW d \in Capacities
          PROVE  best[d] < best[c] \/ (best[d] = best[c] /\ c <= d)
        <3>1. CASE d = c
            BY <2>5, <3>1
        <3>2. CASE d # c
            BY <2>4, <2>8, <3>2
        <3> QED
            BY <3>1, <3>2
    <2> QED
        BY <2>9
<1>5. ASSUME rest # {} PROVE \E i \in rest : NextItem(i)
    <2> DEFINE R == {p \in Item \X Item : Denser(p[1], p[2])}
    <2>1. \A i, j \in Item : <<i, j>> \in R <=> Denser(i, j)
        OBVIOUS
    <2> HIDE DEF R
    <2>2. Orders(R, Item)
        BY <2>1, DenserTotal, DenserTransitive DEF Orders
    <2>3. HasFirst(rest, R)
        BY <1>5, <2>2, FirstOf, AllocatorAssumption
    <2>4. PICK i \in rest : \A j \in rest \ {i} : <<i, j>> \in R
        BY <2>3 DEF HasFirst
    <2> QED
        BY <2>1, <2>4 DEF NextItem
<1> QED
    BY <1>2, <1>3, <1>4, <1>5 DEF HasNext

LEMMA CountsDownStep == ASSUME TypeOK, Next PROVE StepsLeft' < StepsLeft
<1> USE DEF TypeOK
<1>1. PICK M \in Nat \ {0} : M = Cardinality(Item) + 1
    BY AllocatorAssumption, FS_CardinalityType
<1>2. ASSUME NEW K \in SUBSET KeysOf(Item)
      PROVE  Cardinality(K) \in Nat /\ Cardinality(K) < M
    <2>1. /\ Cardinality(K) \in Nat /\ Cardinality(Item) \in Nat
          /\ Cardinality(K) <= Cardinality(Item)
        BY KeysFinite, AllocatorAssumption, FS_CardinalityType
    <2> QED
        BY <1>1, <2>1
<1>3. \A S \in SUBSET Item : Cardinality(S) \in Nat /\ Cardinality(S) < M
    <2>1. \A S \in SUBSET Item : IsFiniteSet(S) /\ Cardinality(S) <= Cardinality(Item)
        BY AllocatorAssumption, FS_Subset
    <2> QED
        BY <1>1, <2>1, FS_CardinalityType, AllocatorAssumption
<1>4. KeysOf(Usable) \in SUBSET KeysOf(Item) /\ Positive \in SUBSET Item
    BY DEF KeysOf, Usable, Positive
<1>5. StepsLeft = LoopsLeft * M + RoundsLeft /\ StepsLeft' = LoopsLeft' * M + RoundsLeft'
    BY <1>1 DEF StepsLeft
<1> USE DEF LoopsLeft, RoundsLeft
<1>6. CASE SolveNothing \/ SolveExactly \/ SolveGreedily
    <2>1. StepsLeft = 4 * M
        BY <1>1, <1>5, <1>6 DEF SolveNothing, SolveExactly, SolveGreedily
    <2>2. CASE SolveNothing
        BY <1>1, <1>5, <2>1, <2>2 DEF SolveNothing
    <2>3. CASE SolveExactly
        BY <1>1, <1>2, <1>4, <1>5, <2>1, <2>3 DEF SolveExactly
    <2>4. CASE SolveGreedily
        BY <1>1, <1>3, <1>4, <1>5, <2>1, <2>4 DEF SolveGreedily
    <2> QED
        BY <1>6, <2>2, <2>3, <2>4
<1>7. CASE FillRow \/ Take \/ Pass
    <2>1. PICK k \in keys : keys' = keys \ {k} /\ pc' = pc /\ pc \in {"rows", "walk"}
        BY <1>7 DEF FillRow, Take, Pass
    <2>2. Cardinality(keys) \in Nat /\ Cardinality(keys') = Cardinality(keys) - 1
        BY <2>1, KeysFinite, FS_RemoveElement
    <2>3. LoopsLeft' * M = LoopsLeft * M /\ LoopsLeft * M \in Nat
        BY <1>1, <2>1
    <2> QED
        BY <1>5, <2>1, <2>2, <2>3
<1>8. CASE WalkBack
    BY <1>1, <1>2, <1>4, <1>5, <1>8 DEF WalkBack
<1>9. CASE WalkEnds \/ GreedyEnds
    BY <1>1, <1>2, <1>3, <1>5, <1>9 DEF WalkEnds, GreedyEnds
<1>10. CASE Grab \/ LeaveOut
    <2>1. PICK i \in rest : rest' = rest \ {i} /\ pc' = pc /\ pc = "greedy"
        BY <1>10 DEF Grab, LeaveOut
    <2>2. Cardinality(rest) \in Nat /\ Cardinality(rest') = Cardinality(rest) - 1
        <3>1. IsFiniteSet(rest)
            BY AllocatorAssumption, FS_Subset
        <3> QED
            BY <2>1, <3>1, FS_CardinalityType, FS_RemoveElement
    <2> QED
        BY <1>1, <1>5, <2>1, <2>2
<1>11. CASE Decide
    BY <1>1, <1>5, <1>11 DEF Decide
<1> QED
    BY <1>6, <1>7, <1>8, <1>9, <1>10, <1>11 DEF Next

\* allocate returns for any items, values and costs: no loop is stuck for want of a next
\* element, and after 4 * (Cardinality(Item) + 1) rounds at the latest it is done.
THEOREM AllocateReturns == Spec => [](HasNext /\ StepsLeft \in Nat) /\ CountsDown
<1>1. ASSUME TypeOK PROVE StepsLeft \in Nat
    <2>1. /\ Cardinality(keys) \in Nat /\ Cardinality(rest) \in Nat
          /\ Cardinality(Item) \in Nat
        BY <1>1, KeysFinite, Smaller, AllocatorAssumption, FS_CardinalityType DEF TypeOK
    <2>2. LoopsLeft \in Nat /\ RoundsLeft \in Nat
        BY <2>1 DEF LoopsLeft, RoundsLeft
    <2> QED
        BY <2>1, <2>2 DEF StepsLeft
<1>2. TypeOK /\ [Next]_vars => [StepsLeft' < StepsLeft]_vars
    BY CountsDownStep
<1>3. TypeOK => HasNext
    BY NextExists
<1> QED
    BY TypeCorrect, <1>1, <1>2, <1>3, PTL DEF Spec, CountsDown
=============================================================================
