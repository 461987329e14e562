--------------------------- MODULE JoinOrderingProofs ---------------------------
(* Proofs about PlanTable and JoinOrdering, and so about PlanEnumerators,  *)
(* TwoPhaseOptimizer and HeuristicSearch: for every number of relations,   *)
(* every connected query graph, any estimates, any number of restarts and  *)
(* every way to search.  They come in this order: the plan table;          *)
(* recursive functions and sequences; bit sets and graphs; the joins of    *)
(* each enumerator; the tasks; the randomised search; the heuristic        *)
(* search; plans as sequences of joins; the order of sequences; the orders *)
(* in which no join comes before its sides, those of DPccp last; the       *)
(* invariant and the theorems.  What plans cost is in BestPlansProofs.     *)
EXTENDS JoinOrdering, SequenceTheorems, FiniteSetTheorems, WellFoundedInduction, TLAPS

-----------------------------------------------------------------------------
(* The plan table, for every finite set of relations and every estimate.   *)
(* The inductive invariant is TypeOK together with SidesHavePlans: the     *)
(* cost of an update is a number, and the sides of an entry keep their     *)
(* plans, because plans are only replaced by plans.                        *)

(* The next-state relation's parameters, as every proof below meets them.  *)
May(L, R) == L \cap R = {} /\ HasPlan(L) /\ HasPlan(R)

LEMMA InitTyped == Init => TypeOK
<1> SUFFICES ASSUME Init PROVE TypeOK
  OBVIOUS
<1>1. card \in [Subproblems -> Nat]
  BY CostsAssumption DEF Init
<1>2. PICK source \in [Relations -> SourceCosts] : table = InitTable(source)
  BY DEF Init
<1>3. ASSUME NEW S \in Subproblems
      PROVE  (IF Singleton(S) THEN source[CHOOSE r \in S : TRUE] ELSE 0) \in Nat
  <2>1. (CHOOSE r \in S : TRUE) \in Relations
    BY DEF Subproblems
  <2>2. source[CHOOSE r \in S : TRUE] \in Nat
    BY <1>2, <2>1, CostsAssumption
  <2> QED
    BY <2>2
<1>4. table \in [Subproblems -> Entries]
  BY <1>2, <1>3 DEF InitTable, Entries
<1> QED
  BY <1>1, <1>4 DEF TypeOK

(* An update makes an entry of the right type, and leaves the others. *)
LEMMA EntryTyped ==
  ASSUME TypeOK, NEW L \in Subproblems, NEW R \in Subproblems
  PROVE  /\ L \cup R \in Subproblems
         /\ Entry(L, R) \in Entries
         /\ JoinCost(L, R) \in Nat
<1>1. L \cup R \in Subproblems
  BY DEF Subproblems
<1>2. card[L \cup R] \in Nat /\ table[L].cost \in Nat /\ table[R].cost \in Nat
  BY <1>1 DEF TypeOK, Entries
<1>3. JoinCost(L, R) \in Nat
  BY <1>2 DEF JoinCost
<1>4. L \in SUBSET Relations /\ R \in SUBSET Relations
  BY DEF Subproblems
<1> QED
  BY <1>1, <1>3, <1>4 DEF Entry, Entries

LEMMA UpdateChanges ==
  ASSUME TypeOK, NEW L \in Subproblems, NEW R \in Subproblems, Update(L, R)
  PROVE  /\ TypeOK'
         /\ \A S \in Subproblems :
              table'[S] = IF S = L \cup R /\ Better(L, R) THEN Entry(L, R) ELSE table[S]
<1>1. L \cup R \in Subproblems /\ Entry(L, R) \in Entries
  BY EntryTyped
<1>2. card' = card
  BY DEF Update
<1>3. CASE Better(L, R)
  <2>1. table' = [table EXCEPT ![L \cup R] = Entry(L, R)]
    BY <1>3 DEF Update
  <2> QED
    BY <1>1, <1>2, <1>3, <2>1 DEF TypeOK
<1>4. CASE ~Better(L, R)
  BY <1>2, <1>4 DEF Update, TypeOK
<1> QED
  BY <1>3, <1>4

(* No plan is lost, none becomes more expensive. *)
LEMMA UpdateImproves ==
  ASSUME TypeOK, NEW L \in Subproblems, NEW R \in Subproblems, Update(L, R),
         NEW S \in Subproblems, HasPlan(S)
  PROVE  HasPlan(S)' /\ table'[S].cost <= table[S].cost
<1>1. TypeOK' /\ table[S].cost \in Nat /\ JoinCost(L, R) \in Nat
  BY UpdateChanges, EntryTyped DEF TypeOK, Entries
<1>2. CASE S = L \cup R /\ Better(L, R)
  <2>1. table'[S] = Entry(L, R)
    BY <1>2, UpdateChanges
  <2>2. JoinCost(L, R) < table[S].cost
    BY <1>2 DEF Better
  <2>3. table'[S].left # {}
    BY <2>1 DEF Entry, Subproblems
  <2>4. table'[S].cost = JoinCost(L, R)
    BY <2>1 DEF Entry
  <2> QED
    BY <1>1, <2>2, <2>3, <2>4 DEF HasPlan
<1>3. CASE ~(S = L \cup R /\ Better(L, R))
  <2>1. table'[S] = table[S]
    BY <1>3, UpdateChanges
  <2> QED
    BY <1>1, <2>1 DEF HasPlan
<1> QED
  BY <1>2, <1>3

-----------------------------------------------------------------------------
(* The table is well typed: costs are numbers and sides are sets of        *)
(* relations, whatever joins are considered.                               *)
THEOREM TypeCorrect == Spec => []TypeOK
<1>1. TypeOK /\ [Next]_vars => TypeOK'
  <2> SUFFICES ASSUME TypeOK, [Next]_vars PROVE TypeOK'
    OBVIOUS
  <2>1. CASE Next
    BY <2>1, UpdateChanges DEF Next
  <2>2. CASE UNCHANGED vars
    BY <2>2 DEF vars, TypeOK
  <2> QED
    BY <2>1, <2>2
<1> QED
  BY InitTyped, <1>1, PTL DEF Spec

(* PlanTable::update(): a plan gives way to cheaper plans only, and a      *)
(* subproblem that has a plan never loses it.                              *)
THEOREM PlansImprove == Spec => CostsFall
<1>1. ASSUME TypeOK, Next, NEW S \in Subproblems, HasPlan(S)
      PROVE  HasPlan(S)' /\ table'[S].cost <= table[S].cost
  BY <1>1, UpdateImproves DEF Next
<1>2. TypeOK /\ [Next]_vars =>
        [\A S \in Subproblems : HasPlan(S) => HasPlan(S)' /\ table'[S].cost <= table[S].cost]_vars
  BY <1>1
<1> QED
  BY TypeCorrect, <1>2, PTL DEF Spec, CostsFall

-----------------------------------------------------------------------------
SidesOf(S) ==
  table[S].left # {} =>
    /\ table[S].left \in Subproblems /\ table[S].right \in Subproblems
    /\ table[S].left \cup table[S].right = S /\ table[S].left \cap table[S].right = {}
    /\ HasPlan(table[S].left) /\ HasPlan(table[S].right)

LEMMA SidesSplit == SidesHavePlans <=> \A S \in Subproblems : SidesOf(S)
BY DEF SidesHavePlans, SidesOf

LEMMA SidesKept ==
  ASSUME TypeOK, SidesHavePlans, NEW L \in Subproblems, NEW R \in Subproblems,
         May(L, R), Update(L, R)
  PROVE  SidesHavePlans'
<1> SUFFICES ASSUME NEW S \in Subproblems PROVE SidesOf(S)'
  BY DEF SidesHavePlans, SidesOf
<1>1. CASE S = L \cup R /\ Better(L, R)
  <2>0. table'[S] = Entry(L, R)
    BY <1>1, UpdateChanges
  <2>1. table'[S].left = L /\ table'[S].right = R
    BY <2>0 DEF Entry
  <2>2. HasPlan(L)' /\ HasPlan(R)'
    BY UpdateImproves DEF May
  <2> QED
    BY <1>1, <2>1, <2>2 DEF SidesOf, May, HasPlan
<1>2. CASE ~(S = L \cup R /\ Better(L, R))
  <2>1. table'[S] = table[S]
    BY <1>2, UpdateChanges
  <2>2. CASE table[S].left = {}
    BY <2>1, <2>2 DEF SidesOf
  <2>3. CASE table[S].left # {}
    <3>1. /\ table[S].left \in Subproblems /\ table[S].right \in Subproblems
          /\ HasPlan(table[S].left) /\ HasPlan(table[S].right)
      BY <2>3, SidesSplit DEF SidesOf
    <3>2. /\ Singleton(table[S].left) \/ table'[table[S].left].left # {}
          /\ Singleton(table[S].right) \/ table'[table[S].right].left # {}
      BY <3>1, UpdateImproves DEF HasPlan
    <3> QED
      BY <2>1, <2>3, <3>1, <3>2, SidesSplit DEF SidesOf, HasPlan
  <2> QED
    BY <2>2, <2>3
<1> QED
  BY <1>1, <1>2

(* construct_join_order() meets a plan at every subproblem below an entry, *)
(* and the two sides of every join are disjoint and make up the whole.     *)
THEOREM PlansComplete == Spec => []SidesHavePlans
<1>1. Init => SidesHavePlans
  BY DEF Init, InitTable, SidesHavePlans
<1>2. TypeOK /\ SidesHavePlans /\ [Next]_vars => SidesHavePlans'
  <2> SUFFICES ASSUME TypeOK, SidesHavePlans, [Next]_vars PROVE SidesHavePlans'
    OBVIOUS
  <2>1. CASE Next
    BY <2>1, SidesKept DEF Next, May
  <2>2. CASE UNCHANGED vars
    BY <2>2 DEF vars, SidesHavePlans, HasPlan
  <2> QED
    BY <2>1, <2>2
<1> QED
  BY TypeCorrect, <1>1, <1>2, PTL DEF Spec

-----------------------------------------------------------------------------
HonestAt(S) ==
  table[S].left # {} => table[S].cost >= JoinCost(table[S].left, table[S].right)

(* The plan that an update enters cannot be one of its own sides. *)
LEMMA ProperParts ==
  ASSUME NEW L \in Subproblems, NEW R \in Subproblems, L \cap R = {}
  PROVE  L # L \cup R /\ R # L \cup R
BY DEF Subproblems

LEMMA HonestKept ==
  ASSUME TypeOK, SidesHavePlans, CostsHonest, NEW L \in Subproblems, NEW R \in Subproblems,
         May(L, R), Update(L, R)
  PROVE  CostsHonest'
<1> SUFFICES ASSUME NEW S \in Subproblems PROVE HonestAt(S)'
  BY DEF CostsHonest, HonestAt
<1>0. card' = card /\ TypeOK'
  BY UpdateChanges DEF Update
<1>1. CASE S = L \cup R /\ Better(L, R)
  <2>0. table'[S] = Entry(L, R)
    BY <1>1, UpdateChanges
  <2>1. table'[S].left = L /\ table'[S].right = R /\ table'[S].cost = JoinCost(L, R)
    BY <2>0 DEF Entry
  <2>2. table'[L] = table[L] /\ table'[R] = table[R]
    BY ProperParts, UpdateChanges DEF May
  <2>3. JoinCost(L, R)' = JoinCost(L, R) /\ JoinCost(L, R) \in Nat
    BY <1>0, <2>2, EntryTyped DEF JoinCost
  <2> QED
    BY <2>1, <2>3 DEF HonestAt, JoinCost
<1>2. CASE ~(S = L \cup R /\ Better(L, R))
  <2>1. table'[S] = table[S]
    BY <1>2, UpdateChanges
  <2>2. CASE table[S].left = {}
    BY <2>1, <2>2 DEF HonestAt
  <2>3. CASE table[S].left # {}
    <3> DEFINE A == table[S].left  B == table[S].right
    <3>1. A \in Subproblems /\ B \in Subproblems /\ HasPlan(A) /\ HasPlan(B)
      BY <2>3, SidesSplit DEF SidesOf
    <3>2. table'[A].cost <= table[A].cost /\ table'[B].cost <= table[B].cost
      BY <3>1, UpdateImproves
    <3>3. table[S].cost >= card[A \cup B] + table[A].cost + table[B].cost
      BY <2>3 DEF CostsHonest, JoinCost
    <3>4. /\ table[A].cost \in Nat /\ table[B].cost \in Nat
          /\ table'[A].cost \in Nat /\ table'[B].cost \in Nat
          /\ card[A \cup B] \in Nat /\ table[S].cost \in Nat
      <4>1. A \cup B \in Subproblems
        BY <3>1 DEF Subproblems
      <4> QED
        BY <1>0, <3>1, <4>1 DEF TypeOK, Entries
    <3>5. table[S].cost >= card[A \cup B] + table'[A].cost + table'[B].cost
      BY <3>2, <3>3, <3>4
    <3> QED
      BY <1>0, <2>1, <3>5 DEF HonestAt, JoinCost
  <2> QED
    BY <2>2, <2>3
<1> QED
  BY <1>1, <1>2

(* PlanTable::update() records what the join costs with the sides' plans   *)
(* of that moment: an entry may be too expensive later, never too cheap.   *)
THEOREM NoFalsePromise == Spec => []CostsHonest
<1>1. Init => CostsHonest
  BY DEF Init, InitTable, CostsHonest
<1>2. TypeOK /\ SidesHavePlans /\ CostsHonest /\ [Next]_vars => CostsHonest'
  <2> SUFFICES ASSUME TypeOK, SidesHavePlans, CostsHonest, [Next]_vars PROVE CostsHonest'
    OBVIOUS
  <2>1. CASE Next
    BY <2>1, HonestKept DEF Next, May
  <2>2. CASE UNCHANGED vars
    BY <2>2 DEF vars, CostsHonest, JoinCost
  <2> QED
    BY <2>1, <2>2
<1> QED
  BY TypeCorrect, PlansComplete, <1>1, <1>2, PTL DEF Spec

-----------------------------------------------------------------------------
(* Induction and recursion.  Sets stand for predicates, and functions for  *)
(* the right-hand sides of recursive definitions.                          *)

LEMMA LeastNat ==
  ASSUME NEW T \in SUBSET Nat, T # {}
  PROVE  \E x \in T : \A y \in T : x <= y
<1>1. PICK x \in T : \A y \in T : ~(<<y, x>> \in OpToRel(<, Nat))
  BY NatLessThanWellFounded, WFMin
<1>2. ASSUME NEW y \in T, ~(x <= y) PROVE FALSE
  <2>1. y < x
    BY <1>2
  <2>2. <<y, x>> \in Nat \X Nat /\ <<y, x>>[1] = y /\ <<y, x>>[2] = x
    OBVIOUS
  <2>3. <<y, x>> \in OpToRel(<, Nat)
    BY <2>1, <2>2, Zenon DEF OpToRel
  <2> QED BY <1>1, <2>3
<1> QED BY <1>1, <1>2

Hereditary(D, rank, Good) ==
  \A d \in D : (\A e \in D : rank[e] < rank[d] => e \in Good) => d \in Good

LEMMA RankInduction ==
  ASSUME NEW D, NEW rank \in [D -> Nat], NEW Good, Hereditary(D, rank, Good)
  PROVE  \A d \in D : d \in Good
<1> SUFFICES ASSUME NEW b \in D, b \notin Good PROVE FALSE
  OBVIOUS
<1> DEFINE T == {rank[d] : d \in {d \in D : d \notin Good}}
<1>1. T \in SUBSET Nat /\ T # {}
  OBVIOUS
<1>2. PICK x \in T : \A y \in T : x <= y
  BY <1>1, LeastNat
<1>3. PICK d \in D : d \notin Good /\ x = rank[d]
  BY <1>2
<1>4. ASSUME NEW e \in D, rank[e] < rank[d] PROVE e \in Good
  <2>1. CASE e \notin Good
    <3>1. rank[e] \in T
      BY <2>1
    <3>2. rank[d] <= rank[e] /\ rank[d] \in Nat /\ rank[e] \in Nat
      BY <3>1, <1>2, <1>3
    <3> QED BY <3>2, <1>4
  <2> QED BY <2>1
<1> QED BY <1>3, <1>4 DEF Hereditary

Inductive(n, Good) == 0 \in Good /\ \A i \in 1..n : i - 1 \in Good => i \in Good

LEMMA UpTo ==
  ASSUME NEW n \in Nat, NEW Good, Inductive(n, Good)
  PROVE  \A i \in 0..n : i \in Good
<1> DEFINE rank == [i \in 0..n |-> i]
<1>1. rank \in [0..n -> Nat]
  OBVIOUS
<1>2. ASSUME NEW d \in 0..n, \A e \in 0..n : rank[e] < rank[d] => e \in Good
      PROVE  d \in Good
  <2>1. CASE d = 0
    BY <2>1 DEF Inductive
  <2>2. CASE d # 0
    <3>1. d \in 1..n /\ d - 1 \in 0..n /\ rank[d - 1] < rank[d]
      BY <2>2
    <3> QED BY <3>1, <1>2 DEF Inductive
  <2> QED BY <2>1, <2>2
<1> HIDE DEF rank
<1>3. Hereditary(0..n, rank, Good)
  BY <1>2 DEF Hereditary
<1> QED BY <1>1, <1>3, RankInduction

(* A definition of f[d] in terms of smaller arguments is satisfiable.      *)
LooksBelow(G, D, V, rank) ==
  \A d \in D : \A f, g \in [D -> V] :
    (\A e \in D : rank[e] < rank[d] => f[e] = g[e]) => G[d][f] = G[d][g]
SolvedBelow(G, D, rank, n, f) == \A d \in D : rank[d] < n => f[d] = G[d][f]

LEMMA SolutionsAgree ==
  ASSUME NEW D, NEW V, NEW rank \in [D -> Nat], NEW G, LooksBelow(G, D, V, rank),
         NEW n \in Nat, NEW m \in Nat, n <= m,
         NEW f \in [D -> V], SolvedBelow(G, D, rank, n, f),
         NEW g \in [D -> V], SolvedBelow(G, D, rank, m, g)
  PROVE  \A d \in D : rank[d] < n => f[d] = g[d]
<1> DEFINE Same == {d \in D : rank[d] < n => f[d] = g[d]}
<1>1. ASSUME NEW d \in D, \A e \in D : rank[e] < rank[d] => e \in Same
      PROVE  d \in Same
  <2> SUFFICES ASSUME rank[d] < n PROVE f[d] = g[d]
    OBVIOUS
  <2>1. rank[d] \in Nat /\ rank[d] < m
    OBVIOUS
  <2>2. f[d] = G[d][f] /\ g[d] = G[d][g]
    BY <2>1 DEF SolvedBelow
  <2>3. ASSUME NEW e \in D, rank[e] < rank[d] PROVE f[e] = g[e]
    <3>1. e \in Same /\ rank[e] \in Nat
      BY <1>1, <2>3
    <3> QED BY <3>1, <2>1, <2>3
  <2>4. G[d][f] = G[d][g]
    BY <2>3 DEF LooksBelow
  <2> QED BY <2>2, <2>4
<1> HIDE DEF Same
<1>2. Hereditary(D, rank, Same)
  BY <1>1 DEF Hereditary
<1>3. \A d \in D : d \in Same
  BY <1>2, RankInduction
<1> QED BY <1>3 DEF Same

LEMMA SolutionsExist ==
  ASSUME NEW D, NEW V, V # {}, NEW rank \in [D -> Nat], NEW G \in [D -> [[D -> V] -> V]],
         LooksBelow(G, D, V, rank), NEW n \in Nat
  PROVE  \E f \in [D -> V] : SolvedBelow(G, D, rank, n, f)
<1> DEFINE Good == {k \in Nat : \E f \in [D -> V] : SolvedBelow(G, D, rank, k, f)}
<1>1. 0 \in Good
  <2>1. PICK v \in V : TRUE
    OBVIOUS
  <2>2. [d \in D |-> v] \in [D -> V] /\ SolvedBelow(G, D, rank, 0, [d \in D |-> v])
    BY DEF SolvedBelow
  <2> QED BY <2>2
<1>2. ASSUME NEW k \in Nat, k \in Good PROVE k + 1 \in Good
  <2>1. PICK f \in [D -> V] : SolvedBelow(G, D, rank, k, f)
    BY <1>2
  <2> DEFINE g == [d \in D |-> G[d][f]]
  <2>2. g \in [D -> V]
    OBVIOUS
  <2>3. ASSUME NEW d \in D, rank[d] < k PROVE g[d] = f[d]
    BY <2>1, <2>3 DEF SolvedBelow
  <2>4. ASSUME NEW d \in D, rank[d] < k + 1 PROVE g[d] = G[d][g]
    <3>1. ASSUME NEW e \in D, rank[e] < rank[d] PROVE f[e] = g[e]
      <4>1. rank[e] \in Nat /\ rank[d] \in Nat
        OBVIOUS
      <4>2. rank[e] < k
        BY <4>1, <3>1, <2>4
      <4> QED BY <4>2, <2>3
    <3>2. G[d][f] = G[d][g]
      BY <2>2, <3>1 DEF LooksBelow
    <3> QED BY <3>2
  <2>5. SolvedBelow(G, D, rank, k + 1, g)
    BY <2>4 DEF SolvedBelow
  <2> HIDE DEF g
  <2> QED BY <2>2, <2>5
<1>3. ASSUME NEW i \in 1..n, i - 1 \in Good PROVE i \in Good
  <2>1. i - 1 \in Nat /\ (i - 1) + 1 = i
    OBVIOUS
  <2> HIDE DEF Good
  <2> QED BY <1>2, <1>3, <2>1
<1> HIDE DEF Good
<1>4. Inductive(n, Good)
  BY <1>1, <1>3 DEF Inductive
<1>5. n \in Good
  BY <1>4, UpTo
<1> QED BY <1>5 DEF Good

Recursion(G, D, V, rank) ==
  /\ V # {} /\ rank \in [D -> Nat] /\ G \in [D -> [[D -> V] -> V]]
  /\ LooksBelow(G, D, V, rank)
Solvable(G, D, V) == \E f \in [D -> V] : \A d \in D : f[d] = G[d][f]

LEMMA RecursiveFunction ==
  ASSUME NEW D, NEW V, NEW rank, NEW G, Recursion(G, D, V, rank)
  PROVE  Solvable(G, D, V)
<1>0. V # {} /\ rank \in [D -> Nat] /\ G \in [D -> [[D -> V] -> V]] /\ LooksBelow(G, D, V, rank)
  BY DEF Recursion
<1> DEFINE F == [n \in Nat |-> CHOOSE f \in [D -> V] : SolvedBelow(G, D, rank, n, f)]
           h == [d \in D |-> F[rank[d] + 1][d]]
<1>1. ASSUME NEW n \in Nat PROVE F[n] \in [D -> V] /\ SolvedBelow(G, D, rank, n, F[n])
  <2>1. \E f \in [D -> V] : SolvedBelow(G, D, rank, n, f)
    BY <1>0, SolutionsExist
  <2> QED BY <2>1
<1> HIDE DEF F
<1>2. h \in [D -> V]
  <2>1. ASSUME NEW d \in D PROVE F[rank[d] + 1][d] \in V
    <3>1. rank[d] + 1 \in Nat
      BY <1>0
    <3> QED BY <1>1, <3>1
  <2> QED BY <2>1
<1>3. ASSUME NEW d \in D PROVE h[d] = G[d][h]
  <2>1. rank[d] \in Nat /\ rank[d] + 1 \in Nat
    BY <1>0
  <2> DEFINE f == F[rank[d] + 1]
  <2>2. f \in [D -> V] /\ SolvedBelow(G, D, rank, rank[d] + 1, f)
    BY <1>1, <2>1
  <2>3. ASSUME NEW e \in D, rank[e] < rank[d] PROVE f[e] = h[e]
    <3>1. rank[e] \in Nat /\ rank[e] + 1 \in Nat /\ rank[e] + 1 <= rank[d] + 1 /\ rank[e] < rank[e] + 1
      BY <1>0, <2>1, <2>3
    <3>2. F[rank[e] + 1] \in [D -> V] /\ SolvedBelow(G, D, rank, rank[e] + 1, F[rank[e] + 1])
      BY <1>1, <3>1
    <3> HIDE DEF f
    <3>3. \A c \in D : rank[c] < rank[e] + 1 => F[rank[e] + 1][c] = f[c]
      BY <1>0, SolutionsAgree, <2>1, <2>2, <3>1, <3>2
    <3> QED BY <3>1, <3>3
  <2>4. f[d] = G[d][f]
    BY <2>1, <2>2 DEF SolvedBelow
  <2>5. h[d] = f[d]
    OBVIOUS
  <2>6. G[d][f] = G[d][h]
    BY <1>0, <1>2, <2>2, <2>3 DEF LooksBelow
  <2> HIDE DEF f, h
  <2> QED BY <2>4, <2>5, <2>6
<1> HIDE DEF h
<1> QED BY <1>2, <1>3 DEF Solvable

-----------------------------------------------------------------------------
(* Sequences. *)

FlattenStep(s, f) == f = [i \in 1..Len(s) |-> IF i = 1 THEN s[i] ELSE f[i - 1] \o s[i]]

LEMMA FlattenEquation ==
  ASSUME NEW T, NEW s \in Seq(Seq(T)), Len(s) # 0
  PROVE  \E f \in [1..Len(s) -> Seq(T)] : FlattenStep(s, f) /\ Flatten(s) = f[Len(s)]
<1> DEFINE D == 1..Len(s)
           V == Seq(T)
           G == [i \in D |-> [f \in [D -> V] |-> IF i = 1 THEN s[i] ELSE f[i - 1] \o s[i]]]
           rank == [i \in D |-> i]
<1>1. rank \in [D -> Nat] /\ V # {}
  <2>1. <<>> \in V
    OBVIOUS
  <2> QED BY <2>1
<1>2. ASSUME NEW i \in D, NEW f \in [D -> V] PROVE (IF i = 1 THEN s[i] ELSE f[i - 1] \o s[i]) \in V
  <2>1. s[i] \in V
    OBVIOUS
  <2>2. i # 1 => i - 1 \in D
    OBVIOUS
  <2>3. i # 1 => f[i - 1] \in V
    BY <2>2
  <2> QED BY <2>1, <2>3, ConcatProperties
<1>3. G \in [D -> [[D -> V] -> V]]
  BY <1>2
<1>4. LooksBelow(G, D, V, rank)
  <2> SUFFICES ASSUME NEW i \in D, NEW f \in [D -> V], NEW g \in [D -> V],
                      \A j \in D : rank[j] < rank[i] => f[j] = g[j]
               PROVE  G[i][f] = G[i][g]
    BY DEF LooksBelow
  <2>1. i # 1 => i - 1 \in D /\ rank[i - 1] < rank[i]
    OBVIOUS
  <2>2. i # 1 => f[i - 1] = g[i - 1]
    BY <2>1
  <2>3. (IF i = 1 THEN s[i] ELSE f[i - 1] \o s[i]) = (IF i = 1 THEN s[i] ELSE g[i - 1] \o s[i])
    BY <2>2
  <2> QED BY <2>3
<1>5. \E h \in [D -> V] : \A i \in D : h[i] = G[i][h]
  <2>1. Recursion(G, D, V, rank)
    BY <1>1, <1>3, <1>4 DEF Recursion
  <2> HIDE DEF D, V, G, rank
  <2> QED BY <2>1, RecursiveFunction DEF Solvable
<1>5a. PICK h \in [D -> V] : \A i \in D : h[i] = G[i][h]
  BY <1>5
<1>6. FlattenStep(s, h)
  BY <1>5a DEF FlattenStep
<1> DEFINE P(f) == f = [i \in 1..Len(s) |-> IF i = 1 THEN s[i] ELSE f[i - 1] \o s[i]]
           c == CHOOSE f : P(f)
<1>7. P(c)
  <2>1. P(h)
    BY <1>6 DEF FlattenStep
  <2> HIDE DEF P
  <2> QED BY <2>1
<1>8. Flatten(s) = c[Len(s)]
  BY Zenon DEF Flatten, FlattenSeq
<1> HIDE DEF c
<1>9. FlattenStep(s, c)
  BY <1>7 DEF FlattenStep
<1>10. ASSUME NEW i \in D PROVE c[i] \in V
  <2> DEFINE Good == {k \in 0..Len(s) : k = 0 \/ c[k] \in V}
  <2>1. Inductive(Len(s), Good)
    <3>1. 0 \in Good
      OBVIOUS
    <3>2. ASSUME NEW k \in 1..Len(s), k - 1 \in Good PROVE k \in Good
      <4>1. c[k] = IF k = 1 THEN s[k] ELSE c[k - 1] \o s[k]
        BY <1>9 DEF FlattenStep
      <4>2. s[k] \in V
        OBVIOUS
      <4>3. k # 1 => c[k - 1] \in V
        BY <3>2
      <4>4. c[k] \in V
        BY <4>1, <4>2, <4>3, ConcatProperties
      <4> QED BY <4>4
    <3> HIDE DEF Good
    <3> QED BY <3>1, <3>2 DEF Inductive
  <2> HIDE DEF Good
  <2>2. \A k \in 0..Len(s) : k \in Good
    BY <2>1, UpTo
  <2>3. i \in Good
    BY <2>2
  <2> QED BY <2>3 DEF Good
<1>11. c \in [D -> V]
  BY <1>9, <1>10 DEF FlattenStep
<1> QED BY <1>8, <1>9, <1>11

LEMMA FlattenTyped ==
  ASSUME NEW T, NEW s \in Seq(Seq(T))
  PROVE  Flatten(s) \in Seq(T)
<1>1. CASE Len(s) = 0
  <2>1. Flatten(s) = s /\ s = <<>>
    BY <1>1, EmptySeq DEF Flatten, FlattenSeq
  <2> QED BY <2>1
<1>2. CASE Len(s) # 0
  <2>1. PICK f \in [1..Len(s) -> Seq(T)] : FlattenStep(s, f) /\ Flatten(s) = f[Len(s)]
    BY <1>2, FlattenEquation
  <2>2. Len(s) \in 1..Len(s)
    BY <1>2
  <2> QED BY <2>1, <2>2
<1> QED BY <1>1, <1>2

LEMMA ToSetFacts ==
  ASSUME NEW T, NEW s \in Seq(T)
  PROVE  /\ ToSet(s) = {s[i] : i \in 1..Len(s)}
         /\ ToSet(s) \in SUBSET T
BY DEF ToSet

LEMMA ToSetConcat ==
  ASSUME NEW T, NEW s \in Seq(T), NEW t \in Seq(T)
  PROVE  ToSet(s \o t) = ToSet(s) \cup ToSet(t)
<1>1. s \o t \in Seq(T) /\ Len(s \o t) = Len(s) + Len(t)
  BY ConcatProperties
<1>2. \A i \in 1..(Len(s) + Len(t)) : (s \o t)[i] = IF i <= Len(s) THEN s[i] ELSE t[i - Len(s)]
  BY ConcatProperties
<1>3. ASSUME NEW x \in ToSet(s \o t) PROVE x \in ToSet(s) \cup ToSet(t)
  <2>1. PICK i \in 1..Len(s \o t) : x = (s \o t)[i]
    BY <1>1, ToSetFacts
  <2>2. CASE i <= Len(s)
    <3>1. i \in 1..Len(s) /\ x = s[i]
      BY <1>1, <1>2, <2>1, <2>2
    <3> QED BY <3>1, ToSetFacts
  <2>3. CASE ~(i <= Len(s))
    <3>1. i - Len(s) \in 1..Len(t) /\ x = t[i - Len(s)]
      BY <1>1, <1>2, <2>1, <2>3
    <3> QED BY <3>1, ToSetFacts
  <2> QED BY <2>2, <2>3
<1>4. ASSUME NEW x \in ToSet(s) PROVE x \in ToSet(s \o t)
  <2>1. PICK i \in 1..Len(s) : x = s[i]
    BY ToSetFacts
  <2>2. i \in 1..Len(s \o t) /\ x = (s \o t)[i]
    BY <1>1, <1>2, <2>1
  <2> QED BY <2>2 DEF ToSet
<1>5. ASSUME NEW x \in ToSet(t) PROVE x \in ToSet(s \o t)
  <2>1. PICK i \in 1..Len(t) : x = t[i]
    BY ToSetFacts
  <2>2. Len(s) + i \in 1..Len(s \o t) /\ x = (s \o t)[Len(s) + i]
    BY <1>1, <1>2, <2>1
  <2> QED BY <2>2 DEF ToSet
<1> QED BY <1>3, <1>4, <1>5

LEMMA FlattenElements ==
  ASSUME NEW T, NEW s \in Seq(Seq(T))
  PROVE  ToSet(Flatten(s)) = UNION {ToSet(s[i]) : i \in 1..Len(s)}
<1>1. CASE Len(s) = 0
  <2>1. Flatten(s) = <<>> /\ 1..Len(s) = {}
    BY <1>1, EmptySeq DEF Flatten, FlattenSeq
  <2>2. ToSet(<<>>) = {}
    BY DEF ToSet
  <2> QED BY <2>1, <2>2
<1>2. CASE Len(s) # 0
  <2>1. PICK f \in [1..Len(s) -> Seq(T)] : FlattenStep(s, f) /\ Flatten(s) = f[Len(s)]
    BY <1>2, FlattenEquation
  <2> DEFINE Upto(k) == UNION {ToSet(s[i]) : i \in 1..k}
             Good == {k \in 0..Len(s) : k = 0 \/ ToSet(f[k]) = Upto(k)}
  <2>2. ASSUME NEW k \in 1..Len(s), k - 1 \in Good PROVE k \in Good
    <3>1. f[k] = IF k = 1 THEN s[k] ELSE f[k - 1] \o s[k]
      BY <2>1 DEF FlattenStep
    <3>2. s[k] \in Seq(T)
      OBVIOUS
    <3>3. CASE k = 1
      <4>1. 1..k = {k}
        BY <3>3
      <4>2. Upto(k) = ToSet(s[k])
        BY <4>1
      <4> QED BY <3>1, <3>3, <4>2
    <3>4. CASE k # 1
      <4>1. k - 1 \in 1..Len(s) /\ 1..k = (1..(k - 1)) \cup {k}
        BY <3>4
      <4>2. f[k - 1] \in Seq(T) /\ ToSet(f[k - 1]) = Upto(k - 1)
        BY <2>2, <4>1, <3>4
      <4>3. ToSet(f[k]) = ToSet(f[k - 1]) \cup ToSet(s[k])
        BY <3>1, <3>2, <3>4, <4>2, ToSetConcat
      <4>4. Upto(k) = Upto(k - 1) \cup ToSet(s[k])
        BY <4>1
      <4>5. ToSet(f[k]) = Upto(k)
        BY <4>2, <4>3, <4>4
      <4> QED BY <4>5
    <3> QED BY <3>3, <3>4
  <2>3. 0 \in Good
    OBVIOUS
  <2>4. Inductive(Len(s), Good)
    <3> HIDE DEF Good
    <3> QED BY <2>2, <2>3 DEF Inductive
  <2>5. Len(s) \in Good
    <3> HIDE DEF Good
    <3>1. \A k \in 0..Len(s) : k \in Good
      BY <2>4, UpTo
    <3> QED BY <3>1
  <2> QED BY <1>2, <2>1, <2>5
<1> QED BY <1>1, <1>2

Iteration(f, n, first, G) == f[0] = first /\ \A k \in 1..n : f[k] = G[k][f[k - 1]]

LEMMA Iterates ==
  ASSUME NEW n \in Nat, NEW V, NEW first \in V, NEW G \in [1..n -> [V -> V]]
  PROVE  \E f \in [0..n -> V] : Iteration(f, n, first, G)
<1> DEFINE D == 0..n
           H == [k \in D |-> [f \in [D -> V] |-> IF k = 0 THEN first ELSE G[k][f[k - 1]]]]
           rank == [k \in D |-> k]
<1>1. ASSUME NEW k \in D, k # 0 PROVE k \in 1..n /\ k - 1 \in D /\ rank[k - 1] < rank[k]
  BY <1>1
<1>2. ASSUME NEW k \in D, NEW f \in [D -> V] PROVE (IF k = 0 THEN first ELSE G[k][f[k - 1]]) \in V
  <2>1. CASE k # 0
    <3>1. k \in 1..n /\ f[k - 1] \in V
      BY <1>1, <2>1
    <3>2. G[k] \in [V -> V]
      BY <3>1
    <3> QED BY <2>1, <3>1, <3>2
  <2> QED BY <2>1
<1>3. LooksBelow(H, D, V, rank)
  <2> SUFFICES ASSUME NEW k \in D, NEW f \in [D -> V], NEW g \in [D -> V],
                      \A j \in D : rank[j] < rank[k] => f[j] = g[j]
               PROVE  H[k][f] = H[k][g]
    BY DEF LooksBelow
  <2>1. k # 0 => f[k - 1] = g[k - 1]
    BY <1>1
  <2>2. (IF k = 0 THEN first ELSE G[k][f[k - 1]]) = (IF k = 0 THEN first ELSE G[k][g[k - 1]])
    BY <2>1
  <2> QED BY <2>2
<1>4. Recursion(H, D, V, rank)
  <2>1. H \in [D -> [[D -> V] -> V]]
    BY <1>2
  <2>2. rank \in [D -> Nat] /\ V # {}
    OBVIOUS
  <2> QED BY <1>3, <2>1, <2>2 DEF Recursion
<1>5. Solvable(H, D, V)
  <2> HIDE DEF H, D, rank
  <2> QED BY <1>4, RecursiveFunction
<1>6. PICK f \in [D -> V] : \A k \in D : f[k] = H[k][f]
  BY <1>5 DEF Solvable
<1>7. Iteration(f, n, first, G)
  <2>1. f[0] = first
    BY <1>6
  <2>2. ASSUME NEW k \in 1..n PROVE f[k] = G[k][f[k - 1]]
    <3>1. k \in D /\ k # 0
      OBVIOUS
    <3> QED BY <1>6, <3>1
  <2> QED BY <2>1, <2>2 DEF Iteration
<1> QED BY <1>7

WithinStep(s, F, f) ==
  f = [i \in 0..Len(s) |-> IF i = 0 THEN <<>> ELSE f[i - 1] \o (IF s[i] \in F THEN <<s[i]>> ELSE <<>>)]

LEMMA WithinEquation ==
  ASSUME NEW T, NEW s \in Seq(T), NEW F
  PROVE  \E f \in [0..Len(s) -> Seq(T)] : WithinStep(s, F, f) /\ Within(s, F) = f[Len(s)]
<1> DEFINE n == Len(s)
           V == Seq(T)
           G == [k \in 1..n |-> [q \in V |-> q \o (IF s[k] \in F THEN <<s[k]>> ELSE <<>>)]]
<1>1. n \in Nat /\ <<>> \in V
  OBVIOUS
<1>2. G \in [1..n -> [V -> V]]
  <2>1. ASSUME NEW k \in 1..n, NEW q \in V PROVE q \o (IF s[k] \in F THEN <<s[k]>> ELSE <<>>) \in V
    <3>1. s[k] \in T
      OBVIOUS
    <3>2. (IF s[k] \in F THEN <<s[k]>> ELSE <<>>) \in V
      BY <3>1
    <3> HIDE DEF n
    <3> QED BY <3>2, ConcatProperties
  <2> QED BY <2>1
<1>3. \E f \in [0..n -> V] : Iteration(f, n, <<>>, G)
  <2> HIDE DEF n, V, G
  <2> QED BY <1>1, <1>2, Iterates
<1>4. PICK h \in [0..n -> V] : Iteration(h, n, <<>>, G)
  BY <1>3
<1> DEFINE P(f) == f = [i \in 0..Len(s) |->
                          IF i = 0 THEN <<>> ELSE f[i - 1] \o (IF s[i] \in F THEN <<s[i]>> ELSE <<>>)]
           c == CHOOSE f : P(f)
<1>5. ASSUME NEW i \in 0..n
      PROVE  h[i] = IF i = 0 THEN <<>> ELSE h[i - 1] \o (IF s[i] \in F THEN <<s[i]>> ELSE <<>>)
  <2>1. CASE i # 0
    <3>1. i \in 1..n /\ i - 1 \in 0..n
      BY <2>1
    <3>2. h[i - 1] \in V /\ h[i] = G[i][h[i - 1]]
      BY <3>1, <1>4 DEF Iteration
    <3> HIDE DEF n, V
    <3> QED BY <2>1, <3>1, <3>2
  <2>2. CASE i = 0
    BY <2>2, <1>4 DEF Iteration
  <2> QED BY <2>1, <2>2
<1>6. P(h)
  BY <1>5
<1>7. P(c)
  <2> HIDE DEF P
  <2> QED BY <1>6
<1>8. Within(s, F) = c[Len(s)]
  BY Zenon DEF Within
<1> HIDE DEF c
<1>9. ASSUME NEW i \in 0..n PROVE c[i] \in V
  <2> DEFINE Good == {k \in 0..n : c[k] \in V}
  <2>1. 0 \in Good
    BY <1>7
  <2>2. ASSUME NEW k \in 1..n, k - 1 \in Good PROVE k \in Good
    <3>1. k \in 0..Len(s) /\ k # 0 /\ s[k] \in T
      OBVIOUS
    <3>2. c[k] = c[k - 1] \o (IF s[k] \in F THEN <<s[k]>> ELSE <<>>)
      BY <3>1, <1>7
    <3>3. (IF s[k] \in F THEN <<s[k]>> ELSE <<>>) \in V /\ c[k - 1] \in V
      BY <3>1, <2>2
    <3>4. c[k] \in V
      BY <3>2, <3>3, ConcatProperties
    <3> QED BY <3>1, <3>4
  <2> HIDE DEF Good
  <2>3. \A k \in 0..n : k \in Good
    BY <1>1, <2>1, <2>2, UpTo DEF Inductive
  <2>4. i \in Good
    BY <2>3
  <2> QED BY <2>4 DEF Good
<1>10. c \in [0..n -> V] /\ WithinStep(s, F, c)
  BY <1>7, <1>9 DEF WithinStep
<1> QED BY <1>8, <1>10

(* What Within keeps: the elements in F, in order, each as often as before. *)
LEMMA WithinFacts ==
  ASSUME NEW T, NEW s \in Seq(T), NEW F
  PROVE  /\ Within(s, F) \in Seq(T)
         /\ ToSet(Within(s, F)) = ToSet(s) \cap F
         /\ IsInjective(s) => IsInjective(Within(s, F))
<1>1. PICK f \in [0..Len(s) -> Seq(T)] : WithinStep(s, F, f) /\ Within(s, F) = f[Len(s)]
  BY WithinEquation
<1> DEFINE Good == {k \in 0..Len(s) :
                      /\ ToSet(f[k]) = PrefixSet(s, k) \cap F
                      /\ IsInjective(s) => IsInjective(f[k])}
<1>2. 0 \in Good
  <2>1. f[0] = <<>>
    BY <1>1 DEF WithinStep
  <2>2. PrefixSet(s, 0) = {}
    BY DEF PrefixSet
  <2>3. ToSet(<<>>) = {} /\ IsInjective(<<>>)
    BY DEF ToSet, IsInjective
  <2> QED BY <2>1, <2>2, <2>3
<1>3. ASSUME NEW k \in 1..Len(s), k - 1 \in Good PROVE k \in Good
  <2> DEFINE last == IF s[k] \in F THEN <<s[k]>> ELSE <<>>
             q == f[k - 1]
  <2>1. f[k] = q \o last
    <3>1. k \in 0..Len(s) /\ k # 0
      OBVIOUS
    <3> QED BY <3>1, <1>1 DEF WithinStep
  <2>2. s[k] \in T /\ k - 1 \in 0..Len(s)
    OBVIOUS
  <2>3. q \in Seq(T) /\ last \in Seq(T)
    BY <2>2
  <2>4. ToSet(q) = PrefixSet(s, k - 1) \cap F /\ (IsInjective(s) => IsInjective(q))
    BY <1>3
  <2>5. PrefixSet(s, k) = PrefixSet(s, k - 1) \cup {s[k]}
    <3>1. 1..k = (1..(k - 1)) \cup {k}
      OBVIOUS
    <3> QED BY <3>1 DEF PrefixSet
  <2>6. ToSet(last) = {s[k]} \cap F
    BY DEF ToSet
  <2>7. ToSet(f[k]) = PrefixSet(s, k) \cap F
    <3> HIDE DEF last, q
    <3>1. ToSet(f[k]) = ToSet(q) \cup ToSet(last)
      BY <2>1, <2>3, ToSetConcat
    <3> QED BY <3>1, <2>4, <2>5, <2>6
  <2>8. ASSUME IsInjective(s) PROVE IsInjective(f[k])
    <3>1. CASE s[k] \notin F
      <4>1. f[k] = q
        BY <3>1, <2>1, <2>3, ConcatEmptySeq
      <4> QED BY <4>1, <2>4, <2>8
    <3>2. CASE s[k] \in F
      <4>1. Len(q) \in Nat /\ DOMAIN q = 1..Len(q) /\ DOMAIN f[k] = 1..(Len(q) + 1)
        BY <3>2, <2>1, <2>3
      <4>2. f[k][Len(q) + 1] = s[k] /\ \A i \in 1..Len(q) : f[k][i] = q[i]
        <5> HIDE DEF q
        <5> QED BY <3>2, <2>1, <2>3, ConcatProperties
      <4>3. ASSUME NEW i \in 1..Len(q) PROVE q[i] # s[k]
        <5>1. q[i] \in ToSet(q)
          BY <4>1 DEF ToSet
        <5>2. PICK j \in 1..(k - 1) : q[i] = s[j]
          BY <5>1, <2>4 DEF PrefixSet
        <5>3. j \in DOMAIN s /\ k \in DOMAIN s /\ j # k
          OBVIOUS
        <5> QED BY <5>2, <5>3, <2>8 DEF IsInjective
      <4>4. IsInjective(q)
        BY <2>4, <2>8
      <4> HIDE DEF q
      <4>5. ASSUME NEW a \in DOMAIN f[k], NEW b \in DOMAIN f[k], f[k][a] = f[k][b] PROVE a = b
        <5>1. CASE a \in 1..Len(q) /\ b \in 1..Len(q)
          BY <5>1, <4>1, <4>2, <4>4, <4>5 DEF IsInjective
        <5>2. CASE a \in 1..Len(q) /\ b = Len(q) + 1
          BY <5>2, <4>2, <4>3, <4>5
        <5>3. CASE b \in 1..Len(q) /\ a = Len(q) + 1
          BY <5>3, <4>2, <4>3, <4>5
        <5> QED BY <5>1, <5>2, <5>3, <4>1
      <4> QED BY <4>5 DEF IsInjective
    <3> QED BY <3>1, <3>2
  <2> QED BY <2>7, <2>8
<1> HIDE DEF Good
<1>4. Len(s) \in Good
  <2>1. Inductive(Len(s), Good)
    BY <1>2, <1>3 DEF Inductive
  <2>2. \A k \in 0..Len(s) : k \in Good
    BY <2>1, UpTo
  <2> QED BY <2>2
<1>5. PrefixSet(s, Len(s)) = ToSet(s)
  BY DEF PrefixSet, ToSet
<1> QED BY <1>1, <1>4, <1>5 DEF Good

LEMMA SeqOfElements ==
  ASSUME NEW T, NEW s \in Seq(T), NEW U, ToSet(s) \subseteq U
  PROVE  s \in Seq(U)
<1>1. s = [i \in 1..Len(s) |-> s[i]] /\ Len(s) \in Nat
  OBVIOUS
<1>2. \A i \in 1..Len(s) : s[i] \in U
  BY DEF ToSet
<1> QED BY <1>1, <1>2, IsASeq

-----------------------------------------------------------------------------
(* Bit sets. *)

LEMMA NFacts == N \in Nat /\ N # 0 /\ IsFiniteSet(Relations) /\ Relations = 0..(N - 1)
<1>1. N \in Nat /\ N # 0
  BY RelationsAssumption, FS_CardinalityType, FS_EmptySet DEF N
<1> QED BY <1>1, RelationsAssumption, BitSetsAssumption

BitsStep(f) ==
  f = [k \in 0..N |->
        IF k = 0 THEN <<{}>> ELSE f[k - 1] \o [i \in 1..Len(f[k - 1]) |-> f[k - 1][i] \cup {k - 1}]]

LEMMA BitsEquation ==
  \E f \in [0..N -> Seq(SUBSET Relations)] : BitsStep(f) /\ Bits = f[N]
<1> DEFINE V == Seq(SUBSET Relations)
           More(q, k) == q \o [i \in 1..Len(q) |-> q[i] \cup {k - 1}]
           G == [k \in 1..N |-> [q \in V |-> More(q, k)]]
<1>1. ASSUME NEW k \in 1..N, NEW q \in V PROVE More(q, k) \in V
  <2>1. k - 1 \in Relations
    BY NFacts
  <2>2. \A i \in 1..Len(q) : q[i] \cup {k - 1} \in SUBSET Relations
    BY <2>1
  <2>3. [i \in 1..Len(q) |-> q[i] \cup {k - 1}] \in V
    BY <2>2, IsASeq
  <2> QED BY <2>3, ConcatProperties
<1> HIDE DEF More
<1>2. G \in [1..N -> [V -> V]] /\ N \in Nat
  BY <1>1, NFacts
<1>3. <<{}>> \in V
  OBVIOUS
<1>4. \E f \in [0..N -> V] : Iteration(f, N, <<{}>>, G)
  <2> HIDE DEF V, G
  <2> QED BY <1>2, <1>3, Iterates
<1>5. PICK h \in [0..N -> V] : Iteration(h, N, <<{}>>, G)
  BY <1>4
<1> DEFINE P(f) == f = [k \in 0..N |-> IF k = 0 THEN <<{}>>
                          ELSE f[k - 1] \o [i \in 1..Len(f[k - 1]) |-> f[k - 1][i] \cup {k - 1}]]
           c == CHOOSE f : P(f)
<1>6. P(h)
  <2>1. ASSUME NEW k \in 0..N PROVE h[k] = IF k = 0 THEN <<{}>> ELSE More(h[k - 1], k)
    <3>1. CASE k # 0
      <4>1. k \in 1..N /\ k - 1 \in 0..N
        BY <3>1, NFacts
      <4>2. h[k - 1] \in V /\ h[k] = G[k][h[k - 1]]
        BY <4>1, <1>5 DEF Iteration
      <4> HIDE DEF V
      <4> QED BY <3>1, <4>1, <4>2
    <3>2. CASE k = 0
      BY <3>2, <1>5 DEF Iteration
    <3> QED BY <3>1, <3>2
  <2>2. h = [k \in 0..N |-> h[k]]
    OBVIOUS
  <2>3. h = [k \in 0..N |-> IF k = 0 THEN <<{}>> ELSE More(h[k - 1], k)]
    BY <2>1, <2>2
  <2> QED BY <2>3 DEF More
<1>7. P(c)
  <2> HIDE DEF P
  <2> QED BY <1>6
<1>8. Bits = c[N]
  BY Zenon DEF Bits
<1> HIDE DEF c
<1>9. ASSUME NEW k \in 0..N PROVE c[k] \in V
  <2> DEFINE Good == {j \in 0..N : c[j] \in V}
  <2>1. 0 \in Good
    BY <1>3, <1>7, NFacts
  <2>2. ASSUME NEW j \in 1..N, j - 1 \in Good PROVE j \in Good
    <3>1. j \in 0..N /\ j # 0
      BY NFacts
    <3>2. c[j] = More(c[j - 1], j)
      BY <3>1, <1>7 DEF More
    <3>3. c[j - 1] \in V
      BY <2>2
    <3> QED BY <3>1, <3>2, <3>3, <1>1
  <2> HIDE DEF Good
  <2>3. \A j \in 0..N : j \in Good
    BY <1>2, <2>1, <2>2, UpTo DEF Inductive
  <2>4. k \in Good
    BY <2>3
  <2> QED BY <2>4 DEF Good
<1>10. c \in [0..N -> V] /\ BitsStep(c)
  BY <1>7, <1>9 DEF BitsStep
<1> QED BY <1>8, <1>10

LEMMA OneElement ==
  ASSUME NEW x
  PROVE  ToSet(<<x>>) = {x} /\ IsInjective(<<x>>)
<1>1. DOMAIN <<x>> = {1} /\ <<x>>[1] = x
  OBVIOUS
<1>2. ToSet(<<x>>) = {x}
  BY <1>1 DEF ToSet
<1>3. IsInjective(<<x>>)
  BY <1>1 DEF IsInjective
<1> QED BY <1>2, <1>3

Below(k) == 0..(k - 1)

LEMMA BitsFacts ==
  /\ Bits \in Seq(SUBSET Relations)
  /\ ToSet(Bits) = SUBSET Relations
  /\ IsInjective(Bits)
<1>1. PICK f \in [0..N -> Seq(SUBSET Relations)] : BitsStep(f) /\ Bits = f[N]
  BY BitsEquation
<1> DEFINE Good == {k \in 0..N : ToSet(f[k]) = SUBSET Below(k) /\ IsInjective(f[k])}
<1>2. 0 \in Good
  <2>1. f[0] = <<{}>>
    BY <1>1, NFacts DEF BitsStep
  <2>2. Below(0) = {}
    BY DEF Below
  <2>3. ToSet(<<{}>>) = {{}} /\ IsInjective(<<{}>>)
    BY OneElement
  <2>4. SUBSET Below(0) = {{}}
    BY <2>2
  <2>5. ToSet(f[0]) = SUBSET Below(0) /\ IsInjective(f[0]) /\ 0 \in 0..N
    BY <2>1, <2>3, <2>4, NFacts
  <2> QED BY <2>5
<1>3. ASSUME NEW k \in 1..N, k - 1 \in Good PROVE k \in Good
  <2>1. k \in 0..N /\ k # 0 /\ k - 1 \in 0..N /\ k \in Nat
    BY NFacts
  <2> DEFINE q == f[k - 1]
             r == [i \in 1..Len(q) |-> q[i] \cup {k - 1}]
  <2>2. q \in Seq(SUBSET Relations) /\ f[k] = q \o r
    BY <2>1, <1>1 DEF BitsStep
  <2>3. ToSet(q) = SUBSET Below(k - 1) /\ IsInjective(q)
    BY <1>3
  <2>4. Below(k) = Below(k - 1) \cup {k - 1} /\ k - 1 \notin Below(k - 1)
    BY <2>1 DEF Below
  <2> HIDE DEF q
  <2>5. r \in Seq(SUBSET Below(k)) /\ Len(r) = Len(q)
    <3>1. \A i \in 1..Len(q) : q[i] \in SUBSET Below(k - 1)
      BY <2>2, <2>3 DEF ToSet
    <3>2. \A i \in 1..Len(q) : q[i] \cup {k - 1} \in SUBSET Below(k)
      BY <3>1, <2>4
    <3> QED BY <3>2, <2>2, IsASeq
  <2>6. ToSet(r) = {X \in SUBSET Below(k) : k - 1 \in X}
    <3>1. ASSUME NEW X \in ToSet(r) PROVE X \in SUBSET Below(k) /\ k - 1 \in X
      <4>1. PICK i \in 1..Len(q) : X = q[i] \cup {k - 1}
        BY <3>1, <2>5 DEF ToSet
      <4>2. q[i] \in SUBSET Below(k - 1)
        BY <2>2, <2>3 DEF ToSet
      <4> QED BY <4>1, <4>2, <2>4
    <3>2. ASSUME NEW X \in SUBSET Below(k), k - 1 \in X PROVE X \in ToSet(r)
      <4>1. X \ {k - 1} \in SUBSET Below(k - 1)
        BY <2>4
      <4>2. PICK i \in 1..Len(q) : X \ {k - 1} = q[i]
        <5>1. X \ {k - 1} \in ToSet(q)
          BY <4>1, <2>3
        <5> QED BY <5>1, <2>2 DEF ToSet
      <4>3. X = (X \ {k - 1}) \cup {k - 1}
        BY <3>2
      <4>4. X = r[i]
        BY <4>2, <4>3
      <4> QED BY <4>4, <2>5 DEF ToSet
    <3> QED BY <3>1, <3>2
  <2>7. IsInjective(r)
    <3> SUFFICES ASSUME NEW a \in 1..Len(q), NEW b \in 1..Len(q), r[a] = r[b] PROVE a = b
      BY <2>5 DEF IsInjective
    <3>1. q[a] \in SUBSET Below(k - 1) /\ q[b] \in SUBSET Below(k - 1)
      BY <2>2, <2>3 DEF ToSet
    <3>2. q[a] \cup {k - 1} = q[b] \cup {k - 1}
      OBVIOUS
    <3>3. q[a] = q[b]
      <4>1. k - 1 \notin q[a] /\ k - 1 \notin q[b]
        BY <3>1, <2>4
      <4>2. q[a] = (q[a] \cup {k - 1}) \ {k - 1} /\ q[b] = (q[b] \cup {k - 1}) \ {k - 1}
        BY <4>1
      <4> QED BY <4>2, <3>2
    <3>4. DOMAIN q = 1..Len(q)
      BY <2>2
    <3> QED BY <3>3, <3>4, <2>3 DEF IsInjective
  <2> HIDE DEF r
  <2>8. ToSet(f[k]) = SUBSET Below(k)
    <3>1. q \in Seq(SUBSET Below(k))
      <4>1. SUBSET Below(k - 1) \subseteq SUBSET Below(k)
        BY <2>4
      <4> QED BY <4>1, <2>2, <2>3, SeqOfElements
    <3>2. ToSet(f[k]) = ToSet(q) \cup ToSet(r)
      BY <2>2, <2>5, <3>1, ToSetConcat
    <3>3. \A X \in SUBSET Below(k) : k - 1 \notin X => X \in SUBSET Below(k - 1)
      BY <2>4
    <3>4. SUBSET Below(k - 1) \subseteq SUBSET Below(k)
      BY <2>4
    <3> QED BY <3>2, <3>3, <3>4, <2>3, <2>6
  <2>9. IsInjective(f[k])
    <3>1. Len(q) \in Nat /\ DOMAIN q = 1..Len(q) /\ DOMAIN r = 1..Len(r) /\ Len(r) = Len(q)
      BY <2>2, <2>5
    <3>2. DOMAIN f[k] = 1..(Len(q) + Len(r))
      <4>1. f[k] \in Seq(SUBSET Relations)
        BY <1>1, <2>1
      <4>2. Len(q \o r) = Len(q) + Len(r)
        <5>1. SUBSET Below(k) \subseteq SUBSET Relations
          BY <2>1, NFacts DEF Below
        <5>2. r \in Seq(SUBSET Relations)
          BY <5>1, <2>5, SeqMonotonic
        <5> QED BY <5>2, <2>2, ConcatProperties
      <4> QED BY <4>1, <4>2, <2>2
    <3>3. \A i \in 1..(Len(q) + Len(r)) : f[k][i] = IF i <= Len(q) THEN q[i] ELSE r[i - Len(q)]
      BY <2>2, <2>5, ConcatProperties
    <3>4. \A i \in 1..Len(q) : k - 1 \notin q[i]
      <4>1. \A i \in 1..Len(q) : q[i] \in SUBSET Below(k - 1)
        BY <2>2, <2>3 DEF ToSet
      <4> QED BY <4>1, <2>4
    <3>5. \A i \in 1..Len(r) : k - 1 \in r[i]
      BY <2>6, <3>1 DEF ToSet
    <3> SUFFICES ASSUME NEW a \in DOMAIN f[k], NEW b \in DOMAIN f[k], f[k][a] = f[k][b] PROVE a = b
      BY DEF IsInjective
    <3>6. a \in Nat /\ b \in Nat
      BY <3>2
    <3>7. CASE a <= Len(q) /\ b <= Len(q)
      BY <3>7, <3>1, <3>2, <3>3, <2>3 DEF IsInjective
    <3>8. CASE a <= Len(q) /\ ~(b <= Len(q))
      <4>1. a \in 1..Len(q) /\ b - Len(q) \in 1..Len(r) /\ q[a] = r[b - Len(q)]
        BY <3>1, <3>2, <3>3, <3>6, <3>8
      <4> QED BY <4>1, <3>4, <3>5
    <3>9. CASE ~(a <= Len(q)) /\ b <= Len(q)
      <4>1. b \in 1..Len(q) /\ a - Len(q) \in 1..Len(r) /\ q[b] = r[a - Len(q)]
        BY <3>1, <3>2, <3>3, <3>6, <3>9
      <4> QED BY <4>1, <3>4, <3>5
    <3>10. CASE ~(a <= Len(q)) /\ ~(b <= Len(q))
      <4>1. a - Len(q) \in 1..Len(r) /\ b - Len(q) \in 1..Len(r) /\ r[a - Len(q)] = r[b - Len(q)]
        BY <3>1, <3>2, <3>3, <3>6, <3>10
      <4>2. a - Len(q) = b - Len(q)
        BY <4>1, <3>1, <2>7 DEF IsInjective
      <4> QED BY <4>2, <3>6, <3>1
    <3> QED BY <3>6, <3>7, <3>8, <3>9, <3>10
  <2> QED BY <2>1, <2>8, <2>9
<1> HIDE DEF Good
<1>4. N \in Good
  <2>1. Inductive(N, Good)
    BY <1>2, <1>3 DEF Inductive
  <2>2. \A k \in 0..N : k \in Good
    BY <2>1, UpTo, NFacts
  <2> QED BY <2>2, NFacts
<1>5. Below(N) = Relations
  BY NFacts DEF Below
<1>6. Bits \in Seq(SUBSET Relations)
  BY <1>1, NFacts
<1> QED BY <1>1, <1>4, <1>5, <1>6 DEF Good

LEMMA ByValueFacts ==
  ASSUME NEW F \in SUBSET (SUBSET Relations)
  PROVE  /\ ByValue(F) \in Seq(F)
         /\ ToSet(ByValue(F)) = F
         /\ IsInjective(ByValue(F))
<1>1. Within(Bits, F) \in Seq(SUBSET Relations) /\ ToSet(Within(Bits, F)) = ToSet(Bits) \cap F
      /\ IsInjective(Within(Bits, F))
  BY BitsFacts, WithinFacts
<1>2. ToSet(Within(Bits, F)) = F
  BY <1>1, BitsFacts
<1>3. Within(Bits, F) \in Seq(F)
  BY <1>1, <1>2, SeqOfElements
<1> QED BY <1>1, <1>2, <1>3 DEF ByValue

LEMMA AscendingFacts ==
  ASSUME NEW S \in SUBSET Relations
  PROVE  /\ Ascending(S) \in Seq(S)
         /\ ToSet(Ascending(S)) = S
<1> DEFINE all == [i \in 1..N |-> i - 1]
<1>1. all \in Seq(Relations) /\ Len(all) = N
  <2>1. \A i \in 1..N : i - 1 \in Relations
    BY NFacts
  <2> QED BY <2>1, NFacts, IsASeq
<1>2. ToSet(all) = Relations
  <2>1. \A r \in Relations : r + 1 \in 1..N /\ (r + 1) - 1 = r
    BY NFacts
  <2>2. \A i \in 1..N : i - 1 \in Relations
    BY NFacts
  <2> QED BY <2>1, <2>2, <1>1 DEF ToSet
<1>3. Ascending(S) = Within(all, S)
  BY DEF Ascending
<1> HIDE DEF all
<1>4. Within(all, S) \in Seq(Relations) /\ ToSet(Within(all, S)) = ToSet(all) \cap S
  BY <1>1, WithinFacts
<1>5. ToSet(Within(all, S)) = S
  BY <1>2, <1>4
<1>6. Within(all, S) \in Seq(S)
  BY <1>4, <1>5, SeqOfElements
<1> QED BY <1>3, <1>5, <1>6

LEMMA MinFacts ==
  ASSUME NEW S \in SUBSET Relations, S # {}
  PROVE  Min(S) \in S /\ \A y \in S : Min(S) <= y
<1>1. S \in SUBSET Nat
  BY NFacts
<1>2. \E x \in S : \A y \in S : x <= y
  BY <1>1, LeastNat
<1> QED BY <1>2 DEF Min

LEMMA FirstLeastFacts ==
  ASSUME NEW v \in Seq(Nat), Len(v) # 0
  PROVE  FirstLeast(v) \in 1..Len(v)
<1> DEFINE Values == {v[i] : i \in 1..Len(v)}
<1>1. Values \in SUBSET Nat /\ Values # {}
  <2>1. 1 \in 1..Len(v)
    OBVIOUS
  <2> QED BY <2>1
<1>2. PICK x \in Values : \A y \in Values : x <= y
  BY <1>1, LeastNat
<1> DEFINE Least == {i \in 1..Len(v) : v[i] = x}
<1>3. Least \in SUBSET Nat /\ Least # {}
  BY <1>2
<1>4. PICK i \in Least : \A j \in Least : i <= j
  BY <1>3, LeastNat
<1>5. ASSUME NEW j \in 1..Len(v) PROVE v[i] <= v[j] /\ (j < i => v[i] < v[j])
  <2>1. v[i] = x /\ v[j] \in Values /\ x <= v[j]
    BY <1>2, <1>4
  <2>2. v[j] \in Nat /\ v[i] \in Nat /\ i \in 1..Len(v)
    BY <1>4
  <2>3. ASSUME j < i PROVE v[j] # x
    <3>1. ~(i <= j)
      BY <2>2, <2>3
    <3> QED BY <3>1, <1>4
  <2> QED BY <2>1, <2>2, <2>3
<1>6. i \in 1..Len(v)
  BY <1>4
<1> HIDE DEF Least, Values
<1>7. \E k \in 1..Len(v) : \A j \in 1..Len(v) : v[k] <= v[j] /\ (j < k => v[k] < v[j])
  BY <1>5, <1>6
<1> QED BY <1>7 DEF FirstLeast

-----------------------------------------------------------------------------
(* The query graph. *)

GraphOK == graph \in Graphs

LEMMA EdgeFacts ==
  ASSUME GraphOK
  PROVE  /\ \A e \in graph : \E u, v \in Relations : u # v /\ e = {u, v}
         /\ graph \in SUBSET (SUBSET Relations)
         /\ \A S \in Subproblems \ {Relations} : Joined(S, Relations \ S)
<1>1. \A e \in graph : \E u, v \in Relations : u # v /\ e = {u, v}
  BY GraphsAssumption DEF GraphOK
<1>2. graph \in SUBSET (SUBSET Relations)
  BY <1>1
<1>3. ASSUME NEW S \in Subproblems \ {Relations} PROVE Joined(S, Relations \ S)
  <2>1. \E u \in S, v \in Relations \ S : {u, v} \in graph
    BY GraphsAssumption DEF GraphOK
  <2> QED BY <2>1 DEF Joined, Neighbors
<1> QED BY <1>1, <1>2, <1>3

LEMMA JoinedMeans ==
  ASSUME NEW L \in SUBSET Relations, NEW R \in SUBSET Relations, L \cap R = {}
  PROVE  Joined(L, R) <=> \E u \in L, v \in R : {u, v} \in graph
BY DEF Joined, Neighbors

LEMMA JoinedSymmetric ==
  ASSUME NEW L \in SUBSET Relations, NEW R \in SUBSET Relations, L \cap R = {}
  PROVE  Joined(L, R) <=> Joined(R, L)
<1>1. \A u, v : {u, v} = {v, u}
  OBVIOUS
<1>2. Joined(L, R) <=> \E u \in L, v \in R : {u, v} \in graph
  BY JoinedMeans
<1>3. Joined(R, L) <=> \E u \in R, v \in L : {u, v} \in graph
  <2>1. R \cap L = {}
    OBVIOUS
  <2> QED BY <2>1, JoinedMeans
<1> QED BY <1>1, <1>2, <1>3

(* No part of S is cut off from the rest of it. *)
Linked(S) == \A L \in (SUBSET S) \ {{}, S} : Joined(L, S \ L)

(* K is a union of components of S. *)
Closed(K, S) == K \in SUBSET S /\ ~Joined(K, S \ K)

LEMMA ClosedComplement ==
  ASSUME NEW S \in SUBSET Relations, NEW K, Closed(K, S)
  PROVE  Closed(S \ K, S)
<1>1. K \in SUBSET Relations /\ S \ K \in SUBSET Relations /\ K \cap (S \ K) = {} /\ S \ (S \ K) = K
  BY DEF Closed
<1>2. Joined(K, S \ K) <=> Joined(S \ K, K)
  BY <1>1, JoinedSymmetric
<1> QED BY <1>1, <1>2 DEF Closed

ReachStep(src, S, f) ==
  f = [k \in 0..N |-> IF k = 0 THEN src \cap S ELSE f[k - 1] \cup (Neighbors(f[k - 1]) \cap S)]

LEMMA ReachEquation ==
  ASSUME NEW src, NEW S \in SUBSET Relations
  PROVE  \E f : ReachStep(src, S, f) /\ Reach(src, S) = f[N]
<1> DEFINE V == SUBSET Relations
           G == [k \in 1..N |-> [R \in V |-> R \cup (Neighbors(R) \cap S)]]
<1>1. G \in [1..N -> [V -> V]] /\ src \cap S \in V
  OBVIOUS
<1>2. \E f \in [0..N -> V] : Iteration(f, N, src \cap S, G)
  <2> HIDE DEF G, V
  <2> QED BY <1>1, Iterates, NFacts
<1>3. PICK h \in [0..N -> V] : Iteration(h, N, src \cap S, G)
  BY <1>2
<1> DEFINE P(f) == f = [k \in 0..N |-> IF k = 0 THEN src \cap S
                          ELSE LET R == f[k - 1] IN R \cup (Neighbors(R) \cap S)]
           c == CHOOSE f : P(f)
<1>4. P(h)
  <2>1. ASSUME NEW k \in 0..N
        PROVE  h[k] = IF k = 0 THEN src \cap S ELSE h[k - 1] \cup (Neighbors(h[k - 1]) \cap S)
    <3>1. CASE k # 0
      <4>1. k \in 1..N /\ k - 1 \in 0..N
        BY <3>1, NFacts
      <4>2. h[k - 1] \in V /\ h[k] = G[k][h[k - 1]]
        BY <4>1, <1>3 DEF Iteration
      <4> QED BY <3>1, <4>1, <4>2
    <3>2. CASE k = 0
      BY <3>2, <1>3 DEF Iteration
    <3> QED BY <3>1, <3>2
  <2> QED BY <2>1
<1>5. P(c)
  <2> HIDE DEF P
  <2> QED BY <1>4
<1>6. Reach(src, S) = c[N]
  BY Zenon DEF Reach
<1> HIDE DEF c
<1> QED BY <1>5, <1>6 DEF ReachStep

(* What is reached lies in the components of where it started. *)
LEMMA ReachStays ==
  ASSUME NEW src, NEW S \in SUBSET Relations, NEW K, Closed(K, S), src \cap S \subseteq K
  PROVE  Reach(src, S) \subseteq K
<1>1. PICK f : ReachStep(src, S, f) /\ Reach(src, S) = f[N]
  BY ReachEquation
<1> DEFINE Good == {k \in 0..N : f[k] \subseteq K}
<1>2. 0 \in Good
  BY <1>1, NFacts DEF ReachStep
<1>3. ASSUME NEW k \in 1..N, k - 1 \in Good PROVE k \in Good
  <2>1. k \in 0..N /\ k # 0 /\ f[k - 1] \subseteq K
    BY <1>3, NFacts
  <2>2. f[k] = f[k - 1] \cup (Neighbors(f[k - 1]) \cap S)
    BY <2>1, <1>1 DEF ReachStep
  <2>3. Neighbors(f[k - 1]) \cap S \subseteq f[k - 1] \cup (Neighbors(K) \cap S) \cup K
    BY <2>1 DEF Neighbors
  <2>4. Neighbors(K) \cap S \subseteq K
    BY DEF Closed, Joined
  <2> QED BY <2>1, <2>2, <2>3, <2>4
<1> HIDE DEF Good
<1>4. Inductive(N, Good)
  BY <1>2, <1>3 DEF Inductive
<1>5. \A k \in 0..N : k \in Good
  BY <1>4, UpTo, NFacts
<1>6. N \in Good
  BY <1>5, NFacts
<1> QED BY <1>1, <1>6 DEF Good

LEMMA ConnectedLinked ==
  ASSUME NEW S \in Subproblems, Connected(S)
  PROVE  Linked(S)
<1>1. S \in SUBSET Relations /\ S # {}
  BY DEF Subproblems
<1>2. Min(S) \in S
  BY <1>1, MinFacts
<1> SUFFICES ASSUME NEW L \in (SUBSET S) \ {{}, S}, ~Joined(L, S \ L) PROVE FALSE
  BY DEF Linked
<1>3. Closed(L, S) /\ Closed(S \ L, S)
  <2>1. Closed(L, S)
    BY DEF Closed
  <2> QED BY <1>1, <2>1, ClosedComplement
<1>4. ASSUME NEW K, Closed(K, S), Min(S) \in K PROVE K = S
  <2>1. {Min(S)} \cap S \subseteq K
    BY <1>4
  <2>2. Reach({Min(S)}, S) \subseteq K
    BY <1>1, <1>4, <2>1, ReachStays
  <2> QED BY <1>4, <2>2 DEF Connected, Closed
<1>5. CASE Min(S) \in L
  BY <1>3, <1>4, <1>5
<1>6. CASE Min(S) \notin L
  BY <1>2, <1>3, <1>4, <1>6
<1> QED BY <1>5, <1>6

LEMMA AllLinked ==
  ASSUME GraphOK
  PROVE  Linked(All)
BY EdgeFacts DEF Linked, All, Subproblems

LEMMA SingletonLinked ==
  ASSUME NEW r \in Relations
  PROVE  Linked({r}) /\ {r} \in Subproblems
BY DEF Linked, Subproblems

(* Joining parts of a graph that are connected to each other. *)
LEMMA UnionLinked ==
  ASSUME NEW L \in Subproblems, NEW R \in Subproblems, L \cap R = {},
         Linked(L), Linked(R), Joined(L, R)
  PROVE  Linked(L \cup R)
<1>0. L \in SUBSET Relations /\ R \in SUBSET Relations
  BY DEF Subproblems
<1> SUFFICES ASSUME NEW K \in (SUBSET (L \cup R)) \ {{}, L \cup R} PROVE Joined(K, (L \cup R) \ K)
  BY DEF Linked
<1> DEFINE C == (L \cup R) \ K
<1>1. K \in SUBSET Relations /\ C \in SUBSET Relations /\ K \cap C = {}
  BY <1>0
<1>2. Joined(K, C) <=> \E u \in K, v \in C : {u, v} \in graph
  BY <1>1 DEF Joined, Neighbors
<1>3. ASSUME NEW S \in {L, R}, Linked(S), S \cap K # {}, S \cap C # {}
      PROVE  Joined(K, C)
  <2>1. S \cap K \in (SUBSET S) \ {{}, S} /\ S \ (S \cap K) = S \cap C
    BY <1>3
  <2>2. Joined(S \cap K, S \cap C)
    BY <1>3, <2>1 DEF Linked
  <2>3. \E u \in S \cap K, v \in S \cap C : {u, v} \in graph
    <3>1. S \cap K \in SUBSET Relations /\ S \cap C \in SUBSET Relations /\ (S \cap K) \cap (S \cap C) = {}
      BY <1>1
    <3> QED BY <2>2, <3>1 DEF Joined, Neighbors
  <2> QED BY <2>3, <1>2
<1>4. CASE K = L
  <2>1. C = R
    BY <1>4
  <2> QED BY <1>4, <2>1
<1>5. CASE K = R
  <2>1. C = L /\ Joined(R, L)
    BY <1>0, <1>5, JoinedSymmetric
  <2> QED BY <1>5, <2>1
<1>6. CASE K # L /\ K # R
  <2>1. (L \cap K # {} /\ L \cap C # {}) \/ (R \cap K # {} /\ R \cap C # {})
    BY <1>6, <1>0
  <2> QED BY <2>1, <1>3
<1> QED BY <1>4, <1>5, <1>6

-----------------------------------------------------------------------------
(* The joins of the enumerators. *)

Splits       == {p \in Subproblems \X Subproblems : p[1] \cap p[2] = {}}
JoinedSplits == {p \in Splits : Joined(p[1], p[2])}
SplitsOf(S)  == {p \in Splits : p[1] \cup p[2] = S}

LEMMA SplitsTyped ==
  ASSUME NEW L \in Subproblems, NEW R \in Subproblems, L \cap R = {}
  PROVE  <<L, R>> \in Splits /\ (Joined(L, R) => <<L, R>> \in JoinedSplits)
BY DEF Splits, JoinedSplits

LEMMA SubproblemsFacts ==
  /\ Subproblems \in SUBSET (SUBSET Relations)
  /\ All \in Subproblems
BY RelationsAssumption DEF Subproblems, All

LEMMA LinkedSplits ==
  ASSUME NEW S \in Subproblems, Linked(S)
  PROVE  SplitsOf(S) \subseteq JoinedSplits
<1> SUFFICES ASSUME NEW p \in SplitsOf(S) PROVE Joined(p[1], p[2])
  BY DEF SplitsOf, JoinedSplits
<1>1. p[1] \in (SUBSET S) \ {{}, S} /\ p[2] = S \ p[1]
  BY DEF SplitsOf, Splits, Subproblems
<1> QED BY <1>1 DEF Linked

LEMMA DissectFacts ==
  ASSUME NEW S \in Subproblems
  PROVE  Dissect(S) \in Seq(SplitsOf(S))
<1> DEFINE F == (SUBSET S) \ {{}, S}
           b == SubsetsInOrder[S]
<1>1. F \in SUBSET (SUBSET Relations)
  BY DEF Subproblems
<1>2. b = ByValue(F)
  BY DEF SubsetsInOrder
<1>3. b \in Seq(F)
  <2> HIDE DEF F, b
  <2> QED BY <1>1, <1>2, ByValueFacts
<1> HIDE DEF b
<1>4. ASSUME NEW i \in 1..Len(b) PROVE <<b[i], S \ b[i]>> \in SplitsOf(S)
  <2>1. b[i] \in F
    BY <1>3
  <2> QED BY <2>1 DEF SplitsOf, Splits, Subproblems
<1>5. [i \in 1..Len(b) |-> <<b[i], S \ b[i]>>] \in Seq(SplitsOf(S))
  BY <1>3, <1>4, IsASeq
<1> QED BY <1>5 DEF Dissect, b

LEMMA DissectAllFacts ==
  ASSUME NEW F \in Seq(Subproblems)
  PROVE  /\ DissectAll(F) \in Seq(Splits)
         /\ (\A S \in ToSet(F) : Linked(S)) => DissectAll(F) \in Seq(JoinedSplits)
<1>1. ASSUME NEW T, \A S \in ToSet(F) : SplitsOf(S) \subseteq T
      PROVE  DissectAll(F) \in Seq(T)
  <2>1. ASSUME NEW i \in 1..Len(F) PROVE Dissect(F[i]) \in Seq(T)
    <3>1. F[i] \in Subproblems /\ F[i] \in ToSet(F)
      BY DEF ToSet
    <3>2. Dissect(F[i]) \in Seq(SplitsOf(F[i])) /\ SplitsOf(F[i]) \subseteq T
      BY <3>1, <1>1, DissectFacts
    <3> QED BY <3>2, SeqMonotonic
  <2>2. [i \in 1..Len(F) |-> Dissect(F[i])] \in Seq(Seq(T))
    BY <2>1, IsASeq
  <2> QED BY <2>2, FlattenTyped DEF DissectAll
<1>2. \A S \in ToSet(F) : SplitsOf(S) \subseteq Splits
  BY DEF SplitsOf
<1>3. ASSUME \A S \in ToSet(F) : Linked(S)
      PROVE  \A S \in ToSet(F) : SplitsOf(S) \subseteq JoinedSplits
  <2>1. ToSet(F) \subseteq Subproblems
    BY DEF ToSet
  <2> QED BY <1>3, <2>1, LinkedSplits
<1> QED BY <1>1, <1>2, <1>3

LEMMA PairsFacts ==
  ASSUME NEW F \in Seq(Subproblems), NEW G \in Seq(Subproblems)
  PROVE  Pairs(F, G) \in Seq(Subproblems \X Subproblems)
<1> DEFINE row(i) == [j \in 1..Len(G) |-> <<F[i], G[j]>>]
<1>1. ASSUME NEW i \in 1..Len(F) PROVE row(i) \in Seq(Subproblems \X Subproblems)
  <2>1. \A j \in 1..Len(G) : <<F[i], G[j]>> \in Subproblems \X Subproblems
    OBVIOUS
  <2> QED BY <2>1, IsASeq
<1>2. [i \in 1..Len(F) |-> row(i)] \in Seq(Seq(Subproblems \X Subproblems))
  <2> HIDE DEF row
  <2> QED BY <1>1, IsASeq
<1> QED BY <1>2, FlattenTyped DEF Pairs

LEMMA DisjointFacts ==
  ASSUME NEW s \in Seq(Subproblems \X Subproblems)
  PROVE  /\ Disjoint(s) \in Seq(JoinedSplits)
         /\ \A p \in ToSet(s) : p \in JoinedSplits => p \in ToSet(Disjoint(s))
         /\ ToSet(Disjoint(s)) \subseteq ToSet(s)
<1> DEFINE F == {p \in ToSet(s) : p[1] \cap p[2] = {} /\ Joined(p[1], p[2])}
<1>1. Within(s, F) \in Seq(Subproblems \X Subproblems) /\ ToSet(Within(s, F)) = ToSet(s) \cap F
  <2> HIDE DEF F
  <2> QED BY WithinFacts
<1>2. ToSet(s) \subseteq Subproblems \X Subproblems
  BY DEF ToSet
<1>3. ToSet(Within(s, F)) \subseteq JoinedSplits
  BY <1>1, <1>2 DEF JoinedSplits, Splits
<1>4. \A p \in ToSet(s) : p \in JoinedSplits => p \in F
  BY DEF JoinedSplits, Splits
<1>5. Disjoint(s) = Within(s, F)
  BY DEF Disjoint
<1> HIDE DEF F
<1>6. Within(s, F) \in Seq(JoinedSplits)
  BY <1>1, <1>3, SeqOfElements
<1> QED BY <1>1, <1>4, <1>5, <1>6

LEMMA OfSizeFacts ==
  ASSUME NEW k
  PROVE  OfSize(k) \in Seq(Subproblems)
<1> DEFINE F == {S \in Subproblems : Cardinality(S) = k}
<1>1. F \in SUBSET (SUBSET Relations) /\ F \subseteq Subproblems
  BY SubproblemsFacts
<1>2. OfSize(k) = ByValue(F)
  BY DEF OfSize
<1> HIDE DEF F
<1>3. ByValue(F) \in Seq(F)
  BY <1>1, ByValueFacts
<1> QED BY <1>1, <1>2, <1>3, SeqMonotonic

LEMMA AllInOrderFacts ==
  /\ AllInOrder \in Seq(Subproblems)
  /\ AllConnected \in Seq(Subproblems)
  /\ \A S \in ToSet(AllConnected) : Linked(S)
<1> DEFINE F == {S \in Subproblems : Cardinality(S) > 1}
<1>1. F \in SUBSET (SUBSET Relations) /\ F \subseteq Subproblems
  BY SubproblemsFacts
<1>2. AllInOrder = ByValue(F)
  BY DEF AllInOrder
<1> HIDE DEF F
<1>3. AllInOrder \in Seq(Subproblems)
  BY <1>1, <1>2, ByValueFacts, SeqMonotonic
<1>4. AllConnected \in Seq(Subproblems) /\ ToSet(AllConnected) = ToSet(AllInOrder) \cap ConnectedOnes
  BY <1>3, WithinFacts DEF AllConnected
<1>5. \A S \in ConnectedOnes : Linked(S)
  BY ConnectedLinked DEF ConnectedOnes
<1> QED BY <1>3, <1>4, <1>5

LEMMA WithinTyped ==
  ASSUME NEW T, NEW s \in Seq(T), NEW F
  PROVE  Within(s, F) \in Seq(T) /\ ToSet(Within(s, F)) \subseteq F
BY WithinFacts

LEMMA DPsubFacts == DPsub \in Seq(JoinedSplits) /\ DPsubOpt \in Seq(JoinedSplits)
<1>1. DPsub \in Seq(JoinedSplits)
  BY AllInOrderFacts, DissectAllFacts DEF DPsub
<1> QED BY <1>1, WithinTyped DEF DPsubOpt, HalfOf

LEMMA PEallFacts == PEall \in Seq(Splits)
<1>1. DissectAll(AllInOrder) \in Seq(Splits)
  BY AllInOrderFacts, DissectAllFacts
<1> QED BY <1>1, WithinTyped DEF PEall, HalfOf

LEMMA DPsizeSubFacts == DPsizeSub \in Seq(JoinedSplits)
<1> DEFINE layer(s) == DissectAll(Within(OfSize(s + 1), ConnectedOnes))
<1>1. ASSUME NEW s PROVE layer(s) \in Seq(JoinedSplits)
  <2> DEFINE F == Within(OfSize(s + 1), ConnectedOnes)
  <2>1. F \in Seq(Subproblems) /\ ToSet(F) \subseteq ConnectedOnes
    BY OfSizeFacts, WithinTyped
  <2>2. \A S \in ConnectedOnes : Linked(S)
    BY ConnectedLinked DEF ConnectedOnes
  <2> HIDE DEF F
  <2>3. DissectAll(F) \in Seq(JoinedSplits)
    BY <2>1, <2>2, DissectAllFacts
  <2> QED BY <2>3 DEF F
<1>2. [s \in 1..(N - 1) |-> layer(s)] \in Seq(Seq(JoinedSplits))
  <2> HIDE DEF layer
  <2>1. N - 1 \in Nat
    BY NFacts
  <2> QED BY <1>1, <2>1, IsASeq
<1> QED BY <1>2, FlattenTyped DEF DPsizeSub

LEMMA DPsizeFacts == DPsize \in Seq(JoinedSplits)
<1> DEFINE ps(s, s1) == Disjoint(Pairs(OfSize(s1), OfSize(s + 1 - s1)))
           layer(s) == Flatten([s1 \in 1..s |-> ps(s, s1)])
<1>1. ASSUME NEW s, NEW s1 PROVE ps(s, s1) \in Seq(JoinedSplits)
  BY OfSizeFacts, PairsFacts, DisjointFacts
<1>2. ASSUME NEW s \in 1..(N - 1) PROVE layer(s) \in Seq(JoinedSplits)
  <2> HIDE DEF ps
  <2>1. [s1 \in 1..s |-> ps(s, s1)] \in Seq(Seq(JoinedSplits))
    BY <1>1, IsASeq
  <2> QED BY <2>1, FlattenTyped
<1>3. [s \in 1..(N - 1) |-> layer(s)] \in Seq(Seq(JoinedSplits))
  <2> HIDE DEF layer
  <2>1. N - 1 \in Nat
    BY NFacts
  <2> QED BY <1>2, <2>1, IsASeq
<1> QED BY <1>3, FlattenTyped DEF DPsize

LEMMA DPsizeOptFacts == DPsizeOpt \in Seq(JoinedSplits)
<1> DEFINE ps(s, s1) == Disjoint(Pairs(OfSize(s1), OfSize(s + 1 - s1)))
           half(s, s1) == IF 2 * s1 = s + 1
                            THEN Within(ps(s, s1), {p \in ToSet(ps(s, s1)) : Lesser(p[1], p[2])})
                            ELSE ps(s, s1)
           layer(s) == Flatten([s1 \in 1..DPsizeOptHalf(s + 1) |-> half(s, s1)])
<1>1. ASSUME NEW s, NEW s1 PROVE half(s, s1) \in Seq(JoinedSplits)
  <2>1. ps(s, s1) \in Seq(JoinedSplits)
    BY OfSizeFacts, PairsFacts, DisjointFacts
  <2> HIDE DEF ps
  <2> QED BY <2>1, WithinTyped
<1>2. ASSUME NEW s \in 1..(N - 1) PROVE layer(s) \in Seq(JoinedSplits)
  <2> HIDE DEF half
  <2>1. DPsizeOptHalf(s + 1) \in Nat
    BY DEF DPsizeOptHalf
  <2>2. [s1 \in 1..DPsizeOptHalf(s + 1) |-> half(s, s1)] \in Seq(Seq(JoinedSplits))
    BY <1>1, <2>1, IsASeq
  <2> QED BY <2>2, FlattenTyped
<1>3. [s \in 1..(N - 1) |-> layer(s)] \in Seq(Seq(JoinedSplits))
  <2> HIDE DEF layer
  <2>1. N - 1 \in Nat
    BY NFacts
  <2> QED BY <1>2, <2>1, IsASeq
<1> QED BY <1>3, FlattenTyped DEF DPsizeOpt

-----------------------------------------------------------------------------
(* DPccp *)

Around(super, S) == {Y \in SUBSET super : S \subseteq Y}

LEMMA ExtensionsFacts ==
  ASSUME NEW super \in SUBSET Relations, NEW S, NEW Y \in Around(super, S), NEW X \in SUBSET Relations
  PROVE  Extensions(super, Y, X) \in Seq(Around(super, S) \X SUBSET Relations)
<1> DEFINE nbrs == (Neighbors(Y) \cap super) \ X
           F == (SUBSET nbrs) \ {{}}
           some == ByValue(F)
<1>1. nbrs \in SUBSET super
  OBVIOUS
<1>2. F \in SUBSET (SUBSET Relations) /\ \A Z \in F : Z \in SUBSET super
  BY <1>1
<1>3. some \in Seq(F)
  <2> HIDE DEF F
  <2> QED BY <1>2, ByValueFacts
<1>4. Extensions(super, Y, X) = [i \in 1..Len(some) |-> <<Y \cup some[i], X \cup nbrs>>]
  BY DEF Extensions
<1> HIDE DEF some, F
<1>5. ASSUME NEW i \in 1..Len(some)
      PROVE  <<Y \cup some[i], X \cup nbrs>> \in Around(super, S) \X SUBSET Relations
  <2>1. some[i] \in SUBSET super
    BY <1>2, <1>3
  <2>2. Y \cup some[i] \in Around(super, S)
    BY <2>1 DEF Around
  <2> QED BY <1>1, <2>2
<1> HIDE DEF nbrs
<1> QED BY <1>3, <1>4, <1>5, IsASeq

LevelStep(super, S, X, f) ==
  f = [k \in 0..N |->
        IF k = 0 THEN <<<<S, X>>>>
        ELSE LET last == f[k - 1]
             IN  Flatten([i \in 1..Len(last) |-> Extensions(super, last[i][1], last[i][2])])]
Found(q) == [i \in 1..Len(q) |-> q[i][1]]

LEMMA SearchFromEquation ==
  ASSUME NEW super \in SUBSET Relations, NEW S \in SUBSET super, NEW X \in SUBSET Relations
  PROVE  \E f \in [0..N -> Seq(Around(super, S) \X SUBSET Relations)] :
           LevelStep(super, S, X, f) /\ SearchFrom(super, S, X) = Flatten([k \in 1..N |-> Found(f[k - 1])])
<1> DEFINE T == Around(super, S) \X SUBSET Relations
           V == Seq(T)
           More(q) == Flatten([i \in 1..Len(q) |-> Extensions(super, q[i][1], q[i][2])])
           G == [k \in 1..N |-> [q \in V |-> More(q)]]
<1>1. ASSUME NEW q \in V PROVE More(q) \in V
  <2>1. ASSUME NEW i \in 1..Len(q) PROVE Extensions(super, q[i][1], q[i][2]) \in V
    <3>1. q[i] \in T
      OBVIOUS
    <3>2. q[i][1] \in Around(super, S) /\ q[i][2] \in SUBSET Relations
      BY <3>1
    <3> QED BY <3>2, ExtensionsFacts
  <2> HIDE DEF T
  <2>2. [i \in 1..Len(q) |-> Extensions(super, q[i][1], q[i][2])] \in Seq(Seq(T))
    BY <2>1, IsASeq
  <2> QED BY <2>2, FlattenTyped
<1>2. <<<<S, X>>>> \in V
  <2>1. <<S, X>> \in T
    BY DEF Around
  <2> HIDE DEF T
  <2> QED BY <2>1
<1> HIDE DEF More, T
<1>3. G \in [1..N -> [V -> V]] /\ N \in Nat
  BY <1>1, NFacts
<1>4. \E f \in [0..N -> V] : Iteration(f, N, <<<<S, X>>>>, G)
  <2> HIDE DEF G, V
  <2> QED BY <1>2, <1>3, Iterates
<1>5. PICK h \in [0..N -> V] : Iteration(h, N, <<<<S, X>>>>, G)
  BY <1>4
<1> DEFINE P(f) == f = [k \in 0..N |->
              IF k = 0 THEN <<<<S, X>>>>
              ELSE LET last == f[k - 1]
                   IN  Flatten([i \in 1..Len(last) |-> Extensions(super, last[i][1], last[i][2])])]
           c == CHOOSE f : P(f)
<1>6. P(h)
  <2>1. ASSUME NEW k \in 0..N PROVE h[k] = IF k = 0 THEN <<<<S, X>>>> ELSE More(h[k - 1])
    <3>1. CASE k # 0
      <4>1. k \in 1..N /\ k - 1 \in 0..N
        BY <3>1, NFacts
      <4>2. h[k - 1] \in V /\ h[k] = G[k][h[k - 1]]
        BY <4>1, <1>5 DEF Iteration
      <4> HIDE DEF V
      <4> QED BY <3>1, <4>1, <4>2
    <3>2. CASE k = 0
      BY <3>2, <1>5 DEF Iteration
    <3> QED BY <3>1, <3>2
  <2>2. h = [k \in 0..N |-> IF k = 0 THEN <<<<S, X>>>> ELSE More(h[k - 1])]
    BY <2>1
  <2> QED BY <2>2, Zenon DEF More
<1>7. P(c)
  <2> HIDE DEF P
  <2> QED BY <1>6
<1>8. SearchFrom(super, S, X) = Flatten([k \in 1..N |-> Found(c[k - 1])])
  BY Zenon DEF SearchFrom, Found
<1>9. LevelStep(super, S, X, c)
  BY <1>7, Zenon DEF LevelStep
<1> HIDE DEF c
<1>10. \A k \in 0..N : c[k] = IF k = 0 THEN <<<<S, X>>>> ELSE More(c[k - 1])
  BY <1>9 DEF LevelStep, More
<1>11. ASSUME NEW k \in 0..N PROVE c[k] \in V
  <2> DEFINE Good == {j \in 0..N : c[j] \in V}
  <2>1. 0 \in Good
    <3>1. 0 \in 0..N
      BY NFacts
    <3>2. c[0] = <<<<S, X>>>>
      BY <3>1, <1>10, Zenon
    <3> HIDE DEF V
    <3> QED BY <3>1, <3>2, <1>2
  <2>2. ASSUME NEW j \in 1..N, j - 1 \in Good PROVE j \in Good
    <3>1. j \in 0..N /\ j # 0 /\ c[j - 1] \in V
      BY <2>2, NFacts
    <3>2. c[j] = More(c[j - 1])
      BY <3>1, <1>10
    <3> QED BY <3>1, <3>2, <1>1
  <2> HIDE DEF Good
  <2>3. Inductive(N, Good)
    BY <2>1, <2>2 DEF Inductive
  <2>4. k \in Good
    BY <2>3, UpTo, NFacts
  <2> QED BY <2>4 DEF Good
<1>12. c \in [0..N -> V]
  <2>1. c = [k \in 0..N |-> c[k]]
    BY <1>9 DEF LevelStep
  <2> HIDE DEF V
  <2> QED BY <2>1, <1>11
<1> QED BY <1>8, <1>9, <1>12 DEF T

LEMMA SearchFromFacts ==
  ASSUME NEW super \in SUBSET Relations, NEW S \in SUBSET super, NEW X \in SUBSET Relations
  PROVE  SearchFrom(super, S, X) \in Seq(Around(super, S))
<1> DEFINE A == Around(super, S)
<1>1. PICK f \in [0..N -> Seq(A \X SUBSET Relations)] :
        LevelStep(super, S, X, f) /\ SearchFrom(super, S, X) = Flatten([k \in 1..N |-> Found(f[k - 1])])
  BY SearchFromEquation
<1> HIDE DEF A
<1>2. ASSUME NEW k \in 1..N PROVE Found(f[k - 1]) \in Seq(A)
  <2>1. k - 1 \in 0..N
    BY NFacts
  <2>2. f[k - 1] \in Seq(A \X SUBSET Relations)
    BY <2>1
  <2>3. ASSUME NEW q \in Seq(A \X SUBSET Relations) PROVE Found(q) \in Seq(A)
    <3>1. \A i \in 1..Len(q) : q[i][1] \in A
      <4>1. \A i \in 1..Len(q) : q[i] \in A \X SUBSET Relations
        OBVIOUS
      <4> QED BY <4>1
    <3> QED BY <3>1, IsASeq DEF Found
  <2> QED BY <2>2, <2>3
<1>3. [k \in 1..N |-> Found(f[k - 1])] \in Seq(Seq(A))
  BY <1>2, NFacts, IsASeq
<1> QED BY <1>1, <1>3, FlattenTyped DEF A

LEMMA ConnectedSubgraphsFacts ==
  ASSUME NEW super \in SUBSET Relations, NEW source \in SUBSET Relations
  PROVE  ConnectedSubgraphs(super, source) \in Seq({Y \in SUBSET super : Y \cap source # {}})
<1> DEFINE T == {Y \in SUBSET super : Y \cap source # {}}
           from == Ascending(source \cap super)
           X(i) == {u \in source \cap super : u > from[i]}
<1>1. from \in Seq(source \cap super)
  BY AscendingFacts
<1>2. ConnectedSubgraphs(super, source) = Flatten([i \in 1..Len(from) |-> SearchFrom(super, {from[i]}, X(i))])
  BY DEF ConnectedSubgraphs
<1>3. ASSUME NEW i PROVE X(i) \in SUBSET Relations
  OBVIOUS
<1> HIDE DEF from, X
<1>4. ASSUME NEW i \in 1..Len(from) PROVE SearchFrom(super, {from[i]}, X(i)) \in Seq(T)
  <2>1. from[i] \in source \cap super
    BY <1>1
  <2>2. {from[i]} \in SUBSET super
    BY <2>1
  <2>3. SearchFrom(super, {from[i]}, X(i)) \in Seq(Around(super, {from[i]}))
    BY <2>2, <1>3, SearchFromFacts
  <2>4. Around(super, {from[i]}) \subseteq T
    BY <2>1 DEF Around
  <2> HIDE DEF T
  <2> QED BY <2>3, <2>4, SeqMonotonic
<1> HIDE DEF T
<1>5. [i \in 1..Len(from) |-> SearchFrom(super, {from[i]}, X(i))] \in Seq(Seq(T))
  BY <1>1, <1>4, IsASeq
<1>6. ConnectedSubgraphs(super, source) \in Seq(T)
  BY <1>2, <1>5, FlattenTyped
<1> QED BY <1>6 DEF T

LEMMA DPccpFacts == DPccp \in Seq(JoinedSplits)
<1> DEFINE first == ConnectedSubgraphs(All, All)
           super(S) == {v \in All \ S : v <= Max(S)}
           partners(S) == ConnectedSubgraphs(super(S), Neighbors(S))
           row(S) == [j \in 1..Len(partners(S)) |-> <<S, partners(S)[j]>>]
<1>1. first \in Seq(Subproblems)
  <2>1. first \in Seq({Y \in SUBSET All : Y \cap All # {}})
    BY ConnectedSubgraphsFacts DEF All
  <2>2. {Y \in SUBSET All : Y \cap All # {}} \subseteq Subproblems
    BY DEF All, Subproblems
  <2> HIDE DEF first
  <2> QED BY <2>1, <2>2, SeqMonotonic
<1>2. ASSUME NEW S \in Subproblems PROVE row(S) \in Seq(JoinedSplits)
  <2>1. super(S) \in SUBSET Relations /\ Neighbors(S) \in SUBSET Relations /\ super(S) \cap S = {}
    BY DEF All, Neighbors
  <2> HIDE DEF super
  <2>2. partners(S) \in Seq({Y \in SUBSET super(S) : Y \cap Neighbors(S) # {}})
    BY <2>1, ConnectedSubgraphsFacts
  <2> HIDE DEF partners
  <2>3. ASSUME NEW j \in 1..Len(partners(S)) PROVE <<S, partners(S)[j]>> \in JoinedSplits
    <3>1. partners(S)[j] \in SUBSET super(S) /\ partners(S)[j] \cap Neighbors(S) # {}
      BY <2>2
    <3>2. partners(S)[j] \in Subproblems /\ S \cap partners(S)[j] = {} /\ Joined(S, partners(S)[j])
      BY <2>1, <3>1 DEF Subproblems, Joined
    <3> QED BY <3>2, SplitsTyped
  <2> QED BY <2>2, <2>3, IsASeq
<1>3. DPccp = Flatten([i \in 1..Len(first) |-> row(first[i])])
  BY DEF DPccp
<1> HIDE DEF row, first
<1>4. [i \in 1..Len(first) |-> row(first[i])] \in Seq(Seq(JoinedSplits))
  BY <1>1, <1>2, IsASeq
<1> QED BY <1>3, <1>4, FlattenTyped

-----------------------------------------------------------------------------
(* Minimal cuts *)

CutEntries(S) == (SUBSET S) \X (SUBSET S) \X (SUBSET S)
CutList == Seq((SUBSET Relations) \X (SUBSET Relations))

NextT(S, C, T) == IF RestConnected(S, C, T) THEN {} ELSE C
NextEntry(S, C, X, T, i) ==
  LET grow == CutVertices(S, C, X)
  IN  <<C \cup {grow[i]}, X \cup {v \in ToSet(grow) : v < grow[i]}, NextT(S, C, T) \cup {grow[i]}>>
CutsBody(S, C, X, T, f) ==
  (IF RestConnected(S, C, T) THEN <<<<C, S \ C>>>> ELSE <<>>) \o
  (IF Cardinality(C) + 1 >= Cardinality(S) THEN <<>>
   ELSE Flatten([i \in 1..Len(CutVertices(S, C, X)) |-> f[NextEntry(S, C, X, T, i)]]))
CutsStep(S, f) ==
  \A C, X, T \in SUBSET S : f[<<C, X, T>>] = CutsBody(S, C, X, T, f)

Growable(S, C, X) == (Neighbors(C) \cap S) \ X

LEMMA CutVerticesFacts ==
  ASSUME NEW S \in SUBSET Relations, NEW C, NEW X
  PROVE  /\ CutVertices(S, C, X) \in Seq(Growable(S, C, X))
         /\ ToSet(CutVertices(S, C, X)) = Growable(S, C, X)
<1> DEFINE M == Growable(S, C, X)
           a == Ascending(M)
<1>1. M \in SUBSET Relations
  BY DEF Growable
<1>2. CutVertices(S, C, X) = Reverse(a)
  BY DEF CutVertices, Growable
<1> HIDE DEF M
<1>3. a \in Seq(M) /\ ToSet(a) = M
  BY <1>1, AscendingFacts
<1> HIDE DEF a
<1>4. Reverse(a) = [i \in 1..Len(a) |-> a[Len(a) - i + 1]]
  BY DEF Reverse
<1>5. \A i \in 1..Len(a) : Len(a) - i + 1 \in 1..Len(a) /\ Len(a) - (Len(a) - i + 1) + 1 = i
  BY <1>3
<1>6. Reverse(a) \in Seq(M) /\ Len(Reverse(a)) = Len(a)
  <2>1. \A i \in 1..Len(a) : a[Len(a) - i + 1] \in M
    BY <1>3, <1>5
  <2> QED BY <1>3, <1>4, <2>1, IsASeq
<1>7. ToSet(Reverse(a)) = ToSet(a)
  <2>1. ASSUME NEW i \in 1..Len(a) PROVE a[i] \in ToSet(Reverse(a))
    <3>1. Reverse(a)[Len(a) - i + 1] = a[i] /\ Len(a) - i + 1 \in 1..Len(a)
      BY <1>4, <1>5
    <3> QED BY <3>1, <1>6 DEF ToSet
  <2>2. ASSUME NEW i \in 1..Len(a) PROVE Reverse(a)[i] \in ToSet(a)
    BY <1>3, <1>4, <1>5 DEF ToSet
  <2> QED BY <2>1, <2>2, <1>3, <1>6 DEF ToSet
<1> QED BY <1>2, <1>3, <1>6, <1>7 DEF M

GrowsByOne(S, C, X, T, i) ==
  LET v == CutVertices(S, C, X)[i]
      e == NextEntry(S, C, X, T, i)
  IN  /\ v \in Neighbors(C) \cap S /\ v \notin C
      /\ e \in CutEntries(S) /\ e = <<C \cup {v}, e[2], NextT(S, C, T) \cup {v}>>
      /\ Cardinality(C \cup {v}) = Cardinality(C) + 1

LEMMA NextEntryFacts ==
  ASSUME NEW S \in SUBSET Relations, NEW C \in SUBSET S, NEW X \in SUBSET S, NEW T \in SUBSET S,
         NEW i \in 1..Len(CutVertices(S, C, X))
  PROVE  GrowsByOne(S, C, X, T, i)
<1> DEFINE v == CutVertices(S, C, X)[i]
<1>0. CutVertices(S, C, X) \in Seq(Growable(S, C, X)) /\ ToSet(CutVertices(S, C, X)) = Growable(S, C, X)
  BY CutVerticesFacts
<1>1. v \in (Neighbors(C) \cap S) \ X
  <2>1. v \in Growable(S, C, X)
    BY <1>0
  <2> QED BY <2>1 DEF Growable
<1>2. v \in S /\ v \notin C
  BY <1>1 DEF Neighbors
<1>3. NextT(S, C, T) \in SUBSET S
  BY DEF NextT
<1>4. ToSet(CutVertices(S, C, X)) \subseteq S
  BY <1>0 DEF Growable
<1>5. Cardinality(C \cup {v}) = Cardinality(C) + 1
  <2>1. IsFiniteSet(C)
    BY NFacts, FS_Subset
  <2> QED BY <2>1, <1>2, FS_AddElement
<1>6. NextEntry(S, C, X, T, i) = <<C \cup {v}, NextEntry(S, C, X, T, i)[2], NextT(S, C, T) \cup {v}>>
  BY DEF NextEntry
<1>7. NextEntry(S, C, X, T, i)[2] \in SUBSET S
  BY <1>4 DEF NextEntry
<1>8. NextEntry(S, C, X, T, i) \in CutEntries(S)
  <2> HIDE DEF v
  <2> QED BY <1>2, <1>3, <1>6, <1>7 DEF CutEntries
<1> QED BY <1>1, <1>2, <1>5, <1>6, <1>8 DEF GrowsByOne

LEMMA CutsBodyTyped ==
  ASSUME NEW S \in SUBSET Relations, NEW C \in SUBSET S, NEW X \in SUBSET S, NEW T \in SUBSET S,
         NEW U, <<C, S \ C>> \in U, NEW f,
         \A i \in 1..Len(CutVertices(S, C, X)) :
           Cardinality(C) + 1 < Cardinality(S) => f[NextEntry(S, C, X, T, i)] \in Seq(U)
  PROVE  CutsBody(S, C, X, T, f) \in Seq(U)
<1> DEFINE a == IF RestConnected(S, C, T) THEN <<<<C, S \ C>>>> ELSE <<>>
           more == [i \in 1..Len(CutVertices(S, C, X)) |-> f[NextEntry(S, C, X, T, i)]]
           b == IF Cardinality(C) + 1 >= Cardinality(S) THEN <<>> ELSE Flatten(more)
<1>1. a \in Seq(U)
  OBVIOUS
<1>2. Cardinality(C) \in Nat /\ Cardinality(S) \in Nat
  BY NFacts, FS_Subset, FS_CardinalityType
<1>3. Len(CutVertices(S, C, X)) \in Nat
  BY CutVerticesFacts
<1>4. b \in Seq(U)
  <2>1. CASE Cardinality(C) + 1 < Cardinality(S)
    <3>1. more \in Seq(Seq(U))
      BY <2>1, <1>3, IsASeq
    <3> HIDE DEF more
    <3>2. Flatten(more) \in Seq(U)
      BY <3>1, FlattenTyped
    <3> QED BY <3>2, <2>1, <1>2
  <2>2. CASE ~(Cardinality(C) + 1 < Cardinality(S))
    BY <2>2, <1>2
  <2> QED BY <2>1, <2>2
<1>5. CutsBody(S, C, X, T, f) = a \o b
  BY DEF CutsBody
<1> HIDE DEF a, b
<1> QED BY <1>1, <1>4, <1>5, ConcatProperties

LEMMA CutsEquation ==
  ASSUME NEW S \in SUBSET Relations
  PROVE  \E f : CutsStep(S, f) /\ MinCuts(S) = f[<<{Min(S)}, {}, {Min(S)}>>]
<1> DEFINE D == CutEntries(S)
           V == CutList
           G == [e \in D |-> [f \in [D -> V] |-> CutsBody(S, e[1], e[2], e[3], f)]]
           rank == [e \in D |-> Cardinality(S) - Cardinality(e[1])]
<1>0. IsFiniteSet(S) /\ Cardinality(S) \in Nat /\ \A C \in SUBSET S : Cardinality(C) \in Nat /\ Cardinality(C) <= Cardinality(S)
  BY NFacts, FS_Subset, FS_CardinalityType
<1>1. \A e \in D : e[1] \in SUBSET S /\ e[2] \in SUBSET S /\ e[3] \in SUBSET S /\ e = <<e[1], e[2], e[3]>>
  BY DEF CutEntries
<1>2. rank \in [D -> Nat] /\ V # {}
  <2>1. <<>> \in V
    BY DEF CutList
  <2>2. \A e \in D : Cardinality(S) - Cardinality(e[1]) \in Nat
    BY <1>0, <1>1
  <2> QED BY <2>1, <2>2
<1>3. ASSUME NEW C \in SUBSET S, NEW X \in SUBSET S, NEW T \in SUBSET S,
             NEW i \in 1..Len(CutVertices(S, C, X))
      PROVE  NextEntry(S, C, X, T, i) \in D /\ <<C, X, T>> \in D
             /\ rank[NextEntry(S, C, X, T, i)] < rank[<<C, X, T>>]
  <2> DEFINE e == NextEntry(S, C, X, T, i)
             v == CutVertices(S, C, X)[i]
  <2>1. e \in D /\ e[1] = C \cup {v} /\ Cardinality(C \cup {v}) = Cardinality(C) + 1 /\ v \in S
    <3>1. e \in D /\ e = <<C \cup {v}, e[2], NextT(S, C, T) \cup {v}>>
          /\ Cardinality(C \cup {v}) = Cardinality(C) + 1 /\ v \in S
      <4>1. GrowsByOne(S, C, X, T, i)
        BY NextEntryFacts
      <4>2. v \in S
        BY <4>1 DEF GrowsByOne
      <4> QED BY <4>1, <4>2, Zenon DEF GrowsByOne
    <3> HIDE DEF e, v
    <3> QED BY <3>1
  <2>2. <<C, X, T>> \in D /\ <<C, X, T>>[1] = C
    BY DEF CutEntries
  <2> HIDE DEF e, v, D
  <2>3. rank[e] = Cardinality(S) - (Cardinality(C) + 1) /\ rank[<<C, X, T>>] = Cardinality(S) - Cardinality(C)
    BY <2>1, <2>2
  <2>4. rank[e] < rank[<<C, X, T>>]
    BY <2>3, <1>0
  <2> QED BY <2>1, <2>2, <2>4 DEF e
<1> HIDE DEF D, rank
<1>4. ASSUME NEW e \in D, NEW f \in [D -> V] PROVE CutsBody(S, e[1], e[2], e[3], f) \in V
  <2> DEFINE C == e[1]
             X == e[2]
             T == e[3]
             U == (SUBSET Relations) \X (SUBSET Relations)
  <2>1. C \in SUBSET S /\ X \in SUBSET S /\ T \in SUBSET S /\ <<C, S \ C>> \in U
    BY <1>1
  <2> HIDE DEF C, X, T
  <2>2. \A i \in 1..Len(CutVertices(S, C, X)) : f[NextEntry(S, C, X, T, i)] \in Seq(U)
    BY <2>1, <1>3 DEF CutList
  <2> HIDE DEF U
  <2>3. CutsBody(S, C, X, T, f) \in Seq(U)
    BY <2>1, <2>2, CutsBodyTyped
  <2> QED BY <2>3 DEF C, X, T, U, CutList
<1>5. LooksBelow(G, D, V, rank)
  <2> SUFFICES ASSUME NEW e \in D, NEW f \in [D -> V], NEW g \in [D -> V],
                      \A j \in D : rank[j] < rank[e] => f[j] = g[j]
               PROVE  G[e][f] = G[e][g]
    BY DEF LooksBelow
  <2> DEFINE C == e[1]
             X == e[2]
             T == e[3]
  <2>1. C \in SUBSET S /\ X \in SUBSET S /\ T \in SUBSET S /\ e = <<C, X, T>>
    BY <1>1
  <2> HIDE DEF C, X, T
  <2>2. \A i \in 1..Len(CutVertices(S, C, X)) : f[NextEntry(S, C, X, T, i)] = g[NextEntry(S, C, X, T, i)]
    BY <2>1, <1>3
  <2>3. [i \in 1..Len(CutVertices(S, C, X)) |-> f[NextEntry(S, C, X, T, i)]]
        = [i \in 1..Len(CutVertices(S, C, X)) |-> g[NextEntry(S, C, X, T, i)]]
    BY <2>2
  <2>4. CutsBody(S, C, X, T, f) = CutsBody(S, C, X, T, g)
    BY <2>3 DEF CutsBody
  <2>5. G[e][f] = CutsBody(S, C, X, T, f) /\ G[e][g] = CutsBody(S, C, X, T, g)
    BY DEF C, X, T
  <2> QED BY <2>4, <2>5
<1>6. Solvable(G, D, V)
  <2>1. G \in [D -> [[D -> V] -> V]]
    BY <1>4
  <2>2. Recursion(G, D, V, rank)
    BY <1>2, <1>5, <2>1 DEF Recursion
  <2> HIDE DEF G, V
  <2> QED BY <2>2, RecursiveFunction
<1>7. PICK h \in [D -> V] : \A e \in D : h[e] = G[e][h]
  BY <1>6 DEF Solvable
<1> DEFINE P(f) == f = [entry \in (SUBSET S) \X (SUBSET S) \X (SUBSET S) |->
        LET C == entry[1]
            X == entry[2]
            T == entry[3]
            T1   == IF RestConnected(S, C, T) THEN {} ELSE C
            grow == CutVertices(S, C, X)
            more == [i \in 1..Len(grow) |->
                      f[<<C \cup {grow[i]}, X \cup {v \in ToSet(grow) : v < grow[i]}, T1 \cup {grow[i]}>>]]
        IN  (IF RestConnected(S, C, T) THEN <<<<C, S \ C>>>> ELSE <<>>) \o
            (IF Cardinality(C) + 1 >= Cardinality(S) THEN <<>> ELSE Flatten(more))]
           c == CHOOSE f : P(f)
<1>8. ASSUME NEW f PROVE P(f) <=> f = [e \in D |-> CutsBody(S, e[1], e[2], e[3], f)]
  BY Zenon DEF CutsBody, NextEntry, NextT, D, CutEntries
<1>9. MinCuts(S) = c[<<{Min(S)}, {}, {Min(S)}>>]
  BY Zenon DEF MinCuts
<1> HIDE DEF P
<1>10. P(h)
  <2>1. \A e \in D : h[e] = CutsBody(S, e[1], e[2], e[3], h)
    BY <1>7
  <2>2. h = [e \in D |-> CutsBody(S, e[1], e[2], e[3], h)]
    BY <2>1
  <2> QED BY <1>8, <2>2
<1>11. P(c)
  BY <1>10
<1> HIDE DEF c
<1>12. c = [e \in D |-> CutsBody(S, e[1], e[2], e[3], c)]
  BY <1>8, <1>11
<1>13. ASSUME NEW C \in SUBSET S, NEW X \in SUBSET S, NEW T \in SUBSET S
       PROVE  c[<<C, X, T>>] = CutsBody(S, C, X, T, c)
  <2> DEFINE e == <<C, X, T>>
  <2>1. e \in D /\ e[1] = C /\ e[2] = X /\ e[3] = T
    BY DEF D, CutEntries
  <2> HIDE DEF e
  <2>2. c[e] = CutsBody(S, e[1], e[2], e[3], c)
    BY <1>12, <2>1
  <2> QED BY <2>1, <2>2 DEF e
<1> QED BY <1>9, <1>13 DEF CutsStep

LinkedCuts(S) == {p \in SplitsOf(S) : Linked(p[1]) /\ Linked(p[2])}

(* Every component of what is left of S without C is next to T. *)
Meets(S, C, T) == \A K : Closed(K, S \ C) /\ K # {} => K \cap Neighbors(T) # {}
Growth(S, C, T) == Linked(C) /\ Meets(S, C, T)

LEMMA RestLinked ==
  ASSUME NEW S \in SUBSET Relations, NEW C \in SUBSET S, NEW T,
         Meets(S, C, T), RestConnected(S, C, T)
  PROVE  Linked(S \ C)
<1> DEFINE B == S \ C
           near == Neighbors(T) \cap B
<1>1. near \in SUBSET Relations /\ IsFiniteSet(near) /\ B \in SUBSET Relations
  <2>1. near \in SUBSET Relations
    OBVIOUS
  <2> QED BY <2>1, NFacts, FS_Subset
<1> SUFFICES ASSUME NEW L \in (SUBSET B) \ {{}, B}, ~Joined(L, B \ L) PROVE FALSE
  BY DEF Linked
<1>2. Closed(L, B) /\ Closed(B \ L, B) /\ B \ L # {}
  <2>1. Closed(L, B)
    BY DEF Closed
  <2> QED BY <1>1, <2>1, ClosedComplement
<1>3. L \cap near # {} /\ (B \ L) \cap near # {}
  BY <1>2 DEF Meets
<1>4. near \subseteq Reach({Min(near)}, B)
  <2>1. PICK x \in L \cap near, y \in (B \ L) \cap near : TRUE
    BY <1>3
  <2>2. ~(Cardinality(near) <= 1)
    <3>1. x \in near /\ y \in near \ {x}
      BY <2>1
    <3> HIDE DEF near
    <3>2. Cardinality(near \ {x}) = Cardinality(near) - 1 /\ IsFiniteSet(near \ {x}) /\ Cardinality(near) \in Nat
      BY <1>1, <3>1, FS_RemoveElement, FS_CardinalityType
    <3>3. Cardinality(near \ {x}) \in Nat /\ Cardinality(near \ {x}) # 0
      BY <3>1, <3>2, FS_EmptySet, FS_CardinalityType
    <3> QED BY <3>2, <3>3
  <2> QED BY <2>2 DEF RestConnected
<1>5. Min(near) \in near
  BY <1>1, <1>3, MinFacts
<1>6. ASSUME NEW K, Closed(K, B), Min(near) \in K PROVE near \subseteq K
  <2>1. {Min(near)} \cap B \subseteq K
    BY <1>6
  <2> HIDE DEF near, B
  <2>2. Reach({Min(near)}, B) \subseteq K
    BY <1>1, <1>6, <2>1, ReachStays
  <2> QED BY <1>4, <2>2
<1>7. CASE Min(near) \in L
  <2>1. near \subseteq L
    BY <1>2, <1>6, <1>7
  <2> QED BY <2>1, <1>3
<1>8. CASE Min(near) \notin L
  <2>1. near \subseteq B \ L
    BY <1>2, <1>5, <1>6, <1>8
  <2> QED BY <2>1, <1>3
<1> QED BY <1>7, <1>8

LEMMA GrowthGoesOn ==
  ASSUME NEW S \in Subproblems, Linked(S), NEW C \in SUBSET S, C # {}, NEW T, Growth(S, C, T),
         NEW v \in Neighbors(C) \cap S, v \notin C
  PROVE  Growth(S, C \cup {v}, NextT(S, C, T) \cup {v})
<1> DEFINE D == C \cup {v}
           T1 == NextT(S, C, T)
           B == S \ D
<1>0. S \in SUBSET Relations /\ C \in Subproblems /\ v \in Relations /\ D \in SUBSET S
  BY DEF Subproblems
<1>1. Linked(D)
  <2>1. Joined(C, {v}) /\ C \cap {v} = {}
    BY DEF Joined
  <2>2. Linked({v}) /\ {v} \in Subproblems
    BY <1>0, SingletonLinked
  <2> QED BY <1>0, <2>1, <2>2, UnionLinked DEF Growth
<1>2. ASSUME NEW K, Closed(K, B), K # {} PROVE K \cap Neighbors(T1 \cup {v}) # {}
  <2>0. K \in SUBSET Relations /\ K \in SUBSET B /\ ~Joined(K, B \ K)
    BY <1>0, <1>2 DEF Closed
  <2>1. \A u \in K, w \in B \ K : {u, w} \notin graph
    BY <1>0, <2>0 DEF Joined, Neighbors
  <2>2. CASE RestConnected(S, C, T)
    <3>1. Linked(S \ C)
      BY <1>0, <2>2, RestLinked DEF Growth
    <3>2. K \in (SUBSET (S \ C)) \ {{}, S \ C}
      BY <1>2, <2>0
    <3>3. Joined(K, (S \ C) \ K)
      BY <3>1, <3>2 DEF Linked
    <3>4. PICK u \in K, w \in (S \ C) \ K : {u, w} \in graph
      BY <3>3, <2>0 DEF Joined, Neighbors
    <3>5. w = v
      BY <2>1, <3>4
    <3>6. u \in Neighbors(T1 \cup {v})
      <4>1. {v, u} \in graph /\ u # v /\ u \in Relations
        BY <2>0, <3>4, <3>5
      <4>2. T1 = {}
        BY <2>2 DEF NextT
      <4> QED BY <4>1, <4>2 DEF Neighbors
    <3> QED BY <3>6
  <2>3. CASE ~RestConnected(S, C, T)
    <3>1. K \in (SUBSET S) \ {{}, S}
      BY <1>0, <1>2, <2>0
    <3>2. Joined(K, S \ K)
      BY <3>1 DEF Linked
    <3>3. PICK u \in K, w \in S \ K : {u, w} \in graph
      BY <3>2, <2>0 DEF Joined, Neighbors
    <3>4. w \in D
      BY <2>1, <3>3
    <3>5. T1 = C
      BY <2>3 DEF NextT
    <3>6. u \in Neighbors(D)
      <4>1. {w, u} \in graph /\ u \in Relations \ D
        BY <2>0, <3>3
      <4> QED BY <4>1, <3>4 DEF Neighbors
    <3> QED BY <3>5, <3>6
  <2> QED BY <2>2, <2>3
<1> HIDE DEF D, T1
<1>3. Meets(S, D, T1 \cup {v})
  BY <1>2 DEF Meets
<1> QED BY <1>1, <1>3 DEF Growth, D, T1

(* The worklist entry (C, X, T) leads to cuts, to one if X is empty, and to *)
(* none with a side in parts if C and the rest have none so far.           *)
CutGood(S, f, C, X, T) ==
  C # {} /\ C # S =>
    /\ f[<<C, X, T>>] \in Seq(SplitsOf(S))
    /\ X = {} /\ T \subseteq C => Len(f[<<C, X, T>>]) # 0
    /\ Linked(S) /\ Growth(S, C, T) => f[<<C, X, T>>] \in Seq(LinkedCuts(S))
GoodEntries(S, f) == {e \in CutEntries(S) : CutGood(S, f, e[1], e[2], e[3])}

LEMMA CutStepGood ==
  ASSUME NEW S \in Subproblems, NEW f, CutsStep(S, f),
         NEW C \in SUBSET S, C # {}, C # S, NEW X \in SUBSET S, NEW T \in SUBSET S,
         \A i \in 1..Len(CutVertices(S, C, X)) : NextEntry(S, C, X, T, i) \in GoodEntries(S, f)
  PROVE  CutGood(S, f, C, X, T)
<1> DEFINE n == Len(CutVertices(S, C, X))
           v(i) == CutVertices(S, C, X)[i]
           e(i) == NextEntry(S, C, X, T, i)
           T1 == NextT(S, C, T)
<1>0. S \in SUBSET Relations
  BY DEF Subproblems
<1>1. ASSUME NEW i \in 1..n PROVE GrowsByOne(S, C, X, T, i)
  BY <1>0, NextEntryFacts
<1>2. IsFiniteSet(S) /\ Cardinality(S) \in Nat /\ Cardinality(C) \in Nat
  BY <1>0, NFacts, FS_Subset, FS_CardinalityType
<1>3. ASSUME NEW i \in 1..n, Cardinality(C) + 1 < Cardinality(S)
      PROVE  /\ C \cup {v(i)} # {} /\ C \cup {v(i)} # S
             /\ e(i) = <<C \cup {v(i)}, e(i)[2], T1 \cup {v(i)}>>
             /\ CutGood(S, f, C \cup {v(i)}, e(i)[2], T1 \cup {v(i)})
  <2>1. Cardinality(C \cup {v(i)}) = Cardinality(C) + 1
        /\ e(i) = <<C \cup {v(i)}, e(i)[2], T1 \cup {v(i)}>>
    BY <1>1, Zenon DEF GrowsByOne
  <2>2. CutGood(S, f, e(i)[1], e(i)[2], e(i)[3])
    BY DEF GoodEntries
  <2>3. e(i)[1] = C \cup {v(i)} /\ e(i)[3] = T1 \cup {v(i)}
    <3> HIDE DEF e
    <3> QED BY <2>1
  <2>4. C \cup {v(i)} # S
    <3>1. CASE C \cup {v(i)} = S
      <4>1. Cardinality(S) = Cardinality(C) + 1
        BY <2>1, <3>1
      <4> QED BY <4>1, <1>2, <1>3
    <3> QED BY <3>1
  <2> HIDE DEF e, v, T1
  <2> QED BY <2>1, <2>2, <2>3, <2>4
<1>4. f[<<C, X, T>>] = CutsBody(S, C, X, T, f)
  BY DEF CutsStep
<1>5. <<C, S \ C>> \in SplitsOf(S)
  BY <1>0 DEF SplitsOf, Splits, Subproblems
<1>6. f[<<C, X, T>>] \in Seq(SplitsOf(S))
  <2>1. \A i \in 1..n : Cardinality(C) + 1 < Cardinality(S) => f[e(i)] \in Seq(SplitsOf(S))
    <3> SUFFICES ASSUME NEW i \in 1..n, Cardinality(C) + 1 < Cardinality(S)
                 PROVE  f[e(i)] \in Seq(SplitsOf(S))
      OBVIOUS
    <3> HIDE DEF e, v, T1, n
    <3> QED BY <1>3, Zenon DEF CutGood
  <2>2. CutsBody(S, C, X, T, f) \in Seq(SplitsOf(S))
    BY <1>0, <1>5, <2>1, CutsBodyTyped, Zenon
  <2> QED BY <1>4, <2>2, Zenon
<1>7. ASSUME Linked(S), Growth(S, C, T) PROVE f[<<C, X, T>>] \in Seq(LinkedCuts(S))
  <2>0. S \in SUBSET Relations /\ C \in Subproblems
    BY <1>0 DEF Subproblems
  <2>1. \A i \in 1..n : Cardinality(C) + 1 < Cardinality(S) => f[e(i)] \in Seq(LinkedCuts(S))
    <3> SUFFICES ASSUME NEW i \in 1..n, Cardinality(C) + 1 < Cardinality(S)
                 PROVE  f[e(i)] \in Seq(LinkedCuts(S))
      OBVIOUS
    <3>1. v(i) \in Neighbors(C) \cap S /\ v(i) \notin C
      BY <1>1 DEF GrowsByOne
    <3> HIDE DEF e, v, n
    <3>2. Growth(S, C \cup {v(i)}, T1 \cup {v(i)})
      BY <1>7, <3>1, GrowthGoesOn
    <3> HIDE DEF T1
    <3> QED BY <1>3, <1>7, <3>2, Zenon DEF CutGood
  <2>2. CASE RestConnected(S, C, T)
    <3>1. Linked(S \ C)
      BY <1>0, <1>7, <2>2, RestLinked DEF Growth
    <3>2. <<C, S \ C>> \in LinkedCuts(S)
      BY <1>5, <1>7, <3>1 DEF LinkedCuts, Growth
    <3>3. CutsBody(S, C, X, T, f) \in Seq(LinkedCuts(S))
      BY <1>0, <2>1, <3>2, CutsBodyTyped, Zenon
    <3> QED BY <1>4, <3>3, Zenon
  <2>3. CASE ~RestConnected(S, C, T)
    <3>1. CutsBody(S, C, X, T, f) =
            <<>> \o (IF Cardinality(C) + 1 >= Cardinality(S) THEN <<>>
                     ELSE Flatten([i \in 1..n |-> f[e(i)]]))
      BY <2>3 DEF CutsBody
    <3>2. CASE Cardinality(C) + 1 < Cardinality(S)
      <4>1. n \in Nat
        BY <1>0, CutVerticesFacts
      <4> HIDE DEF n, e
      <4>2. [i \in 1..n |-> f[e(i)]] \in Seq(Seq(LinkedCuts(S)))
        BY <2>1, <3>2, <4>1, IsASeq
      <4>3. Flatten([i \in 1..n |-> f[e(i)]]) \in Seq(LinkedCuts(S))
        BY <4>2, FlattenTyped
      <4>4. CutsBody(S, C, X, T, f) = <<>> \o Flatten([i \in 1..n |-> f[e(i)]])
        BY <1>2, <3>1, <3>2
      <4>5. <<>> \in Seq(LinkedCuts(S))
        OBVIOUS
      <4> QED BY <1>4, <4>3, <4>4, <4>5, ConcatProperties
    <3>3. CASE ~(Cardinality(C) + 1 < Cardinality(S))
      <4>1. CutsBody(S, C, X, T, f) = <<>> \o <<>>
        BY <1>2, <3>1, <3>3
      <4> QED BY <1>4, <4>1
    <3> QED BY <3>2, <3>3
  <2> QED BY <2>2, <2>3
<1>8. ASSUME X = {}, T \subseteq C PROVE Len(f[<<C, X, T>>]) # 0
  <2> DEFINE a == IF RestConnected(S, C, T) THEN <<<<C, S \ C>>>> ELSE <<>>
             more == [i \in 1..n |-> f[e(i)]]
             b == IF Cardinality(C) + 1 >= Cardinality(S) THEN <<>> ELSE Flatten(more)
  <2>1. f[<<C, X, T>>] = a \o b
    BY <1>4 DEF CutsBody
  <2>2. n \in Nat /\ CutVertices(S, C, X) \in Seq(Growable(S, C, X))
        /\ ToSet(CutVertices(S, C, X)) = Growable(S, C, X)
    BY <1>0, CutVerticesFacts
  <2>3. Cardinality(C) + 1 < Cardinality(S) => more \in Seq(Seq(SplitsOf(S)))
    <3> HIDE DEF e, n, v, T1
    <3>1. \A i \in 1..n : Cardinality(C) + 1 < Cardinality(S) => f[e(i)] \in Seq(SplitsOf(S))
      BY <1>3, Zenon DEF CutGood
    <3> QED BY <3>1, <2>2, IsASeq
  <2>4. a \in Seq(SplitsOf(S))
    BY <1>5
  <2>5. b \in Seq(SplitsOf(S))
    <3>1. CASE Cardinality(C) + 1 < Cardinality(S)
      <4> HIDE DEF more
      <4>1. Flatten(more) \in Seq(SplitsOf(S))
        BY <2>3, <3>1, FlattenTyped
      <4> QED BY <4>1, <3>1, <1>2
    <3> QED BY <3>1, <1>2
  <2>6. Len(f[<<C, X, T>>]) = Len(a) + Len(b) /\ Len(a) \in Nat /\ Len(b) \in Nat
    <3> HIDE DEF a, b
    <3> QED BY <2>1, <2>4, <2>5, ConcatProperties
  <2>7. CASE RestConnected(S, C, T)
    <3>1. Len(a) = 1
      BY <2>7
    <3> HIDE DEF a, b
    <3> QED BY <3>1, <2>6
  <2>8. CASE ~RestConnected(S, C, T)
    <3> DEFINE near == Neighbors(T) \cap (S \ C)
    <3>1. IsFiniteSet(near) /\ Cardinality(near) \in Nat /\ ~(Cardinality(near) <= 1)
      BY <2>8, <1>0, NFacts, FS_Subset, FS_CardinalityType DEF RestConnected
    <3>2. near # {}
      <4>1. CASE near = {}
        BY <4>1, <3>1, FS_EmptySet
      <4> QED BY <4>1
    <3>3. Cardinality(C) + 1 < Cardinality(S)
      <4>1. Cardinality(near) <= Cardinality(S \ C) /\ Cardinality(S \ C) \in Nat
        BY <1>2, FS_Difference, FS_Subset, FS_CardinalityType
      <4>2. Cardinality(S \ C) = Cardinality(S) - Cardinality(C)
        <5>1. Cardinality(S \ C) = Cardinality(S) - Cardinality(S \cap C) /\ S \cap C = C
          BY <1>2, FS_Difference
        <5> QED BY <5>1
      <4> HIDE DEF near
      <4> QED BY <4>1, <4>2, <3>1, <1>2
    <3>4. Growable(S, C, X) # {} /\ Growable(S, C, X) \in SUBSET Relations
      <4>1. near \subseteq Growable(S, C, X)
        BY <1>8 DEF Growable, Neighbors
      <4>2. Growable(S, C, X) \in SUBSET Relations
        BY <1>0 DEF Growable
      <4> QED BY <4>1, <4>2, <3>2
    <3>5. PICK i \in 1..n : v(i) = Min(Growable(S, C, X))
      <4>1. Min(Growable(S, C, X)) \in ToSet(CutVertices(S, C, X))
        BY <2>2, <3>4, MinFacts
      <4> QED BY <4>1, <2>2 DEF ToSet
    <3>6. {u \in ToSet(CutVertices(S, C, X)) : u < v(i)} = {}
      <4>1. \A u \in Growable(S, C, X) : v(i) <= u
        BY <3>4, <3>5, MinFacts
      <4>2. \A u \in Growable(S, C, X) : u \in Int /\ v(i) \in Int
        BY <3>4, <3>5, NFacts, MinFacts
      <4> HIDE DEF v
      <4> QED BY <4>1, <4>2, <2>2
    <3>7. e(i)[2] = {}
      BY <3>6, <1>8 DEF NextEntry
    <3>8. T1 \cup {v(i)} \subseteq C \cup {v(i)}
      BY DEF NextT
    <3> HIDE DEF e, v, T1, n
    <3>9. Len(f[e(i)]) # 0 /\ f[e(i)] \in Seq(SplitsOf(S))
      <4>1. CutGood(S, f, C \cup {v(i)}, e(i)[2], T1 \cup {v(i)})
            /\ C \cup {v(i)} # {} /\ C \cup {v(i)} # S
            /\ e(i) = <<C \cup {v(i)}, e(i)[2], T1 \cup {v(i)}>>
        BY <1>3, <3>3
      <4> QED BY <4>1, <3>7, <3>8, Zenon DEF CutGood
    <3>10. PICK p : p \in ToSet(f[e(i)])
      <4>1. 1 \in DOMAIN f[e(i)]
        BY <3>9
      <4> QED BY <4>1 DEF ToSet
    <3>11. Len(more) = n /\ more[i] = f[e(i)]
      BY <2>2
    <3> HIDE DEF more
    <3>12. p \in ToSet(Flatten(more))
      BY <2>3, <3>3, <3>10, <3>11, FlattenElements
    <3>13. b = Flatten(more)
      BY <3>3, <1>2
    <3> HIDE DEF b
    <3>14. Len(b) # 0
      BY <3>12, <3>13, <2>5 DEF ToSet
    <3> QED BY <3>14, <2>6
  <2> QED BY <2>7, <2>8
<1> QED BY <1>6, <1>7, <1>8 DEF CutGood

LEMMA MinCutsFacts ==
  ASSUME NEW S \in Subproblems, ~Singleton(S)
  PROVE  /\ MinCuts(S) \in Seq(SplitsOf(S))
         /\ Len(MinCuts(S)) # 0
         /\ Linked(S) => MinCuts(S) \in Seq(LinkedCuts(S))
<1>0. S \in SUBSET Relations /\ S # {} /\ IsFiniteSet(S)
  BY NFacts, FS_Subset DEF Subproblems
<1>1. PICK f : CutsStep(S, f) /\ MinCuts(S) = f[<<{Min(S)}, {}, {Min(S)}>>]
  BY <1>0, CutsEquation
<1> DEFINE D == CutEntries(S)
           rank == [e \in D |-> Cardinality(S) - Cardinality(e[1])]
<1>2. \A C \in SUBSET S : Cardinality(C) \in Nat /\ Cardinality(C) <= Cardinality(S)
  BY <1>0, FS_Subset, FS_CardinalityType
<1>3. \A e \in D : e[1] \in SUBSET S /\ e[2] \in SUBSET S /\ e[3] \in SUBSET S /\ e = <<e[1], e[2], e[3]>>
  BY DEF CutEntries
<1>4. rank \in [D -> Nat]
  <2>1. \A e \in D : Cardinality(S) - Cardinality(e[1]) \in Nat
    <3>1. Cardinality(S) \in Nat
      BY <1>0, FS_CardinalityType
    <3> QED BY <1>2, <1>3, <3>1
  <2> QED BY <2>1
<1>5. ASSUME NEW e \in D, \A d \in D : rank[d] < rank[e] => d \in GoodEntries(S, f)
      PROVE  e \in GoodEntries(S, f)
  <2> DEFINE C == e[1]
             X == e[2]
             T == e[3]
  <2>1. C \in SUBSET S /\ X \in SUBSET S /\ T \in SUBSET S
    BY <1>3
  <2>2. ASSUME NEW i \in 1..Len(CutVertices(S, C, X))
        PROVE  NextEntry(S, C, X, T, i) \in GoodEntries(S, f)
    <3> DEFINE d == NextEntry(S, C, X, T, i)
               v == CutVertices(S, C, X)[i]
    <3>1. GrowsByOne(S, C, X, T, i)
      BY <1>0, <2>1, NextEntryFacts
    <3>2. d \in D /\ d = <<C \cup {v}, d[2], NextT(S, C, T) \cup {v}>>
          /\ Cardinality(C \cup {v}) = Cardinality(C) + 1
      BY <3>1, Zenon DEF GrowsByOne
    <3> HIDE DEF d, v
    <3>3. rank[d] = Cardinality(S) - (Cardinality(C) + 1)
      <4>1. d[1] = C \cup {v}
        BY <3>2
      <4> HIDE DEF D
      <4>2. rank[d] = Cardinality(S) - Cardinality(d[1])
        BY <3>2
      <4> QED BY <4>1, <4>2, <3>2
    <3>4. rank[e] = Cardinality(S) - Cardinality(C)
      OBVIOUS
    <3> HIDE DEF D, rank
    <3>5. rank[d] < rank[e]
      <4>1. Cardinality(S) \in Nat /\ Cardinality(C) \in Nat
        BY <1>0, <1>2, <2>1, FS_CardinalityType
      <4> QED BY <4>1, <3>3, <3>4
    <3> QED BY <3>2, <3>5, <1>5 DEF d
  <2>3. CASE C # {} /\ C # S
    <3> HIDE DEF C, X, T
    <3>1. CutGood(S, f, C, X, T)
      BY <1>1, <2>1, <2>2, <2>3, CutStepGood
    <3> QED BY <3>1 DEF C, X, T, GoodEntries
  <2>4. CASE ~(C # {} /\ C # S)
    BY <2>4 DEF GoodEntries, CutGood
  <2> QED BY <2>3, <2>4
<1> DEFINE m == Min(S)
           start == <<{m}, {}, {m}>>
<1>6. m \in S
  BY <1>0, MinFacts
<1>7. start \in D
  BY <1>6 DEF CutEntries
<1>8. start \in GoodEntries(S, f)
  <2> HIDE DEF D, rank, start
  <2>1. Hereditary(D, rank, GoodEntries(S, f))
    BY <1>5 DEF Hereditary
  <2> QED BY <1>4, <1>7, <2>1, RankInduction
<1>9. CutGood(S, f, {m}, {}, {m})
  BY <1>8 DEF GoodEntries
<1>10. {m} # {} /\ {m} # S
  BY <1>0, <1>6 DEF Singleton
<1>11. Linked(S) => Growth(S, {m}, {m})
  <2>1. Linked({m})
    BY <1>0, <1>6, SingletonLinked
  <2>2. ASSUME Linked(S), NEW K, Closed(K, S \ {m}), K # {} PROVE K \cap Neighbors({m}) # {}
    <3>1. K \in (SUBSET S) \ {{}, S} /\ K \in SUBSET (S \ {m}) /\ K \in SUBSET Relations
      BY <1>0, <1>6, <2>2 DEF Closed
    <3>2. Joined(K, S \ K) /\ ~Joined(K, (S \ {m}) \ K)
      BY <2>2, <3>1 DEF Linked, Closed
    <3>3. PICK w \in S \ K : w \in Neighbors(K)
      BY <3>2 DEF Joined
    <3>4. w = m
      BY <3>2, <3>3 DEF Joined
    <3>5. PICK u \in K : {u, m} \in graph
      BY <3>3, <3>4 DEF Neighbors
    <3>6. {m, u} = {u, m} /\ u \in Relations /\ u # m
      BY <3>1
    <3>7. u \in Neighbors({m})
      BY <3>5, <3>6 DEF Neighbors
    <3> QED BY <3>7
  <2> HIDE DEF m
  <2> QED BY <2>1, <2>2 DEF Growth, Meets
<1> HIDE DEF m
<1>12. MinCuts(S) = f[<<{m}, {}, {m}>>]
  BY <1>1 DEF m
<1> QED BY <1>9, <1>10, <1>11, <1>12, Zenon DEF CutGood

-----------------------------------------------------------------------------
(* GOO: its nodes are disjoint subproblems that cover the query. *)

CardOK == card \in [Subproblems -> Nat]

Nodes(nodes) ==
  /\ nodes \in Seq(Subproblems)
  /\ \A i, j \in 1..Len(nodes) : i # j => nodes[i] \cap nodes[j] = {}
  /\ \A r \in Relations : \E i \in 1..Len(nodes) : r \in nodes[i]

NodePairs(nodes) ==
  Flatten([i \in 1..Len(nodes) |-> [j \in 1..(Len(nodes) - i) |-> <<nodes[i], nodes[i + j]>>]])

LEMMA NodePairsFacts ==
  ASSUME NEW nodes \in Seq(Subproblems)
  PROVE  /\ NodePairs(nodes) \in Seq(Subproblems \X Subproblems)
         /\ \A p \in ToSet(NodePairs(nodes)) :
              \E a, b \in 1..Len(nodes) : a < b /\ p = <<nodes[a], nodes[b]>>
         /\ \A a, b \in 1..Len(nodes) : a < b => <<nodes[a], nodes[b]>> \in ToSet(NodePairs(nodes))
<1> DEFINE k == Len(nodes)
           row(i) == [j \in 1..(k - i) |-> <<nodes[i], nodes[i + j]>>]
           rows == [i \in 1..k |-> row(i)]
           T == Subproblems \X Subproblems
<1>0. k \in Nat
  OBVIOUS
<1>1. ASSUME NEW i \in 1..k PROVE row(i) \in Seq(T) /\ Len(row(i)) = k - i /\ DOMAIN row(i) = 1..(k - i)
  <2>1. k - i \in Nat
    BY <1>0
  <2>2. \A j \in 1..(k - i) : i + j \in 1..k
    BY <1>0
  <2>3. \A j \in 1..(k - i) : <<nodes[i], nodes[i + j]>> \in T
    BY <2>2
  <2> HIDE DEF k, T
  <2> QED BY <2>1, <2>3, IsASeq
<1>2. rows \in Seq(Seq(T)) /\ Len(rows) = k /\ \A i \in 1..k : rows[i] = row(i)
  <2> HIDE DEF row, k, T
  <2> QED BY <1>0, <1>1, IsASeq
<1>3. NodePairs(nodes) = Flatten(rows)
  BY DEF NodePairs
<1>4. ToSet(NodePairs(nodes)) = UNION {ToSet(row(i)) : i \in 1..k}
  <2> HIDE DEF rows, row, k, T
  <2>1. ToSet(Flatten(rows)) = UNION {ToSet(rows[i]) : i \in 1..Len(rows)}
    BY <1>2, FlattenElements
  <2> QED BY <1>2, <1>3, <2>1
<1>5. NodePairs(nodes) \in Seq(T)
  <2> HIDE DEF rows, T
  <2> QED BY <1>2, <1>3, FlattenTyped
<1>6. ASSUME NEW p \in ToSet(NodePairs(nodes))
      PROVE  \E a, b \in 1..k : a < b /\ p = <<nodes[a], nodes[b]>>
  <2>1. PICK i \in 1..k : p \in ToSet(row(i))
    BY <1>4
  <2>2. PICK j \in 1..(k - i) : p = <<nodes[i], nodes[i + j]>>
    <3>1. PICK j \in DOMAIN row(i) : p = row(i)[j]
      BY <2>1 DEF ToSet
    <3>2. j \in 1..(k - i)
      BY <1>1, <3>1
    <3> QED BY <3>1, <3>2
  <2>3. i + j \in 1..k /\ i < i + j
    BY <1>0
  <2> QED BY <2>2, <2>3
<1>7. ASSUME NEW a \in 1..k, NEW b \in 1..k, a < b
      PROVE  <<nodes[a], nodes[b]>> \in ToSet(NodePairs(nodes))
  <2>1. b - a \in 1..(k - a) /\ a + (b - a) = b
    BY <1>0, <1>7
  <2>2. row(a)[b - a] = <<nodes[a], nodes[b]>>
    BY <2>1
  <2>3. <<nodes[a], nodes[b]>> \in ToSet(row(a))
    <3>1. DOMAIN row(a) = 1..(k - a)
      BY <1>1
    <3> HIDE DEF row
    <3> QED BY <2>1, <2>2, <3>1 DEF ToSet
  <2> QED BY <1>4, <2>3
<1> QED BY <1>5, <1>6, <1>7

LEMMA BestPairFacts ==
  ASSUME GraphOK, CardOK, NEW nodes, Nodes(nodes), Len(nodes) > 1
  PROVE  /\ BestPair(nodes) \in JoinedSplits
         /\ \E a, b \in 1..Len(nodes) : a < b /\ BestPair(nodes) = <<nodes[a], nodes[b]>>
<1> DEFINE k == Len(nodes)
           may == Disjoint(NodePairs(nodes))
           v == [i \in 1..Len(may) |-> card[may[i][1] \cup may[i][2]]]
<1>0. nodes \in Seq(Subproblems) /\ k \in Nat /\ 1 \in 1..k
  BY DEF Nodes
<1>1. NodePairs(nodes) \in Seq(Subproblems \X Subproblems)
  BY <1>0, NodePairsFacts
<1>2. may \in Seq(JoinedSplits) /\ ToSet(may) \subseteq ToSet(NodePairs(nodes))
      /\ \A p \in ToSet(NodePairs(nodes)) : p \in JoinedSplits => p \in ToSet(may)
  BY <1>1, DisjointFacts
<1>3. \E b \in 1..k : 1 < b /\ Joined(nodes[1], nodes[b])
  <2>1. nodes[1] \in Subproblems /\ nodes[1] # {}
    BY <1>0 DEF Subproblems
  <2>2. nodes[1] # Relations
    <3>1. 2 \in 1..k
      BY <1>0
    <3>2. nodes[2] # {} /\ nodes[2] \subseteq Relations /\ nodes[1] \cap nodes[2] = {}
      BY <1>0, <3>1 DEF Nodes, Subproblems
    <3> QED BY <3>2
  <2>3. Joined(nodes[1], Relations \ nodes[1])
    BY <2>1, <2>2, EdgeFacts
  <2>4. PICK r \in Relations \ nodes[1] : r \in Neighbors(nodes[1])
    BY <2>3 DEF Joined
  <2>5. PICK b \in 1..k : r \in nodes[b]
    BY <2>4 DEF Nodes
  <2>6. b # 1
    BY <2>4, <2>5
  <2> QED BY <1>0, <2>4, <2>5, <2>6 DEF Joined
<1>4. Len(may) # 0 /\ Len(may) \in Nat
  <2>1. PICK b \in 1..k : 1 < b /\ Joined(nodes[1], nodes[b])
    BY <1>3
  <2>2. <<nodes[1], nodes[b]>> \in JoinedSplits
    <3>1. nodes[1] \cap nodes[b] = {} /\ nodes[1] \in Subproblems /\ nodes[b] \in Subproblems
      BY <1>0, <2>1 DEF Nodes
    <3> QED BY <2>1, <3>1, SplitsTyped
  <2>3. <<nodes[1], nodes[b]>> \in ToSet(NodePairs(nodes))
    BY <1>0, <2>1, NodePairsFacts
  <2>4. <<nodes[1], nodes[b]>> \in ToSet(may)
    BY <1>2, <2>2, <2>3
  <2> HIDE DEF may
  <2> QED BY <1>2, <2>4 DEF ToSet
<1> HIDE DEF may
<1>5. v \in Seq(Nat) /\ Len(v) = Len(may)
  <2>1. ASSUME NEW i \in 1..Len(may) PROVE card[may[i][1] \cup may[i][2]] \in Nat
    <3>1. may[i] \in JoinedSplits
      BY <1>2
    <3>2. may[i][1] \cup may[i][2] \in Subproblems
      BY <3>1 DEF JoinedSplits, Splits, Subproblems
    <3> QED BY <3>2 DEF CardOK
  <2> QED BY <1>4, <2>1, IsASeq
<1>6. FirstLeast(v) \in 1..Len(may)
  <2> HIDE DEF v
  <2> QED BY <1>4, <1>5, FirstLeastFacts
<1>7. BestPair(nodes) = may[FirstLeast(v)]
  BY Zenon DEF BestPair, may, NodePairs
<1> HIDE DEF v
<1>8. BestPair(nodes) \in JoinedSplits /\ BestPair(nodes) \in ToSet(NodePairs(nodes))
  <2>1. may[FirstLeast(v)] \in JoinedSplits
    BY <1>2, <1>6
  <2>2. may[FirstLeast(v)] \in ToSet(may)
    BY <1>2, <1>6 DEF ToSet
  <2> QED BY <1>2, <1>7, <2>1, <2>2
<1> QED BY <1>0, <1>8, NodePairsFacts

LEMMA MergedFacts ==
  ASSUME GraphOK, CardOK, NEW nodes, Nodes(nodes), Len(nodes) > 1
  PROVE  /\ Nodes(Merged(nodes)) /\ Len(Merged(nodes)) = Len(nodes) - 1
         /\ LET best == BestPair(nodes) IN
            ToSet(Merged(nodes)) = (ToSet(nodes) \ {best[1], best[2]}) \cup {best[1] \cup best[2]}
<1> DEFINE k == Len(nodes)
           m == Merged(nodes)
           best == BestPair(nodes)
<1>0. nodes \in Seq(Subproblems) /\ k \in Nat /\ k - 1 \in Nat /\ k \in 1..k
  BY DEF Nodes
<1>1. PICK a \in 1..k, b \in 1..k : a < b /\ best = <<nodes[a], nodes[b]>>
  BY BestPairFacts
<1>2. \A i, j \in 1..k : i # j => nodes[i] # nodes[j] /\ nodes[i] \cap nodes[j] = {}
  <2>1. \A i \in 1..k : nodes[i] # {}
    BY <1>0 DEF Subproblems
  <2> QED BY <2>1 DEF Nodes
<1>3. a \in 1..(k - 1) /\ a # b
  BY <1>0, <1>1
<1>4. m = [i \in 1..(k - 1) |->
            CASE nodes[i] = best[1] -> best[1] \cup best[2]
              [] nodes[i] = best[2] -> nodes[k]
              [] OTHER -> nodes[i]]
  BY DEF Merged
<1> HIDE DEF m, best
<1>5. ASSUME NEW i \in 1..(k - 1)
      PROVE  m[i] = IF i = a THEN nodes[a] \cup nodes[b] ELSE IF i = b THEN nodes[k] ELSE nodes[i]
  <2>1. i \in 1..k /\ best[1] = nodes[a] /\ best[2] = nodes[b]
    BY <1>0, <1>1
  <2>2. (nodes[i] = best[1] <=> i = a) /\ (nodes[i] = best[2] <=> i = b)
    BY <1>2, <2>1
  <2>3. m[i] = CASE nodes[i] = best[1] -> best[1] \cup best[2]
                 [] nodes[i] = best[2] -> nodes[k]
                 [] OTHER -> nodes[i]
    BY <1>4
  <2>4. CASE i = a
    <3>1. nodes[i] = best[1] /\ nodes[i] # best[2]
      BY <1>3, <2>2, <2>4
    <3> QED BY <2>1, <2>3, <2>4, <3>1
  <2>5. CASE i # a /\ i = b
    <3>1. nodes[i] # best[1] /\ nodes[i] = best[2]
      BY <2>2, <2>5
    <3> QED BY <2>3, <2>5, <3>1
  <2>6. CASE i # a /\ i # b
    <3>1. nodes[i] # best[1] /\ nodes[i] # best[2]
      BY <2>2, <2>6
    <3> QED BY <2>3, <2>6, <3>1
  <2> QED BY <2>4, <2>5, <2>6
<1>6. \A i \in 1..k : nodes[i] \in Subproblems
  BY <1>0
<1>7. ASSUME NEW i \in 1..(k - 1) PROVE m[i] \in Subproblems
  <2>1. i \in 1..k
    BY <1>0
  <2>2. nodes[a] \cup nodes[b] \in Subproblems
    BY <1>6 DEF Subproblems
  <2> QED BY <1>0, <1>5, <1>6, <2>1, <2>2
<1>8. m \in Seq(Subproblems) /\ Len(m) = k - 1
  <2>1. m = [i \in 1..(k - 1) |-> m[i]]
    BY <1>4
  <2>2. [i \in 1..(k - 1) |-> m[i]] \in Seq(Subproblems)
    BY <1>0, <1>7, IsASeq
  <2>3. Len([i \in 1..(k - 1) |-> m[i]]) = k - 1
    BY <1>0
  <2> QED BY <2>1, <2>2, <2>3
<1>9. ASSUME NEW i \in 1..(k - 1), NEW j \in 1..(k - 1), i # j PROVE m[i] \cap m[j] = {}
  <2>0. i \in 1..k /\ j \in 1..k /\ i # k /\ j # k
    BY <1>0
  <2>1. m[i] = (IF i = a THEN nodes[a] \cup nodes[b] ELSE IF i = b THEN nodes[k] ELSE nodes[i])
        /\ m[j] = (IF j = a THEN nodes[a] \cup nodes[b] ELSE IF j = b THEN nodes[k] ELSE nodes[j])
    BY <1>5
  <2>2. CASE i = a
    <3>1. j # a
      BY <1>9, <2>2
    <3>2. CASE j = b
      <4>1. b # k /\ a # k
        BY <2>0, <2>2, <3>2
      <4>2. nodes[a] \cap nodes[k] = {} /\ nodes[b] \cap nodes[k] = {}
        BY <1>0, <1>2, <4>1
      <4> QED BY <2>1, <2>2, <3>1, <3>2, <4>2
    <3>3. CASE j # b
      <4>1. nodes[a] \cap nodes[j] = {} /\ nodes[b] \cap nodes[j] = {}
        BY <1>2, <2>0, <3>1, <3>3
      <4> QED BY <2>1, <2>2, <3>1, <3>3, <4>1
    <3> QED BY <3>2, <3>3
  <2>3. CASE i # a /\ j = a
    <3>2. CASE i = b
      <4>1. b # k /\ a # k
        BY <2>0, <2>3, <3>2
      <4>2. nodes[a] \cap nodes[k] = {} /\ nodes[b] \cap nodes[k] = {}
        BY <1>0, <1>2, <4>1
      <4> QED BY <2>1, <2>3, <3>2, <4>2
    <3>3. CASE i # b
      <4>1. nodes[a] \cap nodes[i] = {} /\ nodes[b] \cap nodes[i] = {}
        BY <1>2, <2>0, <2>3, <3>3
      <4> QED BY <2>1, <2>3, <3>3, <4>1
    <3> QED BY <3>2, <3>3
  <2>4. CASE i # a /\ j # a
    <3>1. CASE i = b
      <4>1. nodes[k] \cap nodes[j] = {} /\ j # b
        BY <1>0, <1>2, <1>9, <2>0, <3>1
      <4> QED BY <2>1, <2>4, <3>1, <4>1
    <3>2. CASE i # b /\ j = b
      <4>1. nodes[i] \cap nodes[k] = {}
        BY <1>0, <1>2, <2>0
      <4> QED BY <2>1, <2>4, <3>2, <4>1
    <3>3. CASE i # b /\ j # b
      <4>1. nodes[i] \cap nodes[j] = {}
        BY <1>2, <1>9, <2>0
      <4> QED BY <2>1, <2>4, <3>3, <4>1
    <3> QED BY <3>1, <3>2, <3>3
  <2> QED BY <2>2, <2>3, <2>4
<1>10. ASSUME NEW r \in Relations PROVE \E i \in 1..(k - 1) : r \in m[i]
  <2>1. PICK i \in 1..k : r \in nodes[i]
    BY DEF Nodes
  <2>2. CASE i = a \/ i = b
    <3>1. m[a] = nodes[a] \cup nodes[b]
      BY <1>3, <1>5
    <3> QED BY <1>3, <2>1, <2>2, <3>1
  <2>3. CASE i # a /\ i # b /\ i = k
    <3>1. b \in 1..(k - 1) /\ b # a
      BY <1>0, <1>3, <2>3
    <3>2. m[b] = nodes[k]
      BY <1>5, <3>1
    <3> QED BY <2>1, <2>3, <3>1, <3>2
  <2>4. CASE i # a /\ i # b /\ i # k
    <3>1. i \in 1..(k - 1)
      BY <1>0, <2>4
    <3>2. m[i] = nodes[i]
      BY <1>5, <2>4, <3>1
    <3> QED BY <2>1, <3>1, <3>2
  <2> QED BY <2>2, <2>3, <2>4
<1>11. ToSet(m) = (ToSet(nodes) \ {best[1], best[2]}) \cup {best[1] \cup best[2]}
  <2>1. ToSet(m) = {m[i] : i \in 1..(k - 1)} /\ ToSet(nodes) = {nodes[i] : i \in 1..k}
    <3>1. ToSet(m) = {m[i] : i \in 1..Len(m)}
      BY <1>8, ToSetFacts
    <3>2. ToSet(nodes) = {nodes[i] : i \in 1..Len(nodes)}
      BY <1>0, ToSetFacts
    <3> QED BY <1>8, <3>1, <3>2
  <2>2. best[1] = nodes[a] /\ best[2] = nodes[b]
    BY <1>1
  <2>3. ASSUME NEW i \in 1..(k - 1)
        PROVE  m[i] \in ({nodes[j] : j \in 1..k} \ {nodes[a], nodes[b]}) \cup {nodes[a] \cup nodes[b]}
    <3>1. i \in 1..k /\ i # k
      BY <1>0
    <3>2. CASE i = a
      BY <1>5, <3>2
    <3>3. CASE i # a /\ i = b
      <4>1. k # a /\ k # b
        BY <1>3, <3>1, <3>3
      <4>2. nodes[k] # nodes[a] /\ nodes[k] # nodes[b]
        BY <1>0, <1>2, <4>1
      <4> QED BY <1>0, <1>5, <3>3, <4>2
    <3>4. CASE i # a /\ i # b
      <4>1. nodes[i] # nodes[a] /\ nodes[i] # nodes[b]
        BY <1>2, <3>1, <3>4
      <4> QED BY <1>5, <3>1, <3>4, <4>1
    <3> QED BY <3>2, <3>3, <3>4
  <2>4. m[a] = nodes[a] \cup nodes[b]
    BY <1>3, <1>5
  <2>5. ASSUME NEW j \in 1..k, nodes[j] # nodes[a], nodes[j] # nodes[b]
        PROVE  \E i \in 1..(k - 1) : m[i] = nodes[j]
    <3>1. j # a /\ j # b
      BY <2>5
    <3>2. CASE j = k
      <4>1. b \in 1..(k - 1) /\ b # a
        BY <1>0, <1>1, <1>3, <3>1, <3>2
      <4>2. m[b] = nodes[k]
        BY <1>5, <4>1
      <4> QED BY <3>2, <4>1, <4>2
    <3>3. CASE j # k
      <4>1. j \in 1..(k - 1)
        BY <1>0, <3>3
      <4>2. m[j] = nodes[j]
        BY <1>5, <3>1, <4>1
      <4> QED BY <4>1, <4>2
    <3> QED BY <3>2, <3>3
  <2> DEFINE M == {m[i] : i \in 1..(k - 1)}
             O == {nodes[i] : i \in 1..k}
  <2>6. \A S \in M : S \in (O \ {nodes[a], nodes[b]}) \cup {nodes[a] \cup nodes[b]}
    BY <2>3
  <2>7. nodes[a] \cup nodes[b] \in M
    BY <1>3, <2>4
  <2>8. \A S \in O : S # nodes[a] /\ S # nodes[b] => S \in M
    BY <2>5
  <2> HIDE DEF M, O
  <2>9. M = (O \ {nodes[a], nodes[b]}) \cup {nodes[a] \cup nodes[b]}
    BY <2>6, <2>7, <2>8
  <2> QED BY <2>1, <2>2, <2>9 DEF M, O
<1> QED BY <1>8, <1>9, <1>10, <1>11 DEF Nodes, m, best

GOOStep(nodes, f) ==
  f = [i \in 0..(Len(nodes) - 1) |-> IF i = 0 THEN nodes ELSE Merged(f[i - 1])]

LEMMA GOOEquation ==
  ASSUME GraphOK, CardOK, NEW nodes, Nodes(nodes)
  PROVE  \E f : GOOStep(nodes, f) /\ GOOFrom(nodes) = [i \in 1..(Len(nodes) - 1) |-> BestPair(f[i - 1])]
<1> DEFINE n == Len(nodes) - 1
           V == Seq(Subproblems)
           More(q) == IF Nodes(q) /\ Len(q) > 1 THEN Merged(q) ELSE q
           G == [k \in 1..n |-> [q \in V |-> More(q)]]
<1>1. Len(nodes) \in Nat /\ Len(nodes) # 0 /\ nodes \in V
  <2>1. PICK r \in Relations : TRUE
    BY RelationsAssumption
  <2>2. \E i \in 1..Len(nodes) : r \in nodes[i]
    BY DEF Nodes
  <2> QED BY <2>2 DEF Nodes
<1>2. n \in Nat
  BY <1>1
<1>3. G \in [1..n -> [V -> V]]
  <2>1. ASSUME NEW q \in V PROVE More(q) \in V
    <3>1. CASE Nodes(q) /\ Len(q) > 1
      <4>1. Nodes(Merged(q))
        BY <3>1, MergedFacts
      <4> QED BY <3>1, <4>1 DEF Nodes
    <3> QED BY <3>1
  <2> HIDE DEF More, V
  <2> QED BY <2>1
<1>4. \E f \in [0..n -> V] : Iteration(f, n, nodes, G)
  <2> HIDE DEF n, V, G
  <2> QED BY <1>1, <1>2, <1>3, Iterates
<1>5. PICK h \in [0..n -> V] : Iteration(h, n, nodes, G)
  BY <1>4
<1> DEFINE Good == {k \in 0..n : Nodes(h[k]) /\ Len(h[k]) = n + 1 - k}
<1>6. Inductive(n, Good)
  <2>1. 0 \in Good
    BY <1>1, <1>2, <1>5 DEF Iteration
  <2>2. ASSUME NEW k \in 1..n, k - 1 \in Good PROVE k \in Good
    <3>1. Nodes(h[k - 1]) /\ Len(h[k - 1]) = n + 1 - (k - 1) /\ k - 1 \in 0..n /\ k \in 0..n
      BY <2>2, <1>2
    <3>2. Len(h[k - 1]) > 1
      BY <3>1, <1>2
    <3>3. h[k] = G[k][h[k - 1]] /\ h[k - 1] \in V
      BY <1>5, <3>1 DEF Iteration
    <3>4. h[k] = Merged(h[k - 1])
      <4> HIDE DEF V
      <4> QED BY <3>1, <3>2, <3>3
    <3>5. Nodes(h[k]) /\ Len(h[k]) = Len(h[k - 1]) - 1
      BY <3>1, <3>2, <3>4, MergedFacts
    <3>6. Len(h[k]) = n + 1 - k
      BY <3>1, <3>5, <1>2
    <3> QED BY <3>1, <3>5, <3>6
  <2> HIDE DEF Good
  <2> QED BY <2>1, <2>2 DEF Inductive
<1> DEFINE P(f) == f = [i \in 0..(Len(nodes) - 1) |-> IF i = 0 THEN nodes ELSE Merged(f[i - 1])]
           c == CHOOSE f : P(f)
<1>7. P(h)
  <2>1. ASSUME NEW k \in 0..n PROVE h[k] = IF k = 0 THEN nodes ELSE Merged(h[k - 1])
    <3>1. CASE k # 0
      <4>1. k \in 1..n /\ k - 1 \in 0..n
        BY <3>1, <1>2
      <4>2. k - 1 \in Good
        <5> HIDE DEF Good
        <5> QED BY <4>1, <1>2, <1>6, UpTo
      <4>3. Nodes(h[k - 1]) /\ Len(h[k - 1]) > 1
        BY <4>1, <4>2, <1>2
      <4>4. h[k] = G[k][h[k - 1]] /\ h[k - 1] \in V
        BY <1>5, <4>1 DEF Iteration
      <4>5. h[k] = Merged(h[k - 1])
        <5> HIDE DEF V
        <5> QED BY <4>1, <4>3, <4>4
      <4> QED BY <3>1, <4>5
    <3>2. CASE k = 0
      BY <3>2, <1>5 DEF Iteration
    <3> QED BY <3>1, <3>2
  <2>2. h = [k \in 0..n |-> h[k]]
    OBVIOUS
  <2> QED BY <2>1, <2>2
<1>8. P(c)
  <2> HIDE DEF P
  <2> QED BY <1>7
<1>9. GOOFrom(nodes) = [i \in 1..(Len(nodes) - 1) |-> BestPair(c[i - 1])]
  BY Zenon DEF GOOFrom
<1> HIDE DEF c
<1> QED BY <1>8, <1>9 DEF GOOStep

LEMMA GOOFromFacts ==
  ASSUME GraphOK, CardOK, NEW nodes, Nodes(nodes)
  PROVE  GOOFrom(nodes) \in Seq(JoinedSplits)
<1> DEFINE n == Len(nodes) - 1
<1>1. PICK f : GOOStep(nodes, f) /\ GOOFrom(nodes) = [i \in 1..n |-> BestPair(f[i - 1])]
  BY GOOEquation
<1>2. n \in Nat
  <2>1. PICK r \in Relations : TRUE
    BY RelationsAssumption
  <2>2. \E i \in 1..Len(nodes) : r \in nodes[i]
    BY DEF Nodes
  <2>3. Len(nodes) \in Nat
    BY DEF Nodes
  <2> QED BY <2>2, <2>3
<1> DEFINE Good == {k \in 0..n : Nodes(f[k]) /\ Len(f[k]) = n + 1 - k}
<1>3. Inductive(n, Good)
  <2>1. 0 \in Good
    <3>1. f[0] = nodes /\ Len(nodes) = n + 1 /\ 0 \in 0..n
      BY <1>1, <1>2 DEF GOOStep
    <3> QED BY <3>1, <1>2
  <2>2. ASSUME NEW k \in 1..n, k - 1 \in Good PROVE k \in Good
    <3>1. Nodes(f[k - 1]) /\ Len(f[k - 1]) = n + 1 - (k - 1) /\ k - 1 \in 0..n /\ k \in 0..n
      BY <2>2, <1>2
    <3>2. Len(f[k - 1]) > 1
      BY <3>1, <1>2
    <3>3. f[k] = Merged(f[k - 1])
      BY <1>1, <3>1 DEF GOOStep
    <3>4. Nodes(f[k]) /\ Len(f[k]) = Len(f[k - 1]) - 1
      BY <3>1, <3>2, <3>3, MergedFacts
    <3>5. Len(f[k]) = n + 1 - k
      BY <3>1, <3>4, <1>2
    <3> QED BY <3>1, <3>4, <3>5
  <2> HIDE DEF Good
  <2> QED BY <2>1, <2>2 DEF Inductive
<1>4. ASSUME NEW i \in 1..n PROVE BestPair(f[i - 1]) \in JoinedSplits
  <2>1. i - 1 \in 0..n
    BY <1>2
  <2>2. i - 1 \in Good
    <3> HIDE DEF Good
    <3> QED BY <2>1, <1>2, <1>3, UpTo
  <2>3. Nodes(f[i - 1]) /\ Len(f[i - 1]) > 1
    BY <2>1, <2>2, <1>2
  <2> QED BY <2>3, BestPairFacts
<1> HIDE DEF n
<1> QED BY <1>1, <1>2, <1>4, IsASeq

LEMMA GOOFacts ==
  ASSUME GraphOK, CardOK
  PROVE  GOO \in Seq(JoinedSplits)
<1> DEFINE nodes == [i \in 1..N |-> {i - 1}]
<1>1. \A i \in 1..N : i - 1 \in Relations
  BY NFacts
<1>2. nodes \in Seq(Subproblems) /\ Len(nodes) = N
  <2>1. \A i \in 1..N : {i - 1} \in Subproblems
    BY <1>1, SingletonLinked
  <2> QED BY <2>1, NFacts, IsASeq
<1>3. \A i, j \in 1..N : i # j => nodes[i] \cap nodes[j] = {}
  BY NFacts
<1>4. \A r \in Relations : r + 1 \in 1..N /\ r \in nodes[r + 1]
  BY NFacts
<1>5. Nodes(nodes)
  <2> HIDE DEF nodes
  <2> QED BY <1>2, <1>3, <1>4 DEF Nodes
<1> HIDE DEF nodes
<1>6. GOOFrom(nodes) \in Seq(JoinedSplits)
  BY <1>5, GOOFromFacts
<1> QED BY <1>6 DEF GOO, nodes

SizeOf == [S \in Subproblems |-> Cardinality(S)]

LEMMA SizeTyped == SizeOf \in [Subproblems -> Nat]
<1>1. ASSUME NEW S \in Subproblems PROVE Cardinality(S) \in Nat
  BY NFacts, FS_Subset, FS_CardinalityType DEF Subproblems
<1> QED BY <1>1 DEF SizeOf

LEMMA PartsAreSmaller ==
  ASSUME NEW S \in Subproblems, NEW L \in (SUBSET S) \ {{}, S}
  PROVE  L \in Subproblems /\ SizeOf[L] < SizeOf[S]
<1>1. S \in SUBSET Relations /\ L \in Subproblems
  BY DEF Subproblems
<1>2. IsFiniteSet(S)
  BY <1>1, NFacts, FS_Subset
<1>3. Cardinality(L) <= Cardinality(S) /\ Cardinality(L) # Cardinality(S)
  BY <1>2, FS_Subset
<1>4. Cardinality(L) \in Nat /\ Cardinality(S) \in Nat
  BY <1>2, FS_Subset, FS_CardinalityType
<1>5. SizeOf[L] = Cardinality(L) /\ SizeOf[S] = Cardinality(S)
  BY <1>1 DEF SizeOf
<1> QED BY <1>1, <1>3, <1>4, <1>5

LEMMA SidesAreSmaller ==
  ASSUME NEW S \in Subproblems, NEW p \in SplitsOf(S)
  PROVE  /\ p[1] \in Subproblems /\ SizeOf[p[1]] < SizeOf[S]
         /\ p[2] \in Subproblems /\ SizeOf[p[2]] < SizeOf[S]
<1>1. p[1] \in (SUBSET S) \ {{}, S} /\ p[2] \in (SUBSET S) \ {{}, S}
  BY DEF SplitsOf, Splits, Subproblems
<1> QED BY <1>1, PartsAreSmaller

-----------------------------------------------------------------------------
(* TDGOO *)

LEMMA BestCutFacts ==
  ASSUME CardOK, NEW S \in Subproblems, ~Singleton(S)
  PROVE  BestCut(S) \in SplitsOf(S) /\ (Linked(S) => BestCut(S) \in LinkedCuts(S))
<1> DEFINE cuts == MinCuts(S)
           v == [i \in 1..Len(cuts) |-> card[cuts[i][1]] + card[cuts[i][2]]]
<1>1. cuts \in Seq(SplitsOf(S)) /\ Len(cuts) # 0 /\ (Linked(S) => cuts \in Seq(LinkedCuts(S)))
  BY MinCutsFacts
<1> HIDE DEF cuts
<1>2. v \in Seq(Nat) /\ Len(v) = Len(cuts)
  <2>1. ASSUME NEW i \in 1..Len(cuts) PROVE card[cuts[i][1]] + card[cuts[i][2]] \in Nat
    <3>1. cuts[i] \in SplitsOf(S)
      BY <1>1
    <3>2. cuts[i][1] \in Subproblems /\ cuts[i][2] \in Subproblems
      BY <3>1 DEF SplitsOf, Splits
    <3> QED BY <3>2 DEF CardOK
  <2> QED BY <1>1, <2>1, IsASeq
<1>3. FirstLeast(v) \in 1..Len(cuts)
  <2> HIDE DEF v
  <2> QED BY <1>1, <1>2, FirstLeastFacts
<1>4. BestCut(S) = cuts[FirstLeast(v)]
  BY Zenon DEF BestCut, cuts
<1> HIDE DEF v
<1> QED BY <1>1, <1>3, <1>4

BelowBody(S, f) == IF Singleton(S) THEN <<>> ELSE f[BestCut(S)[1]] \o f[BestCut(S)[2]] \o <<BestCut(S)>>
BelowStep(f) == \A S \in Subproblems : f[S] = BelowBody(S, f)

LEMMA BelowTyped ==
  ASSUME NEW T, NEW f, NEW S,
         ~Singleton(S) => /\ BestCut(S) \in T
                          /\ f[BestCut(S)[1]] \in Seq(T)
                          /\ f[BestCut(S)[2]] \in Seq(T)
  PROVE  BelowBody(S, f) \in Seq(T)
<1> DEFINE a == f[BestCut(S)[1]]
           b == f[BestCut(S)[2]]
           z == <<BestCut(S)>>
<1>1. CASE Singleton(S)
  BY <1>1 DEF BelowBody
<1>2. CASE ~Singleton(S)
  <2>1. a \in Seq(T) /\ b \in Seq(T) /\ z \in Seq(T)
    BY <1>2
  <2>2. BelowBody(S, f) = a \o b \o z
    BY <1>2 DEF BelowBody
  <2> HIDE DEF a, b, z
  <2>3. a \o b \in Seq(T)
    BY <2>1, ConcatProperties
  <2>4. (a \o b) \o z \in Seq(T)
    BY <2>1, <2>3, ConcatProperties
  <2> QED BY <2>2, <2>4
<1> QED BY <1>1, <1>2

LEMMA BelowEquation ==
  ASSUME CardOK, NEW worklist
  PROVE  \E f : BelowStep(f) /\ TDGOOFrom(worklist) = Flatten([i \in 1..Len(worklist) |-> f[worklist[i]]])
<1> DEFINE D == Subproblems
           V == Seq(Splits)
           G == [S \in D |-> [f \in [D -> V] |-> BelowBody(S, f)]]
<1>1. SizeOf \in [D -> Nat] /\ <<>> \in V
  BY SizeTyped
<1>2. ASSUME NEW S \in D, ~Singleton(S)
      PROVE  /\ BestCut(S)[1] \in D /\ SizeOf[BestCut(S)[1]] < SizeOf[S]
             /\ BestCut(S)[2] \in D /\ SizeOf[BestCut(S)[2]] < SizeOf[S]
             /\ BestCut(S) \in Splits
  <2>1. BestCut(S) \in SplitsOf(S)
    BY <1>2, BestCutFacts
  <2> QED BY <2>1, SidesAreSmaller DEF SplitsOf
<1>3. G \in [D -> [[D -> V] -> V]]
  <2>1. ASSUME NEW S \in D, NEW f \in [D -> V] PROVE BelowBody(S, f) \in V
    <3>1. ASSUME ~Singleton(S)
          PROVE  BestCut(S) \in Splits /\ f[BestCut(S)[1]] \in Seq(Splits) /\ f[BestCut(S)[2]] \in Seq(Splits)
      <4> HIDE DEF D
      <4> QED BY <1>2, <3>1
    <3> QED BY <3>1, BelowTyped
  <2> HIDE DEF D, V
  <2> QED BY <2>1
<1>4. LooksBelow(G, D, V, SizeOf)
  <2> SUFFICES ASSUME NEW S \in D, NEW f \in [D -> V], NEW g \in [D -> V],
                      \A e \in D : SizeOf[e] < SizeOf[S] => f[e] = g[e]
               PROVE  G[S][f] = G[S][g]
    BY DEF LooksBelow
  <2> HIDE DEF D, V
  <2>1. ~Singleton(S) => f[BestCut(S)[1]] = g[BestCut(S)[1]] /\ f[BestCut(S)[2]] = g[BestCut(S)[2]]
    BY <1>2
  <2>2. BelowBody(S, f) = BelowBody(S, g)
    BY <2>1 DEF BelowBody
  <2> QED BY <2>2
<1>5. Solvable(G, D, V)
  <2>1. Recursion(G, D, V, SizeOf)
    BY <1>1, <1>3, <1>4 DEF Recursion
  <2> HIDE DEF G, D, V
  <2> QED BY <2>1, RecursiveFunction
<1>6. PICK h \in [D -> V] : \A S \in D : h[S] = G[S][h]
  BY <1>5 DEF Solvable
<1> DEFINE P(f) == f = [S \in Subproblems |->
        IF Singleton(S) THEN <<>>
        ELSE LET best == BestCut(S) IN f[best[1]] \o f[best[2]] \o <<best>>]
           c == CHOOSE f : P(f)
<1>7. ASSUME NEW f PROVE P(f) <=> f = [S \in Subproblems |-> BelowBody(S, f)]
  BY Zenon DEF BelowBody
<1>8. TDGOOFrom(worklist) = Flatten([i \in 1..Len(worklist) |-> c[worklist[i]]])
  BY Zenon DEF TDGOOFrom
<1> HIDE DEF P
<1>9. P(h)
  <2>1. \A S \in D : h[S] = BelowBody(S, h)
    BY <1>6
  <2>2. h = [S \in Subproblems |-> BelowBody(S, h)]
    BY <2>1
  <2> QED BY <1>7, <2>2
<1>10. P(c)
  BY <1>9
<1> HIDE DEF c
<1>11. c = [S \in Subproblems |-> BelowBody(S, c)]
  BY <1>7, <1>10
<1>12. BelowStep(c)
  BY <1>11 DEF BelowStep
<1> QED BY <1>8, <1>12

LEMMA TDGOOFromFacts ==
  ASSUME CardOK, NEW worklist \in Seq(Subproblems), \A i \in 1..Len(worklist) : Linked(worklist[i])
  PROVE  TDGOOFrom(worklist) \in Seq(JoinedSplits)
<1>1. PICK f : BelowStep(f) /\ TDGOOFrom(worklist) = Flatten([i \in 1..Len(worklist) |-> f[worklist[i]]])
  BY BelowEquation
<1> DEFINE Good == {S \in Subproblems : Linked(S) => f[S] \in Seq(JoinedSplits)}
<1>2. ASSUME NEW S \in Subproblems, \A e \in Subproblems : SizeOf[e] < SizeOf[S] => e \in Good
      PROVE  S \in Good
  <2>1. ASSUME Linked(S), ~Singleton(S)
        PROVE  /\ BestCut(S) \in JoinedSplits
               /\ f[BestCut(S)[1]] \in Seq(JoinedSplits)
               /\ f[BestCut(S)[2]] \in Seq(JoinedSplits)
    <3>1. BestCut(S) \in SplitsOf(S) /\ Linked(BestCut(S)[1]) /\ Linked(BestCut(S)[2])
      BY <2>1, BestCutFacts DEF LinkedCuts
    <3>2. BestCut(S) \in JoinedSplits
      BY <2>1, <3>1, LinkedSplits
    <3>3. BestCut(S)[1] \in Good /\ BestCut(S)[2] \in Good
      BY <1>2, <3>1, SidesAreSmaller
    <3> QED BY <3>1, <3>2, <3>3
  <2>2. Linked(S) => BelowBody(S, f) \in Seq(JoinedSplits)
    BY <2>1, BelowTyped
  <2> QED BY <1>1, <2>2 DEF BelowStep
<1> HIDE DEF Good
<1>3. Hereditary(Subproblems, SizeOf, Good)
  BY <1>2 DEF Hereditary
<1>4. \A S \in Subproblems : S \in Good
  BY <1>3, SizeTyped, RankInduction
<1>5. ASSUME NEW i \in 1..Len(worklist) PROVE f[worklist[i]] \in Seq(JoinedSplits)
  <2>1. worklist[i] \in Good /\ Linked(worklist[i])
    BY <1>4
  <2> QED BY <2>1 DEF Good
<1>6. [i \in 1..Len(worklist) |-> f[worklist[i]]] \in Seq(Seq(JoinedSplits))
  BY <1>5, IsASeq
<1> QED BY <1>1, <1>6, FlattenTyped

LEMMA TDGOOFacts ==
  ASSUME GraphOK, CardOK
  PROVE  TDGOO \in Seq(JoinedSplits)
<1> DEFINE worklist == <<All>>
<1>1. worklist \in Seq(Subproblems) /\ \A i \in 1..Len(worklist) : Linked(worklist[i])
  BY SubproblemsFacts, AllLinked
<1> HIDE DEF worklist
<1>2. TDGOOFrom(worklist) \in Seq(JoinedSplits)
  BY <1>1, TDGOOFromFacts
<1> QED BY <1>2 DEF TDGOO, worklist

-----------------------------------------------------------------------------
(* IKKBZ *)

RelationSets == SUBSET Relations
RoomFor == [V \in RelationSets |-> N - Cardinality(V)]

LEMMA RoomFacts ==
  /\ RoomFor \in [RelationSets -> Nat]
  /\ \A V, W \in RelationSets : V \subseteq W /\ V # W => RoomFor[W] < RoomFor[V]
<1>1. ASSUME NEW V \in RelationSets PROVE IsFiniteSet(V) /\ Cardinality(V) \in Nat /\ Cardinality(V) <= N
  BY NFacts, FS_Subset, FS_CardinalityType DEF RelationSets, N
<1>2. \A V \in RelationSets : N - Cardinality(V) \in Nat
  BY <1>1, NFacts
<1>3. ASSUME NEW V \in RelationSets, NEW W \in RelationSets, V \subseteq W, V # W
      PROVE  RoomFor[W] < RoomFor[V]
  <2>1. Cardinality(V) <= Cardinality(W) /\ Cardinality(V) # Cardinality(W)
    BY <1>1, <1>3, FS_Subset
  <2>2. RoomFor[W] = N - Cardinality(W) /\ RoomFor[V] = N - Cardinality(V)
    BY DEF RoomFor
  <2> QED BY <1>1, <2>1, <2>2, NFacts
<1>4. RoomFor \in [RelationSets -> Nat]
  BY <1>2 DEF RoomFor
<1> QED BY <1>3, <1>4

Leaving(V) == {e \in graph : e \cap V # {} /\ ~(e \subseteq V)}
Lightest(V) == {e \in Leaving(V) : \A f \in Leaving(V) : ~Lighter(f, e)}
Extended(F, e) == {T \cup {e} : T \in F}
TreesBody(V, f) ==
  IF Leaving(V) = {} THEN {{}} ELSE UNION {Extended(f[V \cup e], e) : e \in Lightest(V)}
TreesStep(f) == \A V \in RelationSets : f[V] = TreesBody(V, f)

LEMMA LightestFacts ==
  ASSUME GraphOK, NEW V \in RelationSets, NEW e \in Lightest(V)
  PROVE  e \in graph /\ e \cap V # {} /\ V \cup e \in RelationSets /\ RoomFor[V \cup e] < RoomFor[V]
<1>1. e \in graph /\ e \cap V # {} /\ ~(e \subseteq V) /\ e \in SUBSET Relations
  BY EdgeFacts DEF Lightest, Leaving
<1>2. V \cup e \in RelationSets /\ V \subseteq V \cup e /\ V # V \cup e
  BY <1>1 DEF RelationSets
<1> QED BY <1>1, <1>2, RoomFacts

LEMMA TreesEquation ==
  ASSUME GraphOK
  PROVE  \E f : TreesStep(f) /\ SpanningTrees = f[{0}]
<1> DEFINE D == RelationSets
           V == SUBSET (SUBSET graph)
           G == [S \in D |-> [f \in [D -> V] |-> TreesBody(S, f)]]
<1>1. RoomFor \in [D -> Nat] /\ V # {}
  BY RoomFacts
<1>2. G \in [D -> [[D -> V] -> V]]
  <2>1. ASSUME NEW S \in D, NEW f \in [D -> V], NEW T \in TreesBody(S, f) PROVE T \in SUBSET graph
    <3>1. CASE Leaving(S) = {}
      BY <2>1, <3>1 DEF TreesBody
    <3>2. CASE Leaving(S) # {}
      <4>0. PICK e \in Lightest(S) : T \in Extended(f[S \cup e], e)
        BY <3>2 DEF TreesBody
      <4>1. \E U \in f[S \cup e] : T = U \cup {e}
        BY <4>0 DEF Extended
      <4>2. e \in graph /\ S \cup e \in D
        BY LightestFacts
      <4>3. f[S \cup e] \in V
        <5> HIDE DEF D, V
        <5> QED BY <4>2
      <4> QED BY <4>1, <4>2, <4>3
    <3> QED BY <3>1, <3>2
  <2>2. ASSUME NEW S \in D, NEW f \in [D -> V] PROVE TreesBody(S, f) \in V
    BY <2>1
  <2> HIDE DEF D, V
  <2> QED BY <2>2
<1>3. LooksBelow(G, D, V, RoomFor)
  <2> SUFFICES ASSUME NEW S \in D, NEW f \in [D -> V], NEW g \in [D -> V],
                      \A e \in D : RoomFor[e] < RoomFor[S] => f[e] = g[e]
               PROVE  G[S][f] = G[S][g]
    BY DEF LooksBelow
  <2>1. \A e \in Lightest(S) : f[S \cup e] = g[S \cup e]
    BY LightestFacts
  <2> HIDE DEF D, V
  <2>2. {Extended(f[S \cup e], e) : e \in Lightest(S)} = {Extended(g[S \cup e], e) : e \in Lightest(S)}
    BY <2>1
  <2>3. TreesBody(S, f) = TreesBody(S, g)
    BY <2>2 DEF TreesBody
  <2> QED BY <2>3
<1>4. Solvable(G, D, V)
  <2>1. Recursion(G, D, V, RoomFor)
    BY <1>1, <1>2, <1>3 DEF Recursion
  <2> HIDE DEF G, D, V
  <2> QED BY <2>1, RecursiveFunction
<1>5. PICK h \in [D -> V] : \A S \in D : h[S] = G[S][h]
  BY <1>4 DEF Solvable
<1> DEFINE P(z) == z = [W \in SUBSET Relations |->
        LET out == {e \in graph : e \cap W # {} /\ ~(e \subseteq W)}
            lightest == {e \in out : \A f \in out : ~Lighter(f, e)}
        IN  IF out = {} THEN {{}} ELSE UNION {{T \cup {e} : T \in z[W \cup e]} : e \in lightest}]
           c == CHOOSE z : P(z)
<1>6. ASSUME NEW f PROVE P(f) <=> f = [S \in RelationSets |-> TreesBody(S, f)]
  BY Zenon DEF TreesBody, Extended, Lightest, Leaving, RelationSets
<1>7. SpanningTrees = c[{0}]
  BY Zenon DEF SpanningTrees
<1> HIDE DEF P
<1>8. P(h)
  <2>1. \A S \in D : h[S] = TreesBody(S, h)
    BY <1>5
  <2>2. h = [S \in RelationSets |-> TreesBody(S, h)]
    BY <2>1
  <2> QED BY <1>6, <2>2
<1>9. P(c)
  BY <1>8
<1> HIDE DEF c
<1>10. TreesStep(c)
  BY <1>6, <1>9 DEF TreesStep
<1> QED BY <1>7, <1>10

(* Every cut of the query, but those through V, is crossed by an edge of T. *)
Crosses(e, J) == e \cap J # {} /\ ~(e \subseteq J)
Spans(T, V) ==
  \A J \in RelationSets \ {{}, Relations} : (V \subseteq J \/ V \cap J = {}) => \E e \in T : Crosses(e, J)

LEMMA SpanningTreesFacts ==
  ASSUME GraphOK, NEW T \in SpanningTrees
  PROVE  T \in SUBSET graph /\ Spans(T, {0})
<1>1. PICK f : TreesStep(f) /\ SpanningTrees = f[{0}]
  BY TreesEquation
<1> DEFINE Good == {V \in RelationSets : V # {} => \A U \in f[V] : U \in SUBSET graph /\ Spans(U, V)}
<1>2. ASSUME NEW V \in RelationSets, \A W \in RelationSets : RoomFor[W] < RoomFor[V] => W \in Good
      PROVE  V \in Good
  <2> SUFFICES ASSUME V # {}, NEW U \in TreesBody(V, f) PROVE U \in SUBSET graph /\ Spans(U, V)
    BY <1>1 DEF TreesStep
  <2>1. CASE Leaving(V) = {}
    <3>1. U = {}
      BY <2>1 DEF TreesBody
    <3>2. V = Relations
      <4>1. CASE V # Relations
        <5>1. V \in Subproblems \ {Relations}
          BY <4>1 DEF Subproblems, RelationSets
        <5>2. PICK u \in V, w \in Relations \ V : {u, w} \in graph
          BY <5>1, GraphsAssumption DEF GraphOK
        <5>3. {u, w} \in Leaving(V)
          BY <5>2 DEF Leaving
        <5> QED BY <2>1, <5>3
      <4> QED BY <4>1
    <3>3. Spans({}, Relations)
      BY DEF Spans, RelationSets
    <3> QED BY <3>1, <3>2, <3>3
  <2>2. CASE Leaving(V) # {}
    <3>1. PICK e \in Lightest(V) : U \in Extended(f[V \cup e], e)
      BY <2>2 DEF TreesBody
    <3>2. e \in graph /\ e \cap V # {} /\ V \cup e \in RelationSets /\ RoomFor[V \cup e] < RoomFor[V]
      BY LightestFacts
    <3>3. V \cup e \in Good
      BY <1>2, <3>2
    <3>4. PICK W \in f[V \cup e] : U = W \cup {e}
      BY <3>1 DEF Extended
    <3>5. W \in SUBSET graph /\ Spans(W, V \cup e)
      BY <3>2, <3>3, <3>4
    <3>6. ASSUME NEW J \in RelationSets \ {{}, Relations}, V \subseteq J \/ V \cap J = {}
          PROVE  \E d \in U : Crosses(d, J)
      <4>1. CASE Crosses(e, J)
        BY <3>4, <4>1
      <4>2. CASE ~Crosses(e, J)
        <5>1. (V \cup e) \subseteq J \/ (V \cup e) \cap J = {}
          BY <3>2, <3>6, <4>2 DEF Crosses
        <5>2. \E d \in W : Crosses(d, J)
          BY <3>5, <5>1 DEF Spans
        <5> QED BY <3>4, <5>2
      <4> QED BY <4>1, <4>2
    <3> QED BY <3>2, <3>4, <3>5, <3>6 DEF Spans
  <2> QED BY <2>1, <2>2
<1> HIDE DEF Good
<1>3. Hereditary(RelationSets, RoomFor, Good)
  BY <1>2 DEF Hereditary
<1>4. {0} \in Good
  <2>1. {0} \in RelationSets
    BY NFacts DEF RelationSets
  <2> QED BY <1>3, <2>1, RoomFacts, RankInduction
<1> QED BY <1>1, <1>4 DEF Good

Outward(tree, J) == {c \in tree \X (Relations \ J) : c[2] \in c[1] /\ c[1] \cap J # {}}
Lowest(tree, J) == {c \in Outward(tree, J) : \A d \in Outward(tree, J) : ~LowerRank(d[1], d[2], c[1], c[2])}
Prefixed(F, r) == {<<r>> \o l : l \in F}
LinesBody(tree, J, f) ==
  IF Outward(tree, J) = {} THEN {<<>>}
  ELSE UNION {Prefixed(f[J \cup {c[2]}], c[2]) : c \in Lowest(tree, J)}
LinesStep(tree, f) == \A J \in RelationSets : f[J] = LinesBody(tree, J, f)

LEMMA LowestFacts ==
  ASSUME NEW tree \in SUBSET graph, NEW J \in RelationSets, NEW c \in Lowest(tree, J)
  PROVE  /\ c[1] \in tree /\ c[2] \in Relations /\ c[2] \notin J /\ c[2] \in c[1] /\ c[1] \cap J # {}
         /\ J \cup {c[2]} \in RelationSets /\ RoomFor[J \cup {c[2]}] < RoomFor[J]
<1>1. c[1] \in tree /\ c[2] \in Relations /\ c[2] \notin J /\ c[2] \in c[1] /\ c[1] \cap J # {}
  BY DEF Lowest, Outward
<1>2. J \cup {c[2]} \in RelationSets /\ J \subseteq J \cup {c[2]} /\ J # J \cup {c[2]}
  BY <1>1 DEF RelationSets
<1> QED BY <1>1, <1>2, RoomFacts

LEMMA PrefixedTyped ==
  ASSUME NEW T, NEW r \in T, NEW F \in SUBSET Seq(T)
  PROVE  Prefixed(F, r) \in SUBSET Seq(T)
<1> SUFFICES ASSUME NEW l \in F PROVE <<r>> \o l \in Seq(T)
  BY DEF Prefixed
<1>1. <<r>> \in Seq(T) /\ l \in Seq(T)
  OBVIOUS
<1> QED BY <1>1, ConcatProperties

LEMMA LinesEquation ==
  ASSUME NEW tree \in SUBSET graph, NEW root
  PROVE  \E f : LinesStep(tree, f) /\ LinearizationsFrom(tree, root) = Prefixed(f[{root}], root)
<1> DEFINE D == RelationSets
           V == SUBSET Seq(Relations)
           G == [J \in D |-> [f \in [D -> V] |-> LinesBody(tree, J, f)]]
<1>1. RoomFor \in [D -> Nat] /\ V # {}
  BY RoomFacts
<1>2. G \in [D -> [[D -> V] -> V]]
  <2>1. ASSUME NEW J \in D, NEW f \in [D -> V], NEW l \in LinesBody(tree, J, f) PROVE l \in Seq(Relations)
    <3>1. CASE Outward(tree, J) = {}
      <4>1. l = <<>>
        BY <3>1 DEF LinesBody
      <4> QED BY <4>1
    <3>2. CASE Outward(tree, J) # {}
      <4>1. PICK c \in Lowest(tree, J) : l \in Prefixed(f[J \cup {c[2]}], c[2])
        BY <3>2 DEF LinesBody
      <4>2. c[2] \in Relations /\ J \cup {c[2]} \in D
        BY LowestFacts
      <4>3. f[J \cup {c[2]}] \in V
        <5> HIDE DEF D, V
        <5> QED BY <4>2
      <4> QED BY <4>1, <4>2, <4>3, PrefixedTyped
    <3> QED BY <3>1, <3>2
  <2>2. ASSUME NEW J \in D, NEW f \in [D -> V] PROVE LinesBody(tree, J, f) \in V
    BY <2>1
  <2> HIDE DEF D, V
  <2> QED BY <2>2
<1>3. LooksBelow(G, D, V, RoomFor)
  <2> SUFFICES ASSUME NEW J \in D, NEW f \in [D -> V], NEW g \in [D -> V],
                      \A e \in D : RoomFor[e] < RoomFor[J] => f[e] = g[e]
               PROVE  G[J][f] = G[J][g]
    BY DEF LooksBelow
  <2>1. \A c \in Lowest(tree, J) : f[J \cup {c[2]}] = g[J \cup {c[2]}]
    BY LowestFacts
  <2> HIDE DEF D, V
  <2>2. {Prefixed(f[J \cup {c[2]}], c[2]) : c \in Lowest(tree, J)}
        = {Prefixed(g[J \cup {c[2]}], c[2]) : c \in Lowest(tree, J)}
    BY <2>1
  <2>3. LinesBody(tree, J, f) = LinesBody(tree, J, g)
    BY <2>2 DEF LinesBody
  <2> QED BY <2>3
<1>4. Solvable(G, D, V)
  <2>1. Recursion(G, D, V, RoomFor)
    BY <1>1, <1>2, <1>3 DEF Recursion
  <2> HIDE DEF G, D, V
  <2> QED BY <2>1, RecursiveFunction
<1>5. PICK h \in [D -> V] : \A J \in D : h[J] = G[J][h]
  BY <1>4 DEF Solvable
<1> DEFINE P(z) == z = [J \in SUBSET Relations |->
        LET out == {c \in tree \X (Relations \ J) : c[2] \in c[1] /\ c[1] \cap J # {}}
            lowest == {c \in out : \A d \in out : ~LowerRank(d[1], d[2], c[1], c[2])}
        IN  IF out = {} THEN {<<>>}
            ELSE UNION {{<<c[2]>> \o l : l \in z[J \cup {c[2]}]} : c \in lowest}]
           s == CHOOSE z : P(z)
<1>6. ASSUME NEW f PROVE P(f) <=> f = [J \in RelationSets |-> LinesBody(tree, J, f)]
  BY Zenon DEF LinesBody, Prefixed, Lowest, Outward, RelationSets
<1>7. LinearizationsFrom(tree, root) = Prefixed(s[{root}], root)
  BY Zenon DEF LinearizationsFrom, Prefixed
<1> HIDE DEF P
<1>8. P(h)
  <2>1. \A J \in D : h[J] = LinesBody(tree, J, h)
    BY <1>5
  <2>2. h = [J \in RelationSets |-> LinesBody(tree, J, h)]
    BY <2>1
  <2> QED BY <1>6, <2>2
<1>9. P(s)
  BY <1>8
<1> HIDE DEF s
<1>10. s = [J \in RelationSets |-> LinesBody(tree, J, s)]
  BY <1>6, <1>9
<1>11. LinesStep(tree, s)
  BY <1>10 DEF LinesStep
<1> QED BY <1>7, <1>11

(* l lists the relations that are not in J, each next to an earlier one. *)
Lists(l, J) ==
  /\ l \in Seq(Relations) /\ IsInjective(l)
  /\ ToSet(l) \cap J = {} /\ ToSet(l) \cup J = Relations
  /\ \A k \in 1..Len(l) : \E u \in J \cup PrefixSet(l, k - 1) : {u, l[k]} \in graph

(* The elements of a list with one more in front. *)
LEMMA ConsSet ==
  ASSUME NEW r \in Relations, NEW m \in Seq(Relations)
  PROVE  ToSet(<<r>> \o m) = {r} \cup ToSet(m)
<1>1. <<r>> \in Seq(Relations)
  OBVIOUS
<1>2. \A s, t \in Seq(Relations) : ToSet(s \o t) = ToSet(s) \cup ToSet(t)
  BY ToSetConcat
<1> DEFINE o == <<r>>
<1>3. ToSet(o) = {r}
  BY OneElement, Zenon
<1>4. o \in Seq(Relations)
  BY <1>1
<1> HIDE DEF o
<1>5. ToSet(o \o m) = ToSet(o) \cup ToSet(m)
  BY <1>2, <1>4
<1> QED BY <1>3, <1>5 DEF o

LEMMA ListsMore ==
  ASSUME NEW J \in RelationSets, NEW r \in Relations \ J, NEW m, Lists(m, J \cup {r}),
         NEW v \in J, {v, r} \in graph
  PROVE  Lists(<<r>> \o m, J)
<1> DEFINE l == <<r>> \o m
<1>0. m \in Seq(Relations) /\ <<r>> \in Seq(Relations) /\ Len(m) \in Nat
  BY DEF Lists
<1>1. l \in Seq(Relations) /\ Len(l) = Len(m) + 1 /\ DOMAIN l = 1..(Len(m) + 1)
  BY <1>0, ConcatProperties
<1>2. l[1] = r /\ \A k \in 1..Len(m) : l[k + 1] = m[k]
  BY <1>0
<1>3. ToSet(l) = {r} \cup ToSet(m)
  BY <1>0, ConsSet
<1> HIDE DEF l
<1>4. \A k \in 2..(Len(m) + 1) : k - 1 \in 1..Len(m) /\ l[k] = m[k - 1] /\ l[k] \in ToSet(m)
  <2> SUFFICES ASSUME NEW k \in 2..(Len(m) + 1)
               PROVE  k - 1 \in 1..Len(m) /\ l[k] = m[k - 1] /\ l[k] \in ToSet(m)
    OBVIOUS
  <2>1. k - 1 \in 1..Len(m) /\ (k - 1) + 1 = k
    BY <1>0
  <2>2. l[k] = m[k - 1]
    BY <1>2, <2>1
  <2>3. m[k - 1] \in ToSet(m)
    BY <1>0, <2>1 DEF ToSet
  <2> QED BY <2>1, <2>2, <2>3
<1>5. r \notin ToSet(m) /\ ToSet(m) \cap J = {} /\ ToSet(m) \cup J \cup {r} = Relations
  BY DEF Lists
<1>6. IsInjective(l)
  <2> SUFFICES ASSUME NEW a \in 1..(Len(m) + 1), NEW b \in 1..(Len(m) + 1), l[a] = l[b] PROVE a = b
    BY <1>1 DEF IsInjective
  <2>1. DOMAIN m = 1..Len(m)
    BY <1>0
  <2>2. CASE a = 1 /\ b = 1
    BY <2>2
  <2>3. CASE a = 1 /\ b # 1
    <3>1. b \in 2..(Len(m) + 1)
      BY <1>0, <2>3
    <3> QED BY <1>2, <1>4, <1>5, <2>3, <3>1
  <2>4. CASE a # 1 /\ b = 1
    <3>1. a \in 2..(Len(m) + 1)
      BY <1>0, <2>4
    <3> QED BY <1>2, <1>4, <1>5, <2>4, <3>1
  <2>5. CASE a # 1 /\ b # 1
    <3>1. a \in 2..(Len(m) + 1) /\ b \in 2..(Len(m) + 1)
      BY <1>0, <2>5
    <3>2. m[a - 1] = m[b - 1] /\ a - 1 \in DOMAIN m /\ b - 1 \in DOMAIN m
      BY <1>4, <2>1, <3>1
    <3>3. a - 1 = b - 1
      BY <3>2 DEF Lists, IsInjective
    <3> QED BY <3>3
  <2> QED BY <2>2, <2>3, <2>4, <2>5
<1>7. ASSUME NEW k \in 1..Len(l) PROVE \E u \in J \cup PrefixSet(l, k - 1) : {u, l[k]} \in graph
  <2>1. CASE k = 1
    BY <1>2, <2>1
  <2>2. CASE k # 1
    <3>1. k \in 2..(Len(m) + 1)
      BY <1>0, <1>1, <2>2
    <3>2. PICK u \in (J \cup {r}) \cup PrefixSet(m, (k - 1) - 1) : {u, m[k - 1]} \in graph
      BY <1>4, <3>1 DEF Lists
    <3>3. u \in J \cup PrefixSet(l, k - 1)
      <4>1. CASE u \in J
        BY <4>1
      <4>2. CASE u = r
        <5>1. 1 \in 1..(k - 1)
          BY <3>1
        <5> QED BY <1>2, <4>2, <5>1 DEF PrefixSet
      <4>3. CASE u \in PrefixSet(m, (k - 1) - 1)
        <5>1. PICK i \in 1..((k - 1) - 1) : u = m[i]
          BY <4>3 DEF PrefixSet
        <5>2. i \in 1..Len(m) /\ i + 1 \in 1..(k - 1)
          BY <1>0, <3>1
        <5>3. u = l[i + 1]
          BY <1>2, <5>1, <5>2
        <5> QED BY <5>2, <5>3 DEF PrefixSet
      <4> QED BY <3>2, <4>1, <4>2, <4>3
    <3> QED BY <1>4, <3>1, <3>2, <3>3
  <2> QED BY <2>1, <2>2
<1>8. ToSet(l) \cap J = {} /\ ToSet(l) \cup J = Relations
  BY <1>3, <1>5
<1> QED BY <1>1, <1>6, <1>7, <1>8 DEF Lists, l

LEMMA LinearizationsFromFacts ==
  ASSUME GraphOK, NEW tree \in SpanningTrees, NEW root \in Relations,
         NEW l \in LinearizationsFrom(tree, root)
  PROVE  \E m : l = <<root>> \o m /\ Lists(m, {root})
<1>0. tree \in SUBSET graph /\ Spans(tree, {0})
  BY SpanningTreesFacts
<1>1. PICK f : LinesStep(tree, f) /\ LinearizationsFrom(tree, root) = Prefixed(f[{root}], root)
  BY <1>0, LinesEquation
<1> DEFINE Good == {J \in RelationSets : J # {} => \A m \in f[J] : Lists(m, J)}
<1>2. ASSUME NEW J \in RelationSets, \A K \in RelationSets : RoomFor[K] < RoomFor[J] => K \in Good
      PROVE  J \in Good
  <2> SUFFICES ASSUME J # {}, NEW m \in LinesBody(tree, J, f) PROVE Lists(m, J)
    BY <1>1 DEF LinesStep
  <2>1. CASE Outward(tree, J) = {}
    <3>1. m = <<>>
      BY <2>1 DEF LinesBody
    <3>2. J = Relations
      <4>1. CASE J # Relations
        <5>1. J \in RelationSets \ {{}, Relations} /\ ({0} \subseteq J \/ {0} \cap J = {})
          BY <4>1
        <5>2. PICK e \in tree : Crosses(e, J)
          BY <1>0, <5>1 DEF Spans
        <5>3. PICK u \in e : u \notin J
          BY <5>2 DEF Crosses
        <5>4. e \in SUBSET Relations
          BY <1>0, EdgeFacts
        <5>5. <<e, u>> \in Outward(tree, J)
          BY <5>2, <5>3, <5>4 DEF Crosses, Outward
        <5> QED BY <2>1, <5>5
      <4> QED BY <4>1
    <3>3. Lists(<<>>, Relations)
      <4>1. <<>> \in Seq(Relations) /\ Len(<<>>) = 0 /\ DOMAIN <<>> = {}
        OBVIOUS
      <4>2. ToSet(<<>>) = {} /\ IsInjective(<<>>)
        BY <4>1 DEF ToSet, IsInjective
      <4> QED BY <4>1, <4>2 DEF Lists
    <3> QED BY <3>1, <3>2, <3>3
  <2>2. CASE Outward(tree, J) # {}
    <3>1. PICK c \in Lowest(tree, J) : m \in Prefixed(f[J \cup {c[2]}], c[2])
      BY <2>2 DEF LinesBody
    <3>2. PICK z \in f[J \cup {c[2]}] : m = <<c[2]>> \o z
      BY <3>1 DEF Prefixed
    <3>3. c[1] \in graph /\ c[2] \in Relations \ J /\ c[2] \in c[1] /\ c[1] \cap J # {}
          /\ J \cup {c[2]} \in RelationSets /\ RoomFor[J \cup {c[2]}] < RoomFor[J]
      BY <1>0, LowestFacts
    <3>4. Lists(z, J \cup {c[2]})
      BY <1>2, <3>2, <3>3
    <3>5. PICK v \in c[1] \cap J : TRUE
      BY <3>3
    <3>6. {v, c[2]} \in graph
      <4>1. \E x, y \in Relations : x # y /\ c[1] = {x, y}
        BY <3>3, EdgeFacts
      <4>2. c[1] = {v, c[2]}
        BY <3>3, <3>5, <4>1
      <4> QED BY <3>3, <4>2
    <3> QED BY <3>2, <3>3, <3>4, <3>5, <3>6, ListsMore
  <2> QED BY <2>1, <2>2
<1> HIDE DEF Good
<1>3. Hereditary(RelationSets, RoomFor, Good)
  BY <1>2 DEF Hereditary
<1>4. {root} \in Good
  <2>1. {root} \in RelationSets
    BY DEF RelationSets
  <2> QED BY <1>3, <2>1, RoomFacts, RankInduction
<1>5. PICK m \in f[{root}] : l = <<root>> \o m
  BY <1>1 DEF Prefixed
<1>6. Lists(m, {root})
  BY <1>4 DEF Good
<1> QED BY <1>5, <1>6

(* An order of the relations in which each is next to an earlier one. *)
Order(l) ==
  /\ l \in Seq(Relations) /\ Len(l) = N
  /\ \A i, j \in 1..N : l[i] = l[j] => i = j
  /\ \A k \in 1..(N - 1) : \E u \in PrefixSet(l, k) : {u, l[k + 1]} \in graph

LEMMA LinearizationsFacts ==
  ASSUME GraphOK, NEW l \in Linearizations
  PROVE  Order(l)
<1>1. PICK tree \in SpanningTrees, root \in Relations : l \in LinearizationsFrom(tree, root)
  BY DEF Linearizations
<1>2. PICK m : l = <<root>> \o m /\ Lists(m, {root})
  BY <1>1, LinearizationsFromFacts
<1>3. m \in Seq(Relations) /\ <<root>> \in Seq(Relations) /\ Len(m) \in Nat /\ DOMAIN m = 1..Len(m)
  BY <1>2 DEF Lists
<1>4. l \in Seq(Relations) /\ Len(l) = Len(m) + 1 /\ l[1] = root /\ \A k \in 1..Len(m) : l[k + 1] = m[k]
  BY <1>2, <1>3
<1>5. ToSet(l) = Relations
  <2>1. ToSet(l) = {root} \cup ToSet(m)
    BY <1>2, <1>3, ConsSet
  <2> QED BY <1>2, <2>1 DEF Lists
<1>6. \A k \in 2..Len(l) : k - 1 \in 1..Len(m) /\ l[k] = m[k - 1] /\ l[k] # root
  <2> SUFFICES ASSUME NEW k \in 2..Len(l) PROVE k - 1 \in 1..Len(m) /\ l[k] = m[k - 1] /\ l[k] # root
    OBVIOUS
  <2>1. k - 1 \in 1..Len(m) /\ (k - 1) + 1 = k
    BY <1>3, <1>4
  <2>2. l[k] = m[k - 1]
    BY <1>4, <2>1
  <2>3. m[k - 1] \in ToSet(m)
    BY <1>3, <2>1 DEF ToSet
  <2> QED BY <1>2, <2>1, <2>2, <2>3 DEF Lists
<1>7. \A i, j \in 1..Len(l) : l[i] = l[j] => i = j
  <2> SUFFICES ASSUME NEW i \in 1..Len(l), NEW j \in 1..Len(l), l[i] = l[j] PROVE i = j
    OBVIOUS
  <2>1. CASE i # 1 /\ j # 1
    <3>1. i \in 2..Len(l) /\ j \in 2..Len(l)
      BY <2>1
    <3>2. m[i - 1] = m[j - 1] /\ i - 1 \in DOMAIN m /\ j - 1 \in DOMAIN m
      BY <1>3, <1>6, <3>1
    <3>3. i - 1 = j - 1
      BY <1>2, <3>2 DEF Lists, IsInjective
    <3> QED BY <3>3
  <2>2. CASE i = 1 /\ j # 1
    <3>1. j \in 2..Len(l)
      BY <2>2
    <3> QED BY <1>4, <1>6, <2>2, <3>1
  <2>3. CASE i # 1 /\ j = 1
    <3>1. i \in 2..Len(l)
      BY <2>3
    <3> QED BY <1>4, <1>6, <2>3, <3>1
  <2> QED BY <2>1, <2>2, <2>3
<1>8. Len(l) = N
  <2>1. l \in Bijection(1..Len(l), Relations)
    <3>1. l \in [1..Len(l) -> Relations]
      BY <1>4
    <3>2. \A r \in Relations : \E i \in 1..Len(l) : l[i] = r
      BY <1>4, <1>5 DEF ToSet
    <3> QED BY <1>7, <3>1, <3>2 DEF Bijection, Injection, Surjection, IsInjective
  <2>2. ExistsBijection(1..Len(l), Relations)
    BY <2>1 DEF ExistsBijection
  <2>3. IsFiniteSet(1..Len(l)) /\ Cardinality(1..Len(l)) = Len(l)
    BY <1>4, FS_Interval
  <2> QED BY <2>2, <2>3, FS_Bijection DEF N
<1>9. ASSUME NEW k \in 1..(N - 1) PROVE \E u \in PrefixSet(l, k) : {u, l[k + 1]} \in graph
  <2>1. k \in 1..Len(m) /\ l[k + 1] = m[k]
    BY <1>3, <1>4, <1>8
  <2>2. PICK u \in {root} \cup PrefixSet(m, k - 1) : {u, m[k]} \in graph
    BY <1>2, <2>1 DEF Lists
  <2>3. u \in PrefixSet(l, k)
    <3>1. CASE u = root
      <4>1. 1 \in 1..k
        OBVIOUS
      <4> QED BY <1>4, <3>1, <4>1 DEF PrefixSet
    <3>2. CASE u \in PrefixSet(m, k - 1)
      <4>1. PICK i \in 1..(k - 1) : u = m[i]
        BY <3>2 DEF PrefixSet
      <4>2. i \in 1..Len(m) /\ i + 1 \in 1..k
        BY <1>3, <2>1
      <4>3. u = l[i + 1]
        BY <1>4, <4>1, <4>2
      <4> QED BY <4>2, <4>3 DEF PrefixSet
    <3> QED BY <2>2, <3>1, <3>2
  <2> QED BY <2>1, <2>2, <2>3
<1> QED BY <1>4, <1>7, <1>8, <1>9 DEF Order

LEMMA RightDeepFacts ==
  ASSUME NEW l, Order(l)
  PROVE  RightDeep(l) \in Seq(JoinedSplits)
<1>0. l \in Seq(Relations) /\ N \in Nat /\ Len(l) = N /\ N - 1 \in Nat
  BY NFacts DEF Order
<1>1. ASSUME NEW k \in 1..(N - 1) PROVE <<{l[k + 1]}, PrefixSet(l, k)>> \in JoinedSplits
  <2>1. k \in 1..N /\ k + 1 \in 1..N /\ \A i \in 1..k : i \in 1..N /\ i # k + 1
    BY <1>0
  <2>2. PrefixSet(l, k) \in Subproblems
    <3>1. \A i \in 1..k : l[i] \in Relations
      BY <1>0, <2>1
    <3>2. l[1] \in PrefixSet(l, k)
      BY <1>0 DEF PrefixSet
    <3> QED BY <3>1, <3>2 DEF PrefixSet, Subproblems
  <2>3. {l[k + 1]} \in Subproblems
    <3>1. l[k + 1] \in Relations
      BY <1>0, <2>1
    <3> QED BY <3>1 DEF Subproblems
  <2>4. {l[k + 1]} \cap PrefixSet(l, k) = {}
    BY <2>1 DEF PrefixSet, Order
  <2>5. Joined({l[k + 1]}, PrefixSet(l, k))
    <3>1. PICK u \in PrefixSet(l, k) : {u, l[k + 1]} \in graph
      BY DEF Order
    <3>2. {l[k + 1], u} \in graph /\ u \in Relations \ {l[k + 1]}
      BY <2>2, <2>4, <3>1 DEF Subproblems
    <3> QED BY <3>1, <3>2 DEF Joined, Neighbors
  <2> QED BY <2>2, <2>3, <2>4, <2>5, SplitsTyped
<1> QED BY <1>0, <1>1, IsASeq DEF RightDeep

LEMMA WindowsFacts ==
  Windows \in Seq({w \in (1..N) \X (1..N) : w[1] < w[2]})
<1> DEFINE T == {w \in (1..N) \X (1..N) : w[1] < w[2]}
           at(w, k) == IF w % 2 = 1 THEN <<k, k + w>> ELSE <<N - w - k + 1, N - k + 1>>
           row(w) == [k \in 1..(N - w) |-> at(w, k)]
<1>0. N \in Nat /\ N - 1 \in Nat
  BY NFacts
<1>1. ASSUME NEW w \in 1..(N - 1) PROVE row(w) \in Seq(T)
  <2>1. ASSUME NEW k \in 1..(N - w) PROVE at(w, k) \in T
    <3>1. k \in 1..N /\ k + w \in 1..N /\ k < k + w
      BY <1>0
    <3>2. N - w - k + 1 \in 1..N /\ N - k + 1 \in 1..N /\ N - w - k + 1 < N - k + 1
      BY <1>0
    <3>3. <<k, k + w>> \in T /\ <<N - w - k + 1, N - k + 1>> \in T
      BY <3>1, <3>2
    <3> HIDE DEF T
    <3> QED BY <3>3
  <2>2. N - w \in Nat
    BY <1>0
  <2> HIDE DEF T, at
  <2> QED BY <2>1, <2>2, IsASeq
<1>2. Windows = Flatten([w \in 1..(N - 1) |-> row(w)])
  BY Zenon DEF Windows
<1> HIDE DEF T, row
<1>3. [w \in 1..(N - 1) |-> row(w)] \in Seq(Seq(T))
  BY <1>0, <1>1, IsASeq
<1>4. Windows \in Seq(T)
  BY <1>2, <1>3, FlattenTyped
<1> QED BY <1>4 DEF T

LEMMA LinearizedDPFacts ==
  ASSUME NEW l, Order(l)
  PROVE  LinearizedDP(l) \in Seq(JoinedSplits)
<1> DEFINE T == {w \in (1..N) \X (1..N) : w[1] < w[2]}
           C == {w \in ToSet(Windows) : Connected(Slice(l, w[1], w[2]))}
           ws == Within(Windows, C)
           row(w) == [k \in 1..SplitPoints(w) |->
                       <<Slice(l, w[1], w[1] + k - 1), Slice(l, w[1] + k, w[2])>>]
<1>0. l \in Seq(Relations) /\ N \in Nat /\ Len(l) = N
  BY NFacts DEF Order
<1>1. ws \in Seq(T) /\ ToSet(ws) \subseteq C
  <2> HIDE DEF C, T
  <2>1. Windows \in Seq(T)
    BY WindowsFacts DEF T
  <2> QED BY <2>1, WithinTyped
<1>2. LinearizedDP(l) = Flatten([i \in 1..Len(ws) |-> row(ws[i])])
  BY Zenon DEF LinearizedDP
<1> HIDE DEF ws
<1>3. ASSUME NEW i \in 1..Len(ws) PROVE row(ws[i]) \in Seq(JoinedSplits)
  <2> DEFINE w == ws[i]
             a == w[1]
             b == w[2]
  <2>1. w \in T /\ w \in C
    BY <1>1 DEF ToSet
  <2>2. a \in 1..N /\ b \in 1..N /\ a < b /\ Connected(Slice(l, a, b))
    BY <2>1
  <2> HIDE DEF w, a, b, T, C
  <2>3. \A c, d \in 1..N : c <= d => Slice(l, c, d) \in Subproblems
    <3> SUFFICES ASSUME NEW c \in 1..N, NEW d \in 1..N, c <= d PROVE Slice(l, c, d) \in Subproblems
      OBVIOUS
    <3>1. \A k \in c..d : l[k] \in Relations
      BY <1>0
    <3>2. c \in c..d
      BY <3>1
    <3>3. l[c] \in Slice(l, c, d)
      BY <3>2 DEF Slice
    <3> QED BY <3>1, <3>3 DEF Slice, Subproblems
  <2>4. Linked(Slice(l, a, b))
    BY <2>2, <2>3, ConnectedLinked
  <2>5. ASSUME NEW k \in 1..(b - a) PROVE <<Slice(l, a, a + k - 1), Slice(l, a + k, b)>> \in JoinedSplits
    <3>1. a + k - 1 \in 1..N /\ a + k \in 1..N /\ a <= a + k - 1 /\ a + k <= b
          /\ a..b = (a..(a + k - 1)) \cup ((a + k)..b)
          /\ \A x \in a..(a + k - 1), y \in (a + k)..b : x \in 1..N /\ y \in 1..N /\ x # y
      BY <1>0, <2>2
    <3> DEFINE L == Slice(l, a, a + k - 1)
               R == Slice(l, a + k, b)
    <3>2. L \in Subproblems /\ R \in Subproblems
      BY <2>2, <2>3, <3>1
    <3>3. L \cap R = {}
      BY <3>1 DEF Slice, Order
    <3>4. L \cup R = Slice(l, a, b)
      BY <3>1 DEF Slice
    <3> HIDE DEF L, R
    <3>5. <<L, R>> \in SplitsOf(Slice(l, a, b))
      BY <3>2, <3>3, <3>4 DEF SplitsOf, Splits
    <3>6. Slice(l, a, b) \in Subproblems
      BY <2>2, <2>3
    <3> QED BY <2>4, <3>5, <3>6, LinkedSplits DEF L, R
  <2>6. SplitPoints(w) = b - a /\ b - a \in Nat
    BY <2>2 DEF SplitPoints, a, b
  <2>7. row(w) = [k \in 1..(b - a) |-> <<Slice(l, a, a + k - 1), Slice(l, a + k, b)>>]
    BY <2>6 DEF a, b
  <2> HIDE DEF row
  <2>8. row(w) \in Seq(JoinedSplits)
    BY <2>5, <2>6, <2>7, IsASeq
  <2> QED BY <2>8 DEF w
<1> HIDE DEF row
<1>4. [i \in 1..Len(ws) |-> row(ws[i])] \in Seq(Seq(JoinedSplits))
  BY <1>1, <1>3, IsASeq
<1> QED BY <1>2, <1>4, FlattenTyped

-----------------------------------------------------------------------------
(* The tasks of the enumerators. *)

Loose      == {"PEall", "TwoPhaseOptimizer"}
Allowed    == IF algo \in Loose THEN Splits ELSE JoinedSplits
LinkedSets == {S \in Subproblems : Linked(S)}
PlainTasks == {<<"enumerate">>} \cup {Join(p) : p \in Allowed} \cup {Solve(S) : S \in LinkedSets}

LEMMA AllowedFacts == JoinedSplits \subseteq Allowed /\ Allowed \subseteq Splits
BY DEF Allowed, JoinedSplits

LEMMA SeqOfMore ==
  ASSUME NEW T, NEW U, T \subseteq U, NEW s \in Seq(T)
  PROVE  s \in Seq(U)
OBVIOUS

LEMMA JoinsFacts ==
  ASSUME NEW s \in Seq(Allowed)
  PROVE  Joins(s) \in Seq(PlainTasks)
<1>1. ASSUME NEW i \in 1..Len(s) PROVE Join(s[i]) \in PlainTasks
  <2>1. s[i] \in Allowed
    OBVIOUS
  <2> QED BY <2>1 DEF PlainTasks
<1> QED BY <1>1, IsASeq DEF Joins

LEMMA JoinsOfJoined ==
  ASSUME NEW s \in Seq(JoinedSplits)
  PROVE  Joins(s) \in Seq(PlainTasks)
BY AllowedFacts, SeqOfMore, JoinsFacts

LEMMA FirstTasksFacts ==
  ASSUME GraphOK, CardOK, NEW t \in FirstTasks
  PROVE  t \in Seq(PlainTasks)
<1>1. CASE algo = "PEall"
  <2>1. t = Joins(PEall)
    BY <1>1 DEF FirstTasks
  <2>2. PEall \in Seq(Allowed)
    BY <1>1, PEallFacts DEF Allowed, Loose
  <2> QED BY <2>1, <2>2, JoinsFacts
<1>2. CASE algo \in {"TDbasic", "TDMinCutAGaT"}
  <2>1. t = <<Solve(All)>>
    BY <1>2 DEF FirstTasks
  <2>2. Solve(All) \in PlainTasks
    BY AllLinked, SubproblemsFacts DEF PlainTasks, LinkedSets
  <2> QED BY <2>1, <2>2
<1>3. CASE algo = "IKKBZ"
  <2>1. PICK l \in Linearizations : t = Joins(RightDeep(l))
    BY <1>3 DEF FirstTasks
  <2>2. RightDeep(l) \in Seq(JoinedSplits)
    BY LinearizationsFacts, RightDeepFacts
  <2> QED BY <2>1, <2>2, JoinsOfJoined
<1>4. CASE algo = "LinearizedDP"
  <2>1. PICK l \in Linearizations : t = Joins(LinearizedDP(l))
    BY <1>4 DEF FirstTasks
  <2>2. LinearizedDP(l) \in Seq(JoinedSplits)
    BY LinearizationsFacts, LinearizedDPFacts
  <2> QED BY <2>1, <2>2, JoinsOfJoined
<1>5. CASE algo \in {"DPsize", "DPsizeOpt", "DPsizeSub", "DPsub", "DPsubOpt", "DPccp", "GOO", "TDGOO"}
  <2>1. t \in {Joins(DPsize), Joins(DPsizeOpt), Joins(DPsizeSub), Joins(DPsub),
               Joins(DPsubOpt), Joins(DPccp), Joins(GOO), Joins(TDGOO)}
    BY <1>5 DEF FirstTasks
  <2>2. /\ DPsize \in Seq(JoinedSplits) /\ DPsizeOpt \in Seq(JoinedSplits)
        /\ DPsizeSub \in Seq(JoinedSplits) /\ DPsub \in Seq(JoinedSplits)
        /\ DPsubOpt \in Seq(JoinedSplits) /\ DPccp \in Seq(JoinedSplits)
        /\ GOO \in Seq(JoinedSplits) /\ TDGOO \in Seq(JoinedSplits)
    BY DPsizeFacts, DPsizeOptFacts, DPsizeSubFacts, DPsubFacts, DPccpFacts, GOOFacts, TDGOOFacts, Zenon
  <2>3. PICK s \in Seq(JoinedSplits) : t = Joins(s)
    BY <2>1, <2>2
  <2> QED BY <2>3, JoinsOfJoined
<1> QED BY <1>1, <1>2, <1>3, <1>4, <1>5 DEF FirstTasks

(* Below a linked subproblem there are linked ones only, and joins of them. *)
LEMMA PartitionFacts ==
  ASSUME NEW S \in LinkedSets, ~Singleton(S)
  PROVE  Partition(S) \in Seq(LinkedCuts(S))
<1>0. S \in Subproblems /\ Linked(S)
  BY DEF LinkedSets
<1>1. CASE algo = "TDbasic"
  <2> DEFINE F == {p \in ToSet(Dissect(S)) : Min(p[1]) < Min(p[2]) /\ Connected(p[1]) /\ Connected(p[2])}
             ps == Within(Dissect(S), F)
  <2>1. Partition(S) = ps
    BY <1>1 DEF Partition
  <2>2. Dissect(S) \in Seq(SplitsOf(S))
    BY <1>0, DissectFacts
  <2>3. ps \in Seq(SplitsOf(S)) /\ ToSet(ps) \subseteq F
    <3> HIDE DEF F
    <3> QED BY <2>2, WithinTyped
  <2> HIDE DEF ps
  <2>4. ASSUME NEW p \in ToSet(ps) PROVE p \in LinkedCuts(S)
    <3>0. ToSet(ps) \in SUBSET SplitsOf(S)
      BY <2>3, ToSetFacts
    <3>1. p \in F /\ p \in SplitsOf(S)
      BY <2>3, <3>0
    <3>2. p[1] \in Subproblems /\ p[2] \in Subproblems /\ Connected(p[1]) /\ Connected(p[2])
      BY <3>1 DEF SplitsOf, Splits
    <3> QED BY <3>1, <3>2, ConnectedLinked DEF LinkedCuts
  <2> QED BY <2>1, <2>3, <2>4, SeqOfElements
<1>2. CASE algo # "TDbasic"
  BY <1>0, <1>2, MinCutsFacts DEF Partition
<1> QED BY <1>1, <1>2

LEMMA SubTasksFacts ==
  ASSUME NEW S \in LinkedSets, ~Singleton(S)
  PROVE  SubTasks(S) \in Seq(PlainTasks)
<1> DEFINE ps == Partition(S)
           row(i) == <<Solve(ps[i][1]), Solve(ps[i][2]), Join(ps[i])>>
<1>1. ps \in Seq(LinkedCuts(S))
  BY PartitionFacts
<1>2. SubTasks(S) = Flatten([i \in 1..Len(ps) |-> row(i)])
  BY Zenon DEF SubTasks
<1> HIDE DEF ps
<1>3. ASSUME NEW i \in 1..Len(ps) PROVE row(i) \in Seq(PlainTasks)
  <2>1. ps[i] \in LinkedCuts(S)
    BY <1>1
  <2>2. ps[i] \in SplitsOf(S) /\ ps[i][1] \in LinkedSets /\ ps[i][2] \in LinkedSets
    BY <2>1 DEF LinkedCuts, LinkedSets, SplitsOf, Splits
  <2>3. ps[i] \in Allowed
    BY <2>2, LinkedSplits, AllowedFacts DEF LinkedSets
  <2>4. Solve(ps[i][1]) \in PlainTasks /\ Solve(ps[i][2]) \in PlainTasks /\ Join(ps[i]) \in PlainTasks
    BY <2>2, <2>3 DEF PlainTasks
  <2> QED BY <2>4
<1> HIDE DEF row
<1>4. [i \in 1..Len(ps) |-> row(i)] \in Seq(Seq(PlainTasks))
  BY <1>1, <1>3, IsASeq
<1> QED BY <1>2, <1>4, FlattenTyped

-----------------------------------------------------------------------------
(* The lists of tasks. *)

Visit(p)   == <<"visit", p[1], p[2]>>
VisitTasks == {Visit(p) : p \in Splits}
UnionOf(t) == t[2] \cup t[3]

Planned    == {S \in Subproblems : HasPlan(S)}

(* What a task has a plan for when it is done, and what the first n of a   *)
(* list of tasks have.                                                     *)
Scope(t)     == IF t[1] = "solve" THEN t[2] ELSE UnionOf(t)
Scopes(t, n) == {Scope(t[j]) : j \in 1..n}

(* A side of a join has a plan, or gets one from a task before. *)
Supported(t, planned) ==
  \A i \in 1..Len(t) : t[i][1] \in {"join", "visit"} =>
    t[i][2] \in planned \cup Scopes(t, i - 1) /\ t[i][3] \in planned \cup Scopes(t, i - 1)

TasksTyped ==
  \/ tasks \in Seq(PlainTasks)
  \/ algo = "TwoPhaseOptimizer" /\ tasks \in Seq(VisitTasks)

(* An enumerator that does not test has_plan() relies on its order. *)
TasksOK == TasksTyped /\ (algo \notin TestsPlans => Supported(tasks, Planned))

LEMMA FirstApplies ==
  ASSUME NEW T, tasks \in Seq(T), ~Finished
  PROVE  /\ Next1 \in 1..Len(tasks) /\ tasks[Next1] \in T /\ Applies(tasks[Next1])
         /\ \A j \in 1..(Next1 - 1) : ~Applies(tasks[j])
         /\ Rest \in Seq(T) /\ Len(Rest) = Len(tasks) - Next1
         /\ \A i \in 1..Len(Rest) : Next1 + i \in 1..Len(tasks) /\ Rest[i] = tasks[Next1 + i]
<1> DEFINE A == {i \in 1..Len(tasks) : Applies(tasks[i])}
           Q(i) == Applies(tasks[i]) /\ \A j \in 1..(i - 1) : ~Applies(tasks[j])
<1>0. Len(tasks) \in Nat
  OBVIOUS
<1>1. A \in SUBSET Nat /\ A # {}
  BY <1>0 DEF Finished
<1>2. PICK x \in A : \A y \in A : x <= y
  <2> HIDE DEF A
  <2> QED BY <1>1, LeastNat
<1>3. \E i \in 1..Len(tasks) : Q(i)
  <2>1. x \in 1..Len(tasks) /\ Applies(tasks[x])
    BY <1>2
  <2>2. ASSUME NEW j \in 1..(x - 1) PROVE ~Applies(tasks[j])
    <3>1. j \in 1..Len(tasks) /\ ~(x <= j)
      BY <1>0, <2>1
    <3> QED BY <1>2, <3>1
  <2> QED BY <2>1, <2>2
<1>4. Next1 = CHOOSE i \in 1..Len(tasks) : Q(i)
  BY Zenon DEF Next1
<1> HIDE DEF Q
<1>5. Next1 \in 1..Len(tasks) /\ Q(Next1)
  BY <1>3, <1>4, Zenon
<1>6. tasks[Next1] \in T
  BY <1>5
<1> DEFINE n == Next1
<1>7. n \in 1..Len(tasks)
  BY <1>5
<1>8. Rest = SubSeq(tasks, n + 1, Len(tasks))
  BY DEF Rest
<1> HIDE DEF n
<1>9. /\ Rest \in Seq(T) /\ Len(Rest) = Len(tasks) - n
      /\ \A i \in 1..Len(Rest) : n + i \in 1..Len(tasks) /\ Rest[i] = tasks[n + i]
  <2>1. Len(tasks) - n \in Nat /\ n + 1 \in 1..(Len(tasks) + 1)
    BY <1>0, <1>7
  <2>2. Rest = [i \in 1..(Len(tasks) - n) |-> tasks[n + i]]
    BY <1>0, <1>7, <1>8, <2>1
  <2>3. \A i \in 1..(Len(tasks) - n) : n + i \in 1..Len(tasks)
    BY <1>0, <1>7
  <2>4. \A i \in 1..(Len(tasks) - n) : tasks[n + i] \in T
    BY <2>3
  <2>5. Rest \in Seq(T) /\ Len(Rest) = Len(tasks) - n
    BY <2>1, <2>2, <2>4, IsASeq
  <2> QED BY <2>2, <2>3, <2>5
<1> QED BY <1>5, <1>6, <1>9 DEF n, Q

LEMMA TaskKinds ==
  /\ \A t \in PlainTasks : \/ t = <<"enumerate">>
                           \/ \E p \in Allowed : t = Join(p)
                           \/ \E S \in LinkedSets : t = Solve(S)
  /\ \A t \in VisitTasks : \E p \in Splits : t = Visit(p)
BY DEF PlainTasks, VisitTasks

LEMMA AnyTask ==
  ASSUME TasksTyped, NEW j \in 1..Len(tasks)
  PROVE  LET t == tasks[j]
         IN  \/ t = <<"enumerate">>
             \/ \E p \in Allowed : p \in Splits /\ (t = Join(p) \/ t = Visit(p))
             \/ \E S \in LinkedSets : t = Solve(S)
<1>1. CASE tasks \in Seq(PlainTasks)
  <2>1. tasks[j] \in PlainTasks
    BY <1>1
  <2> QED BY <2>1, TaskKinds, AllowedFacts
<1>2. CASE algo = "TwoPhaseOptimizer" /\ tasks \in Seq(VisitTasks)
  <2>1. tasks[j] \in VisitTasks /\ Splits = Allowed
    BY <1>2 DEF Allowed, Loose
  <2> QED BY <2>1, TaskKinds
<1> QED BY <1>1, <1>2 DEF TasksTyped

LEMMA TasksSequence ==
  ASSUME TasksTyped
  PROVE  \E T : tasks \in Seq(T)
BY DEF TasksTyped

(* Where has_plan() is not tested, a task is dropped only because there is *)
(* a plan already.                                                         *)
LEMMA DroppedPlanned ==
  ASSUME TasksTyped, algo \notin TestsPlans, NEW j \in 1..Len(tasks), ~Applies(tasks[j])
  PROVE  Scope(tasks[j]) \in Planned
<1> DEFINE t == tasks[j]
<1>1. \/ t = <<"enumerate">>
      \/ \E p \in Allowed : p \in Splits /\ (t = Join(p) \/ t = Visit(p))
      \/ \E S \in LinkedSets : t = Solve(S)
  BY AnyTask
<1>2. ~Applies(t)
  OBVIOUS
<1> HIDE DEF t
<1>3. t[1] # "enumerate" /\ t[1] # "join"
  BY <1>2 DEF Applies
<1>4. CASE \E p \in Splits : t = Visit(p)
  <2>1. PICK p \in Splits : t = Visit(p)
    BY <1>4
  <2>2. t[1] = "visit" /\ t[2] = p[1] /\ t[3] = p[2]
    BY <2>1 DEF Visit
  <2>3. HasPlan(p[1] \cup p[2]) /\ Scope(t) = p[1] \cup p[2]
    BY <1>2, <2>2 DEF Applies, Scope, UnionOf
  <2>4. p[1] \cup p[2] \in Subproblems
    BY DEF Splits, Subproblems
  <2> QED BY <2>3, <2>4 DEF Planned, t
<1>5. CASE \E S \in LinkedSets : t = Solve(S)
  <2>1. PICK S \in LinkedSets : t = Solve(S)
    BY <1>5
  <2>2. t[1] = "solve" /\ t[2] = S
    BY <2>1 DEF Solve
  <2>3. HasPlan(S) /\ Scope(t) = S /\ S \in Subproblems
    BY <1>2, <2>2 DEF Applies, Scope, LinkedSets
  <2> QED BY <2>3 DEF Planned, t
<1>6. \A p : t # Join(p)
  BY <1>3 DEF Join
<1>7. t # <<"enumerate">>
  BY <1>3
<1> QED BY <1>1, <1>4, <1>5, <1>6, <1>7

(* The join that is considered next is one of those allowed, and its sides *)
(* have plans: it is tested, or it was seen to by the tasks before.        *)
LEMMA ConsideredJoin ==
  ASSUME TasksOK, ~Finished, tasks[Next1][1] \in {"join", "visit"}
  PROVE  LET L == tasks[Next1][2]  R == tasks[Next1][3]
         IN  <<L, R>> \in Allowed /\ May(L, R)
<1> DEFINE t == tasks[Next1]
           n == Next1
<1>0. TasksTyped
  BY DEF TasksOK
<1>1. /\ n \in 1..Len(tasks) /\ Applies(t)
      /\ \A j \in 1..(n - 1) : ~Applies(tasks[j])
      /\ Len(tasks) \in Nat
  BY <1>0, TasksSequence, FirstApplies
<1>2. PICK p \in Allowed : p \in Splits /\ (t = Join(p) \/ t = Visit(p))
  <2>1. t # <<"enumerate">> /\ \A S : t # Solve(S)
    BY DEF Solve
  <2> QED BY <1>0, <1>1, <2>1, AnyTask
<1>3. t[2] = p[1] /\ t[3] = p[2] /\ t[1] \in {"join", "visit"}
  BY <1>2 DEF Join, Visit
<1>4. p = <<p[1], p[2]>> /\ p[1] \in Subproblems /\ p[2] \in Subproblems /\ p[1] \cap p[2] = {}
  BY <1>2 DEF Splits
<1>5. HasPlan(t[2]) /\ HasPlan(t[3])
  <2>1. CASE algo \in TestsPlans
    <3>1. t[1] # "visit"
      <4>1. CASE tasks \in Seq(PlainTasks)
        <5>1. t \in PlainTasks
          BY <1>1, <4>1
        <5>2. t = <<"enumerate">> \/ (\E q \in Allowed : t = Join(q)) \/ (\E S \in LinkedSets : t = Solve(S))
          BY <5>1, TaskKinds
        <5> QED BY <5>2 DEF Join, Solve
      <4>2. CASE algo = "TwoPhaseOptimizer"
        BY <2>1, <4>2 DEF TestsPlans
      <4> QED BY <1>0, <4>1, <4>2 DEF TasksTyped
    <3> QED BY <1>1, <1>3, <2>1, <3>1 DEF Applies
  <2>2. CASE algo \notin TestsPlans
    <3>1. t[2] \in Planned \cup Scopes(tasks, n - 1) /\ t[3] \in Planned \cup Scopes(tasks, n - 1)
      BY <1>1, <1>3, <2>2 DEF TasksOK, Supported
    <3>2. \A j \in 1..(n - 1) : Scope(tasks[j]) \in Planned
      <4> SUFFICES ASSUME NEW j \in 1..(n - 1) PROVE Scope(tasks[j]) \in Planned
        OBVIOUS
      <4> HIDE DEF n, t
      <4>1. j \in 1..Len(tasks)
        BY <1>1
      <4> QED BY <1>0, <1>1, <2>2, <4>1, DroppedPlanned
    <3> HIDE DEF n, t
    <3> QED BY <3>1, <3>2 DEF Scopes, Planned
  <2> QED BY <2>1, <2>2
<1> HIDE DEF t
<1> QED BY <1>2, <1>3, <1>4, <1>5 DEF May, t

LEMMA UpdateGivesPlan ==
  ASSUME TypeOK, NEW L \in Subproblems, NEW R \in Subproblems, Update(L, R)
  PROVE  HasPlan(L \cup R)'
<1>1. L \cup R \in Subproblems
  BY DEF Subproblems
<1>2. CASE Better(L, R)
  <2>1. table'[L \cup R] = Entry(L, R)
    BY <1>1, <1>2, UpdateChanges
  <2>2. table'[L \cup R].left # {}
    BY <2>1 DEF Entry, Subproblems
  <2> QED BY <2>2 DEF HasPlan
<1>3. CASE ~Better(L, R)
  <2>1. HasPlan(L \cup R)
    BY <1>3 DEF Better
  <2> QED BY <1>1, <2>1, UpdateImproves
<1> QED BY <1>2, <1>3

LEMMA UpdatePlans ==
  ASSUME TypeOK, NEW L \in Subproblems, NEW R \in Subproblems, Update(L, R)
  PROVE  Planned \cup {L \cup R} \subseteq Planned'
<1>1. L \cup R \in Subproblems
  BY DEF Subproblems
<1>2. ASSUME NEW S \in Subproblems, HasPlan(S) PROVE HasPlan(S)'
  BY <1>2, UpdateImproves
<1>3. HasPlan(L \cup R)'
  BY UpdateGivesPlan
<1> QED BY <1>1, <1>2, <1>3 DEF Planned

(* What the first task, once it is done, and those dropped before it leave *)
(* to do is still in order.                                                *)
LEMMA SupportedRest ==
  ASSUME TasksOK, algo \notin TestsPlans, ~Finished, NEW planned,
         Planned \cup {Scope(tasks[Next1])} \subseteq planned
  PROVE  Supported(Rest, planned)
<1>a. TasksTyped /\ Supported(tasks, Planned)
  BY DEF TasksOK
<1>0. PICK T : tasks \in Seq(T)
  BY <1>a, TasksSequence
<1> DEFINE n == Next1
<1>1. /\ n \in 1..Len(tasks) /\ Rest \in Seq(T)
      /\ \A j \in 1..(n - 1) : ~Applies(tasks[j])
      /\ \A i \in 1..Len(Rest) : n + i \in 1..Len(tasks) /\ Rest[i] = tasks[n + i]
  BY <1>0, FirstApplies
<1>2. Scope(tasks[n]) \in planned
  OBVIOUS
<1> HIDE DEF n
<1>3. ASSUME NEW j \in 1..n PROVE Scope(tasks[j]) \in planned
  <2>1. CASE j = n
    BY <1>2, <2>1
  <2>2. CASE j # n
    <3>1. j \in 1..Len(tasks) /\ j \in 1..(n - 1)
      BY <1>0, <1>1, <2>2
    <3>2. Scope(tasks[j]) \in Planned
      BY <1>a, <1>1, <3>1, DroppedPlanned
    <3> QED BY <3>2
  <2> QED BY <2>1, <2>2
<1>4. ASSUME NEW i \in 1..Len(Rest) PROVE Planned \cup Scopes(tasks, (n + i) - 1) \subseteq planned \cup Scopes(Rest, i - 1)
  <2>0. n \in Nat /\ Len(Rest) \in Nat
    BY <1>0, <1>1
  <2> SUFFICES ASSUME NEW j \in 1..((n + i) - 1), j \notin 1..n PROVE Scope(tasks[j]) \in Scopes(Rest, i - 1)
    BY <1>3 DEF Scopes
  <2>1. j - n \in 1..(i - 1) /\ j - n \in 1..Len(Rest) /\ n + (j - n) = j
    BY <2>0
  <2>2. Rest[j - n] = tasks[j]
    BY <1>1, <2>1
  <2> QED BY <2>1, <2>2 DEF Scopes
<1>5. ASSUME NEW i \in 1..Len(Rest), Rest[i][1] \in {"join", "visit"}
      PROVE  Rest[i][2] \in planned \cup Scopes(Rest, i - 1) /\ Rest[i][3] \in planned \cup Scopes(Rest, i - 1)
  <2> DEFINE m == n + i
  <2>1. m \in 1..Len(tasks) /\ Rest[i] = tasks[m]
    BY <1>1
  <2>2. Planned \cup Scopes(tasks, m - 1) \subseteq planned \cup Scopes(Rest, i - 1)
    BY <1>4
  <2> HIDE DEF m
  <2>b. tasks[m][1] \in {"join", "visit"}
    BY <1>5, <2>1
  <2>c. Supported(tasks, Planned)
    BY <1>a
  <2>3. tasks[m][2] \in Planned \cup Scopes(tasks, m - 1) /\ tasks[m][3] \in Planned \cup Scopes(tasks, m - 1)
    BY <2>1, <2>b, <2>c, Zenon DEF Supported
  <2> QED BY <2>1, <2>2, <2>3
<1> QED BY <1>5 DEF Supported

(* One list of tasks before another. *)
LEMMA SupportedThen ==
  ASSUME NEW T, NEW s \in Seq(T), NEW t \in Seq(T), NEW planned, NEW more,
         Supported(s, planned), Supported(t, more), more \subseteq planned \cup Scopes(s, Len(s))
  PROVE  Supported(s \o t, planned)
<1> DEFINE m == Len(s)
           n == Len(t)
           c == s \o t
<1>1. /\ m \in Nat /\ n \in Nat /\ Len(c) = m + n
      /\ \A i \in 1..m : c[i] = s[i]
      /\ \A i \in 1..n : c[m + i] = t[i]
  BY ConcatProperties
<1> HIDE DEF c, m, n
<1>2. ASSUME NEW i \in 1..(m + n), c[i][1] \in {"join", "visit"}
      PROVE  c[i][2] \in planned \cup Scopes(c, i - 1) /\ c[i][3] \in planned \cup Scopes(c, i - 1)
  <2>1. CASE i \in 1..m
    <3>1. \A j \in 1..(i - 1) : j \in 1..m /\ c[j] = s[j]
      BY <1>1, <2>1
    <3>2. Scopes(s, i - 1) = Scopes(c, i - 1)
      BY <3>1 DEF Scopes
    <3> QED BY <1>1, <1>2, <2>1, <3>2 DEF Supported, m
  <2>2. CASE i \notin 1..m
    <3> DEFINE k == i - m
    <3>1. k \in 1..n /\ i = m + k
      BY <1>1, <2>2
    <3>2. c[i] = t[k]
      BY <1>1, <3>1
    <3> HIDE DEF k
    <3>3. Scopes(s, m) \subseteq Scopes(c, i - 1)
      <4>1. \A j \in 1..m : j \in 1..(i - 1) /\ c[j] = s[j]
        BY <1>1, <3>1
      <4> QED BY <4>1 DEF Scopes
    <3>4. Scopes(t, k - 1) \subseteq Scopes(c, i - 1)
      <4> SUFFICES ASSUME NEW j \in 1..(k - 1) PROVE Scope(t[j]) \in Scopes(c, i - 1)
        BY DEF Scopes
      <4>1. m + j \in 1..(i - 1) /\ j \in 1..n
        BY <1>1, <3>1
      <4>2. c[m + j] = t[j]
        BY <1>1, <4>1
      <4> QED BY <4>1, <4>2 DEF Scopes
    <3>5. t[k][2] \in more \cup Scopes(t, k - 1) /\ t[k][3] \in more \cup Scopes(t, k - 1)
      BY <1>2, <3>1, <3>2 DEF Supported, n
    <3> QED BY <3>2, <3>3, <3>4, <3>5 DEF m
  <2> QED BY <2>1, <2>2
<1> QED BY <1>1, <1>2 DEF Supported, c

-----------------------------------------------------------------------------
(* The states of the randomised search: join orders that are lines. *)

(* q joins what p has joined with one more relation. *)
Continues(p, q) ==
  \E r \in Relations :
    /\ r \notin p[1] \cup p[2]
    /\ q = <<p[1] \cup p[2], {r}>> \/ q = <<{r}, p[1] \cup p[2]>>

Line(s) ==
  /\ s \in Seq(Splits)
  /\ Len(s) # 0 => Singleton(s[1][1]) /\ Singleton(s[1][2])
  /\ \A i \in 1..(Len(s) - 1) : Continues(s[i], s[i + 1])

LineStates == {s \in Seq(Splits) : Len(s) = N - 1 /\ Line(s)}

LEMMA SplitPair == \A p \in Splits : /\ p = <<p[1], p[2]>> /\ p[1] \in Subproblems /\ p[2] \in Subproblems
                                     /\ p[1] # {} /\ p[2] # {} /\ p[1] \cap p[2] = {}
BY DEF Splits, Subproblems

(* generate_random_state() *)
LEMMA RandomStatesFacts ==
  ASSUME NEW s \in RandomStates
  PROVE  s \in LineStates
<1>0. N \in Nat /\ N - 1 \in Nat
  BY NFacts
<1>1. PICK l \in [1..N -> Relations] :
        IsInjective(l) /\ s = [k \in 1..(N - 1) |-> <<PrefixSet(l, k), {l[k + 1]}>>]
  BY DEF RandomStates
<1>2. \A i, j \in 1..N : l[i] = l[j] => i = j
  BY <1>1 DEF IsInjective
<1>3. ASSUME NEW k \in 1..(N - 1)
      PROVE  /\ s[k] = <<PrefixSet(l, k), {l[k + 1]}>> /\ s[k] \in Splits
             /\ PrefixSet(l, k + 1) = PrefixSet(l, k) \cup {l[k + 1]}
             /\ l[k + 1] \in Relations /\ l[k + 1] \notin PrefixSet(l, k)
  <2>1. k \in 1..N /\ k + 1 \in 1..N /\ 1 \in 1..k /\ \A i \in 1..k : i \in 1..N /\ i # k + 1
    BY <1>0
  <2>2. PrefixSet(l, k) \in Subproblems
    <3>1. \A i \in 1..k : l[i] \in Relations
      BY <2>1
    <3>2. l[1] \in PrefixSet(l, k)
      BY <2>1 DEF PrefixSet
    <3> QED BY <3>1, <3>2 DEF PrefixSet, Subproblems
  <2>3. l[k + 1] \in Relations /\ l[k + 1] \notin PrefixSet(l, k)
    BY <1>2, <2>1 DEF PrefixSet
  <2>4. 1..(k + 1) = (1..k) \cup {k + 1}
    BY <1>0
  <2>5. PrefixSet(l, k + 1) = PrefixSet(l, k) \cup {l[k + 1]}
    BY <2>4 DEF PrefixSet
  <2>6. {l[k + 1]} \in Subproblems /\ PrefixSet(l, k) \cap {l[k + 1]} = {}
    BY <2>3 DEF Subproblems
  <2> QED BY <1>1, <2>2, <2>3, <2>5, <2>6, SplitsTyped
<1>4. s \in Seq(Splits) /\ Len(s) = N - 1
  <2> DEFINE at(k) == <<PrefixSet(l, k), {l[k + 1]}>>
  <2>1. \A k \in 1..(N - 1) : at(k) \in Splits
    BY <1>3
  <2>2. s = [k \in 1..(N - 1) |-> at(k)]
    BY <1>1
  <2> HIDE DEF at
  <2>3. s \in Seq(Splits)
    BY <1>0, <2>1, <2>2, IsASeq
  <2> QED BY <1>0, <2>2, <2>3
<1>5. Len(s) # 0 => Singleton(s[1][1]) /\ Singleton(s[1][2])
  <2> SUFFICES ASSUME Len(s) # 0 PROVE Singleton(s[1][1]) /\ Singleton(s[1][2])
    OBVIOUS
  <2>1. 1 \in 1..(N - 1) /\ 1..1 = {1} /\ 1 \in 1..N /\ 1 + 1 \in 1..N
    BY <1>0, <1>4
  <2>2. s[1] = <<PrefixSet(l, 1), {l[1 + 1]}>>
    BY <1>3, <2>1
  <2>3. PrefixSet(l, 1) = {l[1]} /\ l[1] \in Relations /\ l[1 + 1] \in Relations
    BY <2>1 DEF PrefixSet
  <2> QED BY <2>2, <2>3 DEF Singleton
<1>6. ASSUME NEW i \in 1..(Len(s) - 1) PROVE Continues(s[i], s[i + 1])
  <2>1. i \in 1..(N - 1) /\ i + 1 \in 1..(N - 1)
    BY <1>0, <1>4
  <2> DEFINE h == i + 1
  <2>2. /\ s[h] = <<PrefixSet(l, h), {l[h + 1]}>>
        /\ l[h + 1] \in Relations /\ l[h + 1] \notin PrefixSet(l, h)
    BY <1>3, <2>1
  <2>3. s[i] = <<PrefixSet(l, i), {l[i + 1]}>> /\ PrefixSet(l, h) = PrefixSet(l, i) \cup {l[i + 1]}
    BY <1>3, <2>1
  <2> HIDE DEF h
  <2>4. s[i][1] \cup s[i][2] = PrefixSet(l, h)
    BY <2>3
  <2>5. Continues(s[i], s[h])
    BY <2>2, <2>4 DEF Continues
  <2> QED BY <2>5 DEF h
<1> QED BY <1>4, <1>5, <1>6 DEF LineStates, Line

(* apply_commutation() *)
LEMMA CommutationFacts ==
  ASSUME NEW s \in LineStates, NEW i \in 1..Len(s)
  PROVE  ApplyCommutation(s, i) \in LineStates
<1> DEFINE t == ApplyCommutation(s, i)
           Mirror(p) == <<p[2], p[1]>>
<1>0. s \in Seq(Splits) /\ Len(s) \in Nat /\ Line(s) /\ Len(s) = N - 1
  BY DEF LineStates
<1>1. t = [s EXCEPT ![i] = Mirror(s[i])]
  BY DEF ApplyCommutation
<1>2. ASSUME NEW p \in Splits PROVE Mirror(p) \in Splits /\ Mirror(p)[1] = p[2] /\ Mirror(p)[2] = p[1]
  BY SplitPair, SplitsTyped
<1>3. ASSUME NEW k \in 1..Len(s)
      PROVE  t[k] \in Splits /\ (t[k] = s[k] \/ t[k] = Mirror(s[k])) /\ s[k] \in Splits
  BY <1>0, <1>1, <1>2
<1>4. t \in Seq(Splits) /\ Len(t) = Len(s)
  BY <1>0, <1>1, <1>2
<1> HIDE DEF t, Mirror
<1>5. Len(t) # 0 => Singleton(t[1][1]) /\ Singleton(t[1][2])
  <2> SUFFICES ASSUME Len(t) # 0 PROVE Singleton(t[1][1]) /\ Singleton(t[1][2])
    OBVIOUS
  <2>1. 1 \in 1..Len(s) /\ Len(s) # 0
    BY <1>0, <1>4
  <2>2. Singleton(s[1][1]) /\ Singleton(s[1][2])
    BY <1>0, <2>1 DEF Line
  <2> QED BY <1>2, <1>3, <2>1, <2>2
<1>6. ASSUME NEW k \in 1..(Len(t) - 1) PROVE Continues(t[k], t[k + 1])
  <2>1. k \in 1..Len(s) /\ k \in 1..(Len(s) - 1) /\ k + 1 \in 1..Len(s)
    BY <1>0, <1>4
  <2> DEFINE h == k + 1
  <2>2. Continues(s[k], s[h])
    BY <1>0, <2>1 DEF Line
  <2>3. h \in 1..Len(s)
    BY <2>1
  <2> HIDE DEF h
  <2>4. t[k][1] \cup t[k][2] = s[k][1] \cup s[k][2]
    BY <1>2, <1>3, <2>1
  <2>5. PICK r \in Relations : /\ r \notin s[k][1] \cup s[k][2]
                               /\ s[h] = <<s[k][1] \cup s[k][2], {r}>> \/ s[h] = <<{r}, s[k][1] \cup s[k][2]>>
    BY <2>2 DEF Continues
  <2>6. t[h] = <<s[k][1] \cup s[k][2], {r}>> \/ t[h] = <<{r}, s[k][1] \cup s[k][2]>>
    BY <1>3, <2>3, <2>5 DEF Mirror
  <2>7. Continues(t[k], t[h])
    BY <2>4, <2>5, <2>6 DEF Continues
  <2> QED BY <2>7 DEF h
<1> QED BY <1>0, <1>4, <1>5, <1>6 DEF LineStates, Line, t

(* apply_associativity() looks for a join whose right side is the left side *)
(* of the next one.  In no state of the search is there one: it leaves     *)
(* every state as it is.                                                   *)
THEOREM AssociativityFacts ==
  ASSUME NEW s \in LineStates, NEW i \in 1..(Len(s) - 1)
  PROVE  ApplyAssociativity(s, i) = s
<1>0. s \in Seq(Splits) /\ Len(s) \in Nat /\ Line(s)
  BY DEF LineStates
<1> DEFINE h == i + 1
<1>1. Continues(s[i], s[h])
  BY <1>0 DEF Line
<1>2. s[i] \in Splits
  BY <1>0
<1> HIDE DEF h
<1>3. s[i][2] # s[h][1]
  <2>1. PICK r \in Relations : /\ r \notin s[i][1] \cup s[i][2]
                               /\ s[h] = <<s[i][1] \cup s[i][2], {r}>> \/ s[h] = <<{r}, s[i][1] \cup s[i][2]>>
    BY <1>1 DEF Continues
  <2>2. s[h][1] = s[i][1] \cup s[i][2] \/ s[h][1] = {r}
    BY <2>1
  <2>3. s[i][1] # {} /\ s[i][1] \cap s[i][2] = {}
    BY <1>2, SplitPair
  <2> QED BY <2>1, <2>2, <2>3
<1> QED BY <1>3 DEF ApplyAssociativity, h

LEMMA NeighborsFacts ==
  ASSUME NEW s \in LineStates
  PROVE  GenerateNeighbors(s) \in Seq(LineStates)
<1>0. s \in Seq(Splits) /\ Len(s) \in Nat
  BY DEF LineStates
<1>1. [i \in 1..Len(s) |-> ApplyCommutation(s, i)] \in Seq(LineStates)
  BY <1>0, CommutationFacts, IsASeq
<1>2. [i \in 1..(Len(s) - 1) |-> ApplyAssociativity(s, i)] \in Seq(LineStates)
  <2>1. \A i \in 1..(Len(s) - 1) : ApplyAssociativity(s, i) \in LineStates
    BY AssociativityFacts
  <2>2. CASE Len(s) = 0
    <3> DEFINE at(i) == ApplyAssociativity(s, i)
    <3>1. 1..(Len(s) - 1) = 1..0
      BY <2>2
    <3>2. \A i \in 1..0 : at(i) \in LineStates
      OBVIOUS
    <3> HIDE DEF at
    <3>3. [i \in 1..0 |-> at(i)] \in Seq(LineStates)
      BY <3>2, IsASeq
    <3> QED BY <3>1, <3>3 DEF at
  <2>3. CASE Len(s) # 0
    <3>1. Len(s) - 1 \in Nat
      BY <1>0, <2>3
    <3> QED BY <2>1, <3>1, IsASeq
  <2> QED BY <2>2, <2>3
<1> QED BY <1>1, <1>2, ConcatProperties DEF GenerateNeighbors

SearchStates ==
  [phase : {"seed", "restart", "climb", "climbing", "anneal", "annealing", "committed"}, restarts : Nat, current : LineStates \cup {None}, best : LineStates \cup {None},
   improved : BOOLEAN, neighbors : Seq(LineStates)]

SearchOK ==
  /\ search \in SearchStates
  /\ search.phase # "seed" => search.current \in LineStates /\ search.best \in LineStates
  /\ search.phase \in {"climbing", "annealing"} => search.neighbors # <<>>

SearchTasks(t) == \E s \in LineStates : t \in {Visits(s), Joins(s)}

LEMMA SearchBegins == SearchInit => SearchOK
<1> SUFFICES ASSUME SearchInit PROVE SearchOK
  OBVIOUS
<1>1. <<>> \in Seq(LineStates) /\ 0 \in Nat
  OBVIOUS
<1> QED BY <1>1 DEF SearchInit, SearchOK, SearchStates

LEMMA CheaperFacts ==
  ASSUME NEW s, NEW t
  PROVE  Cheaper(s, t) \in {s, t}
BY DEF Cheaper

LEMMA SeqEnds ==
  ASSUME NEW T, NEW s \in Seq(T), s # <<>>
  PROVE  Head(s) \in T /\ Tail(s) \in Seq(T)
OBVIOUS

LEMMA SearchSteps ==
  ASSUME SearchOK, SearchNext
  PROVE  /\ SearchOK' /\ UNCHANGED <<card, table, graph, algo>>
         /\ tasks' = tasks \/ (algo = "TwoPhaseOptimizer" /\ SearchTasks(tasks'))
<1>0. search \in SearchStates
  BY DEF SearchOK
<1>1. CASE Seed
  <2>1. PICK s \in RandomStates :
          Evaluate(s) /\ search' = [search EXCEPT !.phase = "restart", !.current = s, !.best = s]
    BY <1>1 DEF Seed
  <2>2. s \in LineStates
    BY RandomStatesFacts
  <2>3. SearchOK'
    BY <1>0, <2>1, <2>2 DEF SearchOK, SearchStates
  <2> QED BY <1>1, <2>1, <2>2, <2>3 DEF Seed, Idle, Evaluate, SearchTasks
<1>2. CASE Restart
  <2>1. PICK s \in RandomStates :
          Evaluate(s) /\ search' = [search EXCEPT !.phase = "climb", !.restarts = @ + 1,
                                                  !.current = s, !.improved = TRUE]
    BY <1>2 DEF Restart
  <2>2. s \in LineStates
    BY RandomStatesFacts
  <2>3. search.restarts + 1 \in Nat /\ TRUE \in BOOLEAN /\ search.phase = "restart"
    BY <1>0, <1>2 DEF SearchStates, Restart, Idle
  <2>4. SearchOK'
    BY <1>0, <2>1, <2>2, <2>3 DEF SearchOK, SearchStates
  <2> QED BY <1>2, <2>1, <2>2, <2>4 DEF Restart, Idle, Evaluate, SearchTasks
<1>3. CASE Iterate
  <2>1. search.phase = "climb" /\ search' = [search EXCEPT !.improved = FALSE,
                                               !.neighbors = GenerateNeighbors(search.current)]
    BY <1>3 DEF Iterate, Idle
  <2>2. GenerateNeighbors(search.current) \in Seq(LineStates)
    BY <2>1, NeighborsFacts DEF SearchOK
  <2>3. SearchOK'
    BY <1>0, <2>1, <2>2 DEF SearchOK, SearchStates
  <2> QED BY <1>3, <2>3 DEF Iterate
<1>4. CASE Try
  <2>1. /\ search.neighbors # <<>> /\ Evaluate(Head(search.neighbors)) /\ search.phase = "climb"
        /\ search' = [search EXCEPT !.phase = "climbing"]
    BY <1>4 DEF Try, Idle
  <2>2. Head(search.neighbors) \in LineStates
    BY <1>0, <2>1, SeqEnds DEF SearchStates
  <2>3. SearchOK'
    BY <1>0, <2>1 DEF SearchOK, SearchStates
  <2> QED BY <1>4, <2>1, <2>2, <2>3 DEF Try, Idle, Evaluate, SearchTasks
<1>5. CASE Climb
  <2> DEFINE new == Head(search.neighbors)
             better == search.improved \/ StateCost(new) < StateCost(search.current)
             next == Cheaper(new, search.current)
  <2>1. search.phase = "climbing" /\ search.neighbors # <<>>
    BY <1>5 DEF Climb, Idle, SearchOK
  <2>2. search' = [search EXCEPT !.phase = "climb", !.neighbors = Tail(search.neighbors),
                                 !.current = next, !.improved = better]
    BY <1>5 DEF Climb
  <2>3. new \in LineStates /\ Tail(search.neighbors) \in Seq(LineStates)
    BY <1>0, <2>1, SeqEnds DEF SearchStates
  <2>4. search.current \in LineStates /\ search.best \in LineStates
    BY <2>1 DEF SearchOK
  <2>5. next \in LineStates
    <3> HIDE DEF new
    <3> QED BY <2>3, <2>4, CheaperFacts
  <2>6. better \in BOOLEAN
    OBVIOUS
  <2> HIDE DEF better, next, new
  <2>7. SearchOK'
    BY <1>0, <2>2, <2>3, <2>4, <2>5, <2>6 DEF SearchOK, SearchStates
  <2> QED BY <1>5, <2>7 DEF Climb
<1>6. CASE EndClimb
  <2> DEFINE next == Cheaper(search.current, search.best)
  <2>1. search.phase = "climb"
    BY <1>6 DEF EndClimb, Idle
  <2>2. search' = [search EXCEPT !.phase = "restart", !.best = next]
    BY <1>6 DEF EndClimb
  <2>3. search.current \in LineStates /\ search.best \in LineStates
    BY <2>1 DEF SearchOK
  <2>4. next \in LineStates
    BY <2>3, CheaperFacts
  <2> HIDE DEF next
  <2>5. SearchOK'
    BY <1>0, <2>2, <2>3, <2>4 DEF SearchOK, SearchStates
  <2> QED BY <1>6, <2>5 DEF EndClimb
<1>7. CASE Anneal
  <2>1. search.phase = "restart" /\ search' = [search EXCEPT !.phase = "anneal", !.current = search.best]
    BY <1>7 DEF Anneal, Idle
  <2>2. SearchOK'
    BY <1>0, <2>1 DEF SearchOK, SearchStates
  <2> QED BY <1>7, <2>2 DEF Anneal
<1>8. CASE Propose
  <2>1. search.phase = "anneal"
    BY <1>8 DEF Propose, Idle
  <2>2. GenerateNeighbors(search.current) \in Seq(LineStates)
    BY <2>1, NeighborsFacts DEF SearchOK
  <2>3. PICK s \in ToSet(GenerateNeighbors(search.current)) :
          Evaluate(s) /\ search' = [search EXCEPT !.phase = "annealing", !.neighbors = <<s>>]
    BY <1>8 DEF Propose
  <2>4. s \in LineStates
    <3>1. ToSet(GenerateNeighbors(search.current)) \in SUBSET LineStates
      BY <2>2, ToSetFacts
    <3> QED BY <3>1
  <2>5. <<s>> \in Seq(LineStates) /\ <<s>> # <<>>
    BY <2>4
  <2>6. SearchOK'
    BY <1>0, <2>1, <2>3, <2>5 DEF SearchOK, SearchStates
  <2> QED BY <1>8, <2>3, <2>4, <2>6 DEF Propose, Idle, Evaluate, SearchTasks
<1>9. CASE Accept
  <2> DEFINE new == Head(search.neighbors)
             old == search.current
             worse == StateCost(old) < StateCost(new)
             best == IF StateCost(new) < StateCost(old) THEN Cheaper(new, search.best) ELSE search.best
  <2>1. search.phase = "annealing" /\ search.neighbors # <<>>
    BY <1>9 DEF Accept, Idle, SearchOK
  <2>2. PICK taken \in {new} \cup IF worse THEN {old} ELSE {} :
          search' = [search EXCEPT !.phase = "anneal", !.neighbors = <<>>, !.current = taken, !.best = best]
    BY <1>9 DEF Accept
  <2>3. new \in LineStates
    BY <1>0, <2>1, SeqEnds DEF SearchStates
  <2>4. old \in LineStates /\ search.best \in LineStates
    BY <2>1 DEF SearchOK
  <2>5. taken \in LineStates
    <3> HIDE DEF new, old, worse
    <3> QED BY <2>2, <2>3, <2>4
  <2>6. best \in LineStates
    <3>1. Cheaper(new, search.best) \in LineStates
      <4> HIDE DEF new
      <4> QED BY <2>3, <2>4, CheaperFacts
    <3> QED BY <2>4, <3>1
  <2>7. <<>> \in Seq(LineStates)
    OBVIOUS
  <2> HIDE DEF best, new, old, worse
  <2>8. SearchOK'
    BY <1>0, <2>2, <2>5, <2>6, <2>7 DEF SearchOK, SearchStates
  <2> QED BY <1>9, <2>8 DEF Accept
<1>10. CASE Commit
  <2>1. search.phase = "anneal" /\ search' = [search EXCEPT !.phase = "committed"]
    BY <1>10 DEF Commit, Idle
  <2>2. search.best \in LineStates
    BY <2>1 DEF SearchOK
  <2>3. SearchOK'
    BY <1>0, <2>1 DEF SearchOK, SearchStates
  <2> QED BY <1>10, <2>2, <2>3 DEF Commit, CommitTasks, Idle, SearchTasks
<1> QED
  BY <1>1, <1>2, <1>3, <1>4, <1>5, <1>6, <1>7, <1>8, <1>9, <1>10 DEF SearchNext

-----------------------------------------------------------------------------
(* The states of the heuristic search: ways to divide the query into       *)
(* linked subproblems.                                                     *)

Divisions ==
  {P \in SUBSET LinkedSets : (\A A, B \in P : A # B => A \cap B = {}) /\ UNION P = Relations}

(* Q is what one join makes of P. *)
OneJoin(P, Q) ==
  \E a, b \in P : a # b /\ Joined(a, b) /\ Q = (P \ {a, b}) \cup {a \cup b}

LEMMA DivisionFacts ==
  ASSUME NEW P \in Divisions
  PROVE  /\ P \in SUBSET (SUBSET Relations) /\ P \in SUBSET Subproblems
         /\ \A A \in P : Linked(A) /\ A # {}
         /\ \A A, B \in P : A # B => A \cap B = {}
         /\ \A r \in Relations : \E A \in P : r \in A
BY DEF Divisions, LinkedSets, Subproblems

LEMMA JoinDivides ==
  ASSUME NEW P \in Divisions, NEW a \in P, NEW b \in P, a # b, Joined(a, b)
  PROVE  (P \ {a, b}) \cup {a \cup b} \in Divisions
<1> DEFINE Q == (P \ {a, b}) \cup {a \cup b}
<1>1. a \in Subproblems /\ b \in Subproblems /\ a \cap b = {} /\ Linked(a) /\ Linked(b)
  BY DivisionFacts
<1>2. a \cup b \in LinkedSets
  <2>1. a \cup b \in Subproblems
    BY <1>1 DEF Subproblems
  <2>2. Linked(a \cup b)
    BY <1>1, UnionLinked
  <2> QED BY <2>1, <2>2 DEF LinkedSets
<1>3. Q \in SUBSET LinkedSets
  BY <1>2 DEF Divisions
<1>4. \A A, B \in Q : A # B => A \cap B = {}
  <2>1. \A A \in P \ {a, b} : A \cap (a \cup b) = {}
    BY DivisionFacts
  <2>2. \A A, B \in P \ {a, b} : A # B => A \cap B = {}
    BY DivisionFacts
  <2> QED BY <2>1, <2>2
<1>5. UNION Q = Relations
  <2>1. UNION P = Relations
    BY DEF Divisions
  <2> QED BY <2>1
<1> QED BY <1>3, <1>4, <1>5 DEF Divisions

LEMMA CutDivides ==
  ASSUME NEW P \in Divisions, NEW S \in P, NEW c \in LinkedCuts(S)
  PROVE  /\ (P \ {S}) \cup {c[1], c[2]} \in Divisions
         /\ OneJoin((P \ {S}) \cup {c[1], c[2]}, P)
<1> DEFINE Q == (P \ {S}) \cup {c[1], c[2]}
<1>1. /\ c \in SplitsOf(S) /\ c[1] \in Subproblems /\ c[2] \in Subproblems
      /\ Linked(c[1]) /\ Linked(c[2]) /\ c[1] \cap c[2] = {} /\ c[1] \cup c[2] = S
      /\ c[1] # {} /\ c[2] # {}
  BY DEF LinkedCuts, SplitsOf, Splits, Subproblems
<1>2. S \in Subproblems /\ Linked(S)
  BY DivisionFacts
<1>3. Q \in SUBSET LinkedSets
  BY <1>1 DEF Divisions, LinkedSets
<1>4. \A A \in P \ {S} : A \cap c[1] = {} /\ A \cap c[2] = {}
  BY <1>1, DivisionFacts
<1>5. \A A, B \in Q : A # B => A \cap B = {}
  BY <1>1, <1>4, DivisionFacts
<1>6. UNION Q = Relations
  <2>1. UNION P = Relations
    BY DEF Divisions
  <2> QED BY <1>1, <2>1
<1>7. Joined(c[1], c[2])
  BY <1>1, <1>2, LinkedSplits DEF JoinedSplits
<1>8. c[1] \notin P \ {S} /\ c[2] \notin P \ {S}
  BY <1>1, <1>4
<1>9. P = (Q \ {c[1], c[2]}) \cup {c[1] \cup c[2]}
  BY <1>1, <1>8
<1>10. c[1] # c[2]
  BY <1>1
<1>11. c[1] \in Q /\ c[2] \in Q
  OBVIOUS
<1> HIDE DEF Q
<1>12. OneJoin(Q, P)
  BY <1>7, <1>9, <1>10, <1>11 DEF OneJoin
<1> QED BY <1>3, <1>5, <1>6, <1>12 DEF Divisions, Q

LEMMA JoinShrinks ==
  ASSUME NEW P \in Divisions, NEW Q \in Divisions, OneJoin(P, Q)
  PROVE  /\ IsFiniteSet(P) /\ Cardinality(P) \in Nat
         /\ Cardinality(Q) \in Nat /\ Cardinality(Q) < Cardinality(P)
         /\ Cardinality(P) <= Cardinality(SUBSET Relations)
         /\ Cardinality(SUBSET Relations) \in Nat
<1>0. IsFiniteSet(SUBSET Relations)
  BY RelationsAssumption, FS_SUBSET
<1>1. PICK a, b \in P : a # b /\ Joined(a, b) /\ Q = (P \ {a, b}) \cup {a \cup b}
  BY DEF OneJoin
<1>2. IsFiniteSet(P) /\ Cardinality(P) <= Cardinality(SUBSET Relations)
  BY <1>0, FS_Subset, DivisionFacts
<1>3. IsFiniteSet(P \ {a}) /\ Cardinality(P \ {a}) = Cardinality(P) - 1
  BY <1>1, <1>2, FS_RemoveElement
<1>4. IsFiniteSet((P \ {a}) \ {b}) /\ Cardinality((P \ {a}) \ {b}) = Cardinality(P \ {a}) - 1
  BY <1>1, <1>3, FS_RemoveElement
<1> DEFINE O == (P \ {a}) \ {b}
<1>5. Q = O \cup {a \cup b}
  BY <1>1
<1>6. IsFiniteSet(Q) /\ Cardinality(Q) <= Cardinality(O) + 1
  <2> HIDE DEF O
  <2>1. IsFiniteSet(O)
    BY <1>4 DEF O
  <2>2. IsFiniteSet(O \cup {a \cup b}) /\ (Cardinality(O \cup {a \cup b}) = Cardinality(O) + 1 \/ Cardinality(O \cup {a \cup b}) = Cardinality(O))
    BY <2>1, FS_AddElement
  <2>3. Cardinality(O) \in Nat
    BY <2>1, FS_CardinalityType
  <2> QED BY <1>5, <2>2, <2>3
<1> HIDE DEF O
<1>7. Cardinality(P) \in Nat /\ Cardinality(Q) \in Nat /\ Cardinality(SUBSET Relations) \in Nat
      /\ Cardinality(P \ {a}) \in Nat /\ Cardinality(O) \in Nat
  BY <1>0, <1>2, <1>3, <1>4, <1>6, FS_CardinalityType DEF O
<1>8. Cardinality(O) = Cardinality(P) - 2
  BY <1>3, <1>4, <1>7 DEF O
<1> QED BY <1>2, <1>6, <1>7, <1>8

(* What a join takes away are its two sides. *)
LEMMA DeltaFacts ==
  ASSUME NEW P \in Divisions, NEW Q \in Divisions, OneJoin(P, Q)
  PROVE  Delta(P, Q) \in JoinedSplits
<1>1. PICK a, b \in P : a # b /\ Joined(a, b) /\ Q = (P \ {a, b}) \cup {a \cup b}
  BY DEF OneJoin
<1>2. a \in Subproblems /\ b \in Subproblems /\ a \cap b = {} /\ a # {} /\ b # {}
  BY <1>1, DivisionFacts
<1>3. P \ Q = {a, b}
  BY <1>1, <1>2
<1> DEFINE d == ByValue(P \ Q)
<1>4. P \ Q \in SUBSET (SUBSET Relations)
  BY DivisionFacts
<1>5. d \in Seq(P \ Q) /\ ToSet(d) = {a, b} /\ IsInjective(d)
  BY <1>3, <1>4, ByValueFacts
<1> HIDE DEF d
<1>6. Len(d) \in Nat /\ DOMAIN d = 1..Len(d) /\ ToSet(d) = {d[i] : i \in 1..Len(d)}
  <2>1. ToSet(d) = {d[i] : i \in 1..Len(d)}
    BY <1>5, ToSetFacts
  <2>2. Len(d) \in Nat /\ DOMAIN d = 1..Len(d)
    BY <1>5
  <2> QED BY <2>1, <2>2
<1>7. \E i, j \in 1..Len(d) : i # j
  <2>1. PICK i \in 1..Len(d) : d[i] = a
    BY <1>5, <1>6
  <2>2. PICK j \in 1..Len(d) : d[j] = b
    BY <1>5, <1>6
  <2> QED BY <1>1, <2>1, <2>2
<1>8. 1 \in 1..Len(d) /\ 2 \in 1..Len(d)
  BY <1>6, <1>7
<1>9. d[1] # d[2]
  BY <1>5, <1>6, <1>8 DEF IsInjective
<1>10. d[1] \in {a, b} /\ d[2] \in {a, b}
  BY <1>5, <1>6, <1>8
<1>11. Joined(b, a)
  BY <1>1, <1>2, JoinedSymmetric DEF Subproblems
<1>12. <<d[1], d[2]>> = <<a, b>> \/ <<d[1], d[2]>> = <<b, a>>
  BY <1>9, <1>10
<1>13. <<a, b>> \in JoinedSplits /\ <<b, a>> \in JoinedSplits
  BY <1>1, <1>2, <1>11, SplitsTyped
<1> QED BY <1>12, <1>13 DEF Delta, d

-----------------------------------------------------------------------------
(* What the search knows: for each division but the first the one it was   *)
(* reached from.                                                           *)

Start == IF topDown THEN Top ELSE Bottom
OneStep(P, Q) == IF topDown THEN OneJoin(Q, P) ELSE OneJoin(P, Q)
ParentOK(Q) ==
  /\ "parent" \in DOMAIN known[Q]
  /\ known[Q].parent # {} => known[Q].parent \in DOMAIN known /\ OneStep(known[Q].parent, Q)
  /\ known[Q].parent = {} => Q = Start
HsOK ==
  hs # NoSearch =>
    /\ DOMAIN hs = {"config", "phase", "budget", "leastPathCost", "known"}
    /\ topDown \in BOOLEAN
    /\ DOMAIN known \in SUBSET Divisions
    /\ \A Q \in DOMAIN known : ParentOK(Q)

PathRank ==
  [Q \in DOMAIN known |->
    IF topDown THEN Cardinality(Q) ELSE Cardinality(SUBSET Relations) - Cardinality(Q)]

LEMMA PathRankFacts ==
  ASSUME HsOK, hs # NoSearch
  PROVE  /\ PathRank \in [DOMAIN known -> Nat]
         /\ \A Q \in DOMAIN known : known[Q].parent # {} =>
              known[Q].parent \in DOMAIN known /\ PathRank[known[Q].parent] < PathRank[Q]
<1>0. IsFiniteSet(SUBSET Relations) /\ Cardinality(SUBSET Relations) \in Nat
  BY RelationsAssumption, FS_SUBSET, FS_CardinalityType
<1>1. ASSUME NEW Q \in Divisions
      PROVE  Cardinality(Q) \in Nat /\ Cardinality(SUBSET Relations) - Cardinality(Q) \in Nat
  <2>1. IsFiniteSet(Q) /\ Cardinality(Q) <= Cardinality(SUBSET Relations)
    BY <1>0, FS_Subset, DivisionFacts
  <2> QED BY <1>0, <2>1, FS_CardinalityType
<1>2. \A Q \in DOMAIN known : Q \in Divisions /\ ParentOK(Q)
  BY DEF HsOK
<1>3. PathRank \in [DOMAIN known -> Nat]
  BY <1>1, <1>2 DEF PathRank
<1>4. ASSUME NEW Q \in DOMAIN known, known[Q].parent # {}
      PROVE  known[Q].parent \in DOMAIN known /\ PathRank[known[Q].parent] < PathRank[Q]
  <2> DEFINE P == known[Q].parent
  <2>1. P \in DOMAIN known /\ OneStep(P, Q)
    BY <1>2, <1>4 DEF ParentOK
  <2> HIDE DEF P
  <2>2. P \in Divisions /\ Q \in Divisions
    BY <1>2, <2>1
  <2>3. CASE topDown
    <3>1. Cardinality(P) < Cardinality(Q)
      BY <2>1, <2>2, <2>3, JoinShrinks DEF OneStep
    <3> QED BY <2>1, <2>3, <3>1 DEF PathRank, P
  <2>4. CASE ~topDown
    <3>1. Cardinality(Q) < Cardinality(P)
      BY <2>1, <2>2, <2>4, JoinShrinks DEF OneStep
    <3>2. Cardinality(SUBSET Relations) - Cardinality(P) < Cardinality(SUBSET Relations) - Cardinality(Q)
      BY <1>0, <1>1, <2>2, <3>1
    <3> QED BY <2>1, <2>4, <3>2 DEF PathRank, P
  <2> QED BY <2>3, <2>4
<1> QED BY <1>3, <1>4

PathBody(Q, f) ==
  LET parent == known[Q].parent
  IN  IF parent = {} THEN <<>>
      ELSE IF topDown THEN <<Delta(Q, parent)>> \o f[parent]
                      ELSE f[parent] \o <<Delta(parent, Q)>>
PathStep(f) == \A Q \in DOMAIN known : f[Q] = PathBody(Q, f)

LEMMA PathTyped ==
  ASSUME HsOK, hs # NoSearch, NEW Q \in DOMAIN known, NEW f,
         known[Q].parent # {} => f[known[Q].parent] \in Seq(JoinedSplits)
  PROVE  PathBody(Q, f) \in Seq(JoinedSplits)
<1> DEFINE P == known[Q].parent
<1>0. Q \in Divisions /\ ParentOK(Q) /\ DOMAIN known \in SUBSET Divisions /\ topDown \in BOOLEAN
  BY DEF HsOK
<1>1. CASE P = {}
  <2>1. PathBody(Q, f) = <<>>
    BY <1>1 DEF PathBody
  <2> QED BY <2>1
<1>2. CASE P # {} /\ topDown
  <2>1. P \in Divisions /\ OneJoin(Q, P)
    BY <1>0, <1>2 DEF ParentOK, OneStep
  <2>2. Delta(Q, P) \in JoinedSplits
    BY <1>0, <2>1, DeltaFacts
  <2>3. PathBody(Q, f) = <<Delta(Q, P)>> \o f[P]
    BY <1>2 DEF PathBody
  <2>4. f[P] \in Seq(JoinedSplits) /\ <<Delta(Q, P)>> \in Seq(JoinedSplits)
    BY <1>2, <2>2
  <2> HIDE DEF P
  <2> QED BY <2>3, <2>4, ConcatProperties
<1>3. CASE P # {} /\ ~topDown
  <2>1. P \in Divisions /\ OneJoin(P, Q)
    BY <1>0, <1>3 DEF ParentOK, OneStep
  <2>2. Delta(P, Q) \in JoinedSplits
    BY <1>0, <2>1, DeltaFacts
  <2>3. PathBody(Q, f) = f[P] \o <<Delta(P, Q)>>
    BY <1>3 DEF PathBody
  <2>4. f[P] \in Seq(JoinedSplits) /\ <<Delta(P, Q)>> \in Seq(JoinedSplits)
    BY <1>3, <2>2
  <2> HIDE DEF P
  <2> QED BY <2>3, <2>4, ConcatProperties
<1> QED BY <1>1, <1>2, <1>3

LEMMA PathEquation ==
  ASSUME HsOK, hs # NoSearch, NEW goal
  PROVE  \E f : PathStep(f) /\ PlanTo(goal) = f[goal]
<1> DEFINE D == DOMAIN known
           V == Seq(JoinedSplits)
           up(Q) == known[Q].parent
           G == [Q \in D |-> [f \in [D -> V] |-> PathBody(Q, f)]]
<1>1. PathRank \in [D -> Nat] /\ <<>> \in V
  BY PathRankFacts
<1>2. \A Q \in D : up(Q) # {} => up(Q) \in D /\ PathRank[up(Q)] < PathRank[Q]
  BY PathRankFacts
<1>3. G \in [D -> [[D -> V] -> V]]
  <2>1. ASSUME NEW Q \in D, NEW f \in [D -> V] PROVE PathBody(Q, f) \in V
    <3>1. up(Q) # {} => f[up(Q)] \in Seq(JoinedSplits)
      BY <1>2
    <3> QED BY <3>1, PathTyped
  <2> HIDE DEF D, V
  <2> QED BY <2>1
<1>4. LooksBelow(G, D, V, PathRank)
  <2> SUFFICES ASSUME NEW Q \in D, NEW f \in [D -> V], NEW g \in [D -> V],
                      \A e \in D : PathRank[e] < PathRank[Q] => f[e] = g[e]
               PROVE  G[Q][f] = G[Q][g]
    BY DEF LooksBelow
  <2> HIDE DEF D, V
  <2>1. up(Q) # {} => f[up(Q)] = g[up(Q)]
    BY <1>2
  <2>2. PathBody(Q, f) = PathBody(Q, g)
    BY <2>1 DEF PathBody
  <2> QED BY <2>2
<1>5. Solvable(G, D, V)
  <2>1. Recursion(G, D, V, PathRank)
    BY <1>1, <1>3, <1>4 DEF Recursion
  <2> HIDE DEF G, D, V
  <2> QED BY <2>1, RecursiveFunction
<1>6. PICK h \in [D -> V] : \A Q \in D : h[Q] = G[Q][h]
  BY <1>5 DEF Solvable
<1> DEFINE P(f) == f = [Q \in DOMAIN known |->
        LET parent == known[Q].parent
        IN  IF parent = {} THEN <<>>
            ELSE IF topDown THEN <<Delta(Q, parent)>> \o f[parent]
                            ELSE f[parent] \o <<Delta(parent, Q)>>]
           c == CHOOSE f : P(f)
<1>7. ASSUME NEW f PROVE P(f) <=> f = [Q \in DOMAIN known |-> PathBody(Q, f)]
  BY Zenon DEF PathBody
<1>8. PlanTo(goal) = c[goal]
  BY Zenon DEF PlanTo
<1> HIDE DEF P
<1>9. P(h)
  <2>1. \A Q \in D : h[Q] = PathBody(Q, h)
    BY <1>6
  <2>2. h = [Q \in DOMAIN known |-> PathBody(Q, h)]
    BY <2>1
  <2> QED BY <1>7, <2>2
<1>10. P(c)
  BY <1>9
<1> HIDE DEF c
<1>11. c = [Q \in DOMAIN known |-> PathBody(Q, c)]
  BY <1>7, <1>10
<1>12. PathStep(c)
  BY <1>11 DEF PathStep
<1> QED BY <1>8, <1>12

(* reconstruct_plan_bottom_up(), reconstruct_plan_top_down() *)
LEMMA PlanToFacts ==
  ASSUME HsOK, hs # NoSearch, NEW goal \in DOMAIN known
  PROVE  PlanTo(goal) \in Seq(JoinedSplits)
<1>1. PICK f : PathStep(f) /\ PlanTo(goal) = f[goal]
  BY PathEquation
<1> DEFINE D == DOMAIN known
           Good == {Q \in D : f[Q] \in Seq(JoinedSplits)}
<1>2. ASSUME NEW Q \in D, \A e \in D : PathRank[e] < PathRank[Q] => e \in Good
      PROVE  Q \in Good
  <2>1. known[Q].parent # {} => f[known[Q].parent] \in Seq(JoinedSplits)
    BY <1>2, PathRankFacts
  <2>2. PathBody(Q, f) \in Seq(JoinedSplits)
    BY <2>1, PathTyped
  <2> QED BY <1>1, <2>2 DEF PathStep
<1> HIDE DEF Good
<1>3. Hereditary(D, PathRank, Good)
  BY <1>2 DEF Hereditary
<1>4. PathRank \in [D -> Nat]
  BY PathRankFacts
<1> HIDE DEF D
<1>5. \A Q \in D : Q \in Good
  BY <1>3, <1>4, RankInduction
<1> QED BY <1>1, <1>5 DEF D, Good

LEMMA EndsDivide ==
  ASSUME GraphOK
  PROVE  Top \in Divisions /\ Bottom \in Divisions
<1>1. All \in LinkedSets
  BY AllLinked, SubproblemsFacts DEF LinkedSets
<1>2. Top \in Divisions
  BY <1>1 DEF Top, Divisions, All
<1>3. \A r \in Relations : {r} \in LinkedSets
  BY SingletonLinked DEF LinkedSets
<1>4. Bottom \in SUBSET LinkedSets /\ UNION Bottom = Relations
  BY <1>3 DEF Bottom
<1>5. \A A, B \in Bottom : A # B => A \cap B = {}
  BY DEF Bottom
<1> QED BY <1>2, <1>4, <1>5 DEF Divisions

(* Short of the goal of the top-down search there is something to cut. *)
LEMMA CanCut ==
  ASSUME NEW P \in Divisions, P # Bottom
  PROVE  LET S == ByValue({Q \in P : ~Singleton(Q)})[1] IN S \in P /\ ~Singleton(S)
<1> DEFINE F == {Q \in P : ~Singleton(Q)}
           d == ByValue(F)
<1>1. F # {}
  <2> SUFFICES ASSUME F = {} PROVE P = Bottom
    OBVIOUS
  <2>1. \A A \in P : \E r \in Relations : A = {r}
    BY DEF Singleton
  <2>2. \A r \in Relations : {r} \in P
    <3> SUFFICES ASSUME NEW r \in Relations PROVE {r} \in P
      OBVIOUS
    <3>1. PICK A \in P : r \in A
      BY DivisionFacts
    <3>2. PICK q \in Relations : A = {q}
      BY <2>1
    <3> QED BY <3>1, <3>2
  <2> QED BY <2>1, <2>2 DEF Bottom
<1>2. F \in SUBSET (SUBSET Relations)
  BY DivisionFacts
<1>3. d \in Seq(F) /\ ToSet(d) = F
  BY <1>2, ByValueFacts
<1> HIDE DEF d, F
<1>4. Len(d) \in Nat /\ ToSet(d) = {d[i] : i \in 1..Len(d)}
  <2>1. ToSet(d) = {d[i] : i \in 1..Len(d)}
    BY <1>3, ToSetFacts
  <2> QED BY <1>3, <2>1
<1>5. 1 \in 1..Len(d)
  BY <1>1, <1>3, <1>4
<1>6. d[1] \in F
  BY <1>3, <1>5
<1> QED BY <1>6 DEF d, F

LEMMA SuccessorFacts ==
  ASSUME HsOK, hs # NoSearch, NEW P \in DOMAIN known, P # Goal, NEW s \in Successors(P)
  PROVE  s.parent = P /\ s.state \in Divisions /\ OneStep(P, s.state)
<1>0. P \in Divisions /\ topDown \in BOOLEAN
  BY DEF HsOK
<1>1. CASE topDown
  <2> DEFINE S == ByValue({Q \in P : ~Singleton(Q)})[1]
  <2>1. P # Bottom
    BY <1>1 DEF Goal
  <2>2. S \in P /\ ~Singleton(S)
    BY <1>0, <2>1, CanCut
  <2>3. PICK ss \in Cuttings(P) : s.state = ss.state /\ s.parent = P
    BY <1>1 DEF Successors
  <2>4. Cuttings(P) = {[state |-> (P \ {S}) \cup {c[1], c[2]}, marked |-> S] : c \in ToSet(MinCuts(S))}
    BY DEF Cuttings
  <2> HIDE DEF S
  <2>5. PICK c \in ToSet(MinCuts(S)) : s.state = (P \ {S}) \cup {c[1], c[2]}
    BY <2>3, <2>4
  <2>6. S \in Subproblems /\ Linked(S)
    BY <1>0, <2>2, DivisionFacts
  <2>7. c \in LinkedCuts(S)
    <3>1. MinCuts(S) \in Seq(LinkedCuts(S))
      BY <2>2, <2>6, MinCutsFacts
    <3>2. ToSet(MinCuts(S)) \in SUBSET LinkedCuts(S)
      BY <3>1, ToSetFacts
    <3> QED BY <3>2
  <2> QED BY <1>0, <1>1, <2>2, <2>3, <2>5, <2>7, CutDivides DEF OneStep
<1>2. CASE ~topDown
  <2>1. PICK ss \in Joinings(P, known[P].marked) : s.state = ss.state /\ s.parent = P
    BY <1>2 DEF Successors
  <2>2. PICK p \in P \X P : /\ Lesser(p[1], p[2]) /\ Joined(p[1], p[2])
                            /\ s.state = (P \ {p[1], p[2]}) \cup {p[1] \cup p[2]}
    BY <2>1 DEF Joinings, JoinPairs
  <2> DEFINE a == p[1]
             b == p[2]
  <2>3. a \in P /\ b \in P /\ a # b /\ Joined(a, b) /\ s.state = (P \ {a, b}) \cup {a \cup b}
    BY <2>2 DEF Lesser
  <2> HIDE DEF a, b
  <2>4. OneJoin(P, s.state)
    BY <2>3 DEF OneJoin
  <2>5. s.state \in Divisions
    BY <1>0, <2>3, JoinDivides
  <2> QED BY <1>2, <2>1, <2>4, <2>5 DEF OneStep
<1> QED BY <1>0, <1>1, <1>2

(* push(): the parent is the state explored, or it stays as it was. *)
LEMMA PushedFacts ==
  ASSUME HsOK, hs # NoSearch, NEW s, NEW b
  PROVE  LET e == Pushed(s, b) IN
         /\ "parent" \in DOMAIN e
         /\ e.parent = s.parent \/ (s.state \in DOMAIN known /\ e.parent = known[s.state].parent)
<1> DEFINE old == known[s.state]
           e == Pushed(s, b)
<1>1. CASE s.state \notin DOMAIN known
  <2>1. PICK q : e = Remembered(s, q)
    BY <1>1 DEF Pushed
  <2> QED BY <2>1 DEF Remembered
<1>2. CASE s.state \in DOMAIN known
  <2>1. "parent" \in DOMAIN old
    BY <1>2 DEF HsOK, ParentOK
  <2>2. e = old \/ \E q : e = Decreased(old, s, q)
    BY <1>2 DEF Pushed
  <2> HIDE DEF e, old
  <2>3. CASE e = old
    BY <1>2, <2>1, <2>3 DEF old, e
  <2>4. CASE \E q : e = Decreased(old, s, q)
    <3>1. PICK q : e = Decreased(old, s, q)
      BY <2>4
    <3>2. e = [old EXCEPT !.g = s.g, !.parent = s.parent, !.queue = q]
      BY <3>1 DEF Decreased
    <3>3. "parent" \in DOMAIN e /\ e.parent = s.parent
      BY <2>1, <3>2
    <3> QED BY <3>3 DEF e
  <2> QED BY <2>2, <2>3, <2>4
<1> QED BY <1>1, <1>2

(* Whether subproblems are joined depends on the query graph only. *)
LEMMA SameGraph ==
  ASSUME UNCHANGED graph
  PROVE  /\ Divisions' = Divisions /\ LinkedSets' = LinkedSets /\ JoinedSplits' = JoinedSplits
         /\ \A L, R : Joined(L, R)' <=> Joined(L, R)
         /\ \A P, Q : OneJoin(P, Q)' <=> OneJoin(P, Q)
<1>1. \A L, R : Joined(L, R)' <=> Joined(L, R)
  BY DEF Joined, Neighbors
<1>2. \A S : Linked(S)' <=> Linked(S)
  BY <1>1 DEF Linked
<1>3. LinkedSets' = LinkedSets
  BY <1>2 DEF LinkedSets
<1>4. \A P, Q : OneJoin(P, Q)' <=> OneJoin(P, Q)
  BY <1>1 DEF OneJoin
<1>5. JoinedSplits' = JoinedSplits
  BY <1>1 DEF JoinedSplits
<1> QED BY <1>1, <1>3, <1>4, <1>5 DEF Divisions

LEMMA SameStep ==
  ASSUME UNCHANGED graph, topDown' = topDown
  PROVE  Start' = Start /\ \A P, Q : OneStep(P, Q)' <=> OneStep(P, Q)
BY SameGraph DEF OneStep, Start

LEMMA SearchStarts ==
  ASSUME GraphOK, StartSearch
  PROVE  HsOK'
<1>1. PICK config \in Configurations : hs' = Searching(config)
  BY DEF StartSearch
<1> DEFINE start == IF config.topDown THEN Top ELSE Bottom
           entry == [g |-> 0, h |-> 0, parent |-> {}, marked |-> IF config.topDown THEN All ELSE {0},
                     queue |-> IF config.beam # "none" THEN "beam" ELSE "regular"]
           bound == IF config.upperBound THEN GOOCost + 1 ELSE Infinity
<1>2. hs' = [config |-> config, phase |-> "search", budget |-> config.budget,
             leastPathCost |-> bound, known |-> [P \in {start} |-> entry]]
  BY <1>1 DEF Searching
<1>3. start \in Divisions
  BY EndsDivide
<1>4. config.topDown \in BOOLEAN
  BY ConfigurationsAssumption
<1>5. "parent" \in DOMAIN entry /\ entry.parent = {}
  OBVIOUS
<1> HIDE DEF start, entry, bound
<1>6. /\ DOMAIN hs' = {"config", "phase", "budget", "leastPathCost", "known"}
      /\ hs'.config = config /\ hs'.known = [P \in {start} |-> entry]
  BY <1>2
<1>7. topDown' \in BOOLEAN
  BY <1>4, <1>6 DEF topDown
<1>8. DOMAIN known' = {start} /\ known'[start] = entry
  BY <1>6 DEF known
<1>9. \A Q \in DOMAIN known' : ParentOK(Q)'
  <2>1. Start' = start
    BY <1>6 DEF Start, start, topDown
  <2> QED BY <1>5, <1>8, <2>1 DEF ParentOK
<1>10. Divisions' = Divisions
  BY SameGraph DEF StartSearch
<1> QED BY <1>3, <1>6, <1>7, <1>8, <1>9, <1>10 DEF HsOK

LEMMA ExploreKeeps ==
  ASSUME HsOK, Explore
  PROVE  HsOK'
<1>0. hs # NoSearch
  BY DEF Explore, MaySearch
<1>1. PICK P \in Tops \ {Goal} :
        LET C == Successors(P)
            kept == {s \in C : ~PrunedByCost(s)}
            goals == {s \in kept : s.state = Goal}
            pushed == {s.state : s \in kept}
            after(Q, B) ==
              IF Q \in pushed THEN LET s == CHOOSE s \in kept : s.state = Q IN Pushed(s, s \in B)
              ELSE IF Q = P THEN [known[P] EXCEPT !.queue = "none"] ELSE known[Q]
        IN  \E B \in Beams(C) :
              hs' = [hs EXCEPT
                !.budget = Spent,
                !.leastPathCost = IF hs.config.pruning /\ goals # {} THEN Min({s.g : s \in goals}) ELSE @,
                !.known = [Q \in DOMAIN known \cup pushed |-> after(Q, B)]]
  BY Zenon DEF Explore
<1> DEFINE C == Successors(P)
           kept == {s \in C : ~PrunedByCost(s)}
           goals == {s \in kept : s.state = Goal}
           pushed == {s.state : s \in kept}
           after(Q, B) ==
             IF Q \in pushed THEN LET s == CHOOSE s \in kept : s.state = Q IN Pushed(s, s \in B)
             ELSE IF Q = P THEN [known[P] EXCEPT !.queue = "none"] ELSE known[Q]
<1>2. PICK B \in Beams(C) :
        hs' = [hs EXCEPT
          !.budget = Spent,
          !.leastPathCost = IF hs.config.pruning /\ goals # {} THEN Min({s.g : s \in goals}) ELSE @,
          !.known = [Q \in DOMAIN known \cup pushed |-> after(Q, B)]]
  BY <1>1, Zenon
<1>3. /\ DOMAIN hs = {"config", "phase", "budget", "leastPathCost", "known"} /\ topDown \in BOOLEAN
      /\ DOMAIN known \in SUBSET Divisions
      /\ \A Q \in DOMAIN known : ParentOK(Q)
  BY <1>0 DEF HsOK
<1>4. P \in DOMAIN known /\ P # Goal
  BY DEF Tops, Queued
<1>5. \A s \in kept : s.parent = P /\ s.state \in Divisions /\ OneStep(P, s.state)
  BY <1>0, <1>4, SuccessorFacts
<1>6. ASSUME NEW Q \in DOMAIN known \cup pushed
      PROVE  /\ "parent" \in DOMAIN after(Q, B)
             /\ after(Q, B).parent # {} => after(Q, B).parent \in DOMAIN known /\ OneStep(after(Q, B).parent, Q)
             /\ after(Q, B).parent = {} => Q = Start
  <2>1. CASE Q \in pushed
    <3> DEFINE s == CHOOSE s \in kept : s.state = Q
    <3>1. \E q \in kept : q.state = Q
      BY <2>1
    <3>2. s \in kept /\ s.state = Q
      BY <3>1, Zenon
    <3>3. after(Q, B) = Pushed(s, s \in B)
      BY <2>1
    <3> HIDE DEF s, kept, pushed, after
    <3>4. /\ "parent" \in DOMAIN after(Q, B)
          /\ after(Q, B).parent = P \/ (Q \in DOMAIN known /\ after(Q, B).parent = known[Q].parent)
      BY <1>0, <1>5, <3>2, <3>3, PushedFacts
    <3>5. Q \in DOMAIN known => (known[Q].parent # {} => known[Q].parent \in DOMAIN known /\ OneStep(known[Q].parent, Q))
                                /\ (known[Q].parent = {} => Q = Start)
      BY <1>3 DEF ParentOK
    <3>6. P # {}
      <4>1. P \in Divisions
        BY <1>3, <1>4
      <4>2. All # {}
        BY RelationsAssumption DEF All
      <4> QED BY <4>1, <4>2, DivisionFacts DEF All
    <3> QED BY <1>4, <1>5, <3>2, <3>4, <3>5, <3>6
  <2>2. CASE Q \notin pushed /\ Q = P
    <3>1. after(Q, B) = [known[P] EXCEPT !.queue = "none"]
      BY <2>2
    <3> HIDE DEF after, pushed, kept
    <3>2. "parent" \in DOMAIN known[P]
      BY <1>3, <1>4 DEF ParentOK
    <3>3. "parent" \in DOMAIN after(Q, B) /\ after(Q, B).parent = known[P].parent
      BY <3>1, <3>2
    <3> QED BY <1>3, <1>4, <2>2, <3>3 DEF ParentOK
  <2>3. CASE Q \notin pushed /\ Q # P
    <3>1. after(Q, B) = known[Q] /\ Q \in DOMAIN known
      BY <2>3
    <3> HIDE DEF after, pushed, kept
    <3> QED BY <1>3, <3>1 DEF ParentOK
  <2> QED BY <2>1, <2>2, <2>3
<1>7. pushed \in SUBSET Divisions
  BY <1>5
<1> HIDE DEF after, pushed, kept
<1> DEFINE next == [Q \in DOMAIN known \cup pushed |-> after(Q, B)]
<1>8. /\ DOMAIN hs' = {"config", "phase", "budget", "leastPathCost", "known"}
      /\ hs'.config = hs.config /\ hs'.known = next
  BY <1>2, <1>3
<1>9. topDown' = topDown /\ known' = next
  BY <1>8 DEF topDown, known
<1>10. UNCHANGED graph
  BY DEF Explore
<1>11. DOMAIN known' = DOMAIN known \cup pushed /\ \A Q \in DOMAIN known' : known'[Q] = after(Q, B)
  BY <1>9
<1> HIDE DEF next
<1>12. \A Q \in DOMAIN known' : ParentOK(Q)'
  <2> SUFFICES ASSUME NEW Q \in DOMAIN known' PROVE ParentOK(Q)'
    OBVIOUS
  <2>1. Q \in DOMAIN known \cup pushed /\ known'[Q] = after(Q, B)
    BY <1>11
  <2>2. PICK d : d = after(Q, B)
    OBVIOUS
  <2>3. /\ "parent" \in DOMAIN d
        /\ d.parent # {} => d.parent \in DOMAIN known /\ OneStep(d.parent, Q)
        /\ d.parent = {} => Q = Start
    <3>1. /\ "parent" \in DOMAIN after(Q, B)
          /\ after(Q, B).parent # {} => after(Q, B).parent \in DOMAIN known /\ OneStep(after(Q, B).parent, Q)
          /\ after(Q, B).parent = {} => Q = Start
      BY <1>6, <2>1, Zenon
    <3> QED BY <2>2, <3>1, Zenon
  <2>4. known'[Q] = d
    BY <2>1, <2>2
  <2>5. DOMAIN known \subseteq DOMAIN known'
    BY <1>11
  <2>6. Start' = Start /\ \A P1, P2 : OneStep(P1, P2)' <=> OneStep(P1, P2)
    BY <1>9, <1>10, SameStep
  <2>7. /\ "parent" \in DOMAIN known'[Q]
        /\ known'[Q].parent # {} => known'[Q].parent \in DOMAIN known' /\ OneStep(known'[Q].parent, Q)
        /\ known'[Q].parent = {} => Q = Start'
    BY <2>3, <2>4, <2>5, <2>6
  <2> QED BY <2>6, <2>7 DEF ParentOK
<1>13. DOMAIN known' \in SUBSET Divisions'
  BY <1>3, <1>7, <1>10, <1>11, SameGraph
<1> QED BY <1>3, <1>8, <1>9, <1>12, <1>13 DEF HsOK

LEMMA EndingKeeps ==
  ASSUME HsOK, hs # NoSearch, NEW phase, NEW joins, EndWith(phase, joins)
  PROVE  HsOK'
<1>1. /\ DOMAIN hs = {"config", "phase", "budget", "leastPathCost", "known"} /\ topDown \in BOOLEAN
      /\ DOMAIN known \in SUBSET Divisions
      /\ \A Q \in DOMAIN known : ParentOK(Q)
  BY DEF HsOK
<1>2. hs' = [hs EXCEPT !.phase = phase] /\ graph' = graph
  BY DEF EndWith
<1>3. DOMAIN hs' = DOMAIN hs /\ known' = known /\ topDown' = topDown
  BY <1>1, <1>2 DEF known, topDown
<1>4. \A Q \in DOMAIN known : ParentOK(Q)'
  BY <1>1, <1>2, <1>3, SameStep DEF ParentOK
<1> QED BY <1>1, <1>2, <1>3, <1>4, SameGraph DEF HsOK

(* The subproblems of a state, in the order of their values, as an array.  *)
LEMMA DivisionNodes ==
  ASSUME NEW P \in Divisions
  PROVE  /\ ByValue(P) \in Seq(Subproblems) /\ ToSet(ByValue(P)) = P /\ Nodes(ByValue(P))
         /\ \A i \in 1..Len(ByValue(P)) : Linked(ByValue(P)[i])
<1> DEFINE d == ByValue(P)
<1>1. d \in Seq(P) /\ ToSet(d) = P /\ IsInjective(d)
  BY DivisionFacts, ByValueFacts
<1> HIDE DEF d
<1>2. d \in Seq(Subproblems) /\ \A i \in 1..Len(d) : d[i] \in P /\ Linked(d[i])
  <2>1. \A i \in 1..Len(d) : d[i] \in P
    BY <1>1
  <2>2. P \in SUBSET Subproblems /\ \A A \in P : Linked(A)
    BY DivisionFacts
  <2>3. d \in Seq(Subproblems)
    BY <1>1, <2>2, SeqOfMore
  <2> QED BY <2>1, <2>2, <2>3
<1>3. Nodes(d)
  <2>1. \A i, j \in 1..Len(d) : i # j => d[i] \cap d[j] = {}
    <3> SUFFICES ASSUME NEW i \in 1..Len(d), NEW j \in 1..Len(d), i # j PROVE d[i] \cap d[j] = {}
      OBVIOUS
    <3>1. DOMAIN d = 1..Len(d)
      BY <1>2
    <3>2. d[i] # d[j]
      BY <1>1, <3>1 DEF IsInjective
    <3> QED BY <1>2, <3>2, DivisionFacts
  <2>2. \A r \in Relations : \E i \in 1..Len(d) : r \in d[i]
    <3>1. ToSet(d) = {d[i] : i \in 1..Len(d)}
      BY <1>2, ToSetFacts
    <3>2. \A A \in P : \E i \in 1..Len(d) : d[i] = A
      BY <1>1, <3>1
    <3> QED BY <3>2, DivisionFacts
  <2> QED BY <1>2, <2>1, <2>2 DEF Nodes
<1> QED BY <1>1, <1>2, <1>3 DEF d

-----------------------------------------------------------------------------
(* Sums.  The elements may be taken in any order. *)

Numbers(f, S) == IsFiniteSet(S) /\ \A x \in S : f[x] \in Nat
Some(s) == CHOOSE x \in s : TRUE
SumBody(f, s, h) == IF s = {} THEN 0 ELSE f[Some(s)] + h[s \ {Some(s)}]
SumStep(f, S, h) == \A s \in SUBSET S : h[s] = SumBody(f, s, h)
SubsetRank(S) == [s \in SUBSET S |-> Cardinality(s)]

LEMMA SubsetRankFacts ==
  ASSUME NEW S, IsFiniteSet(S)
  PROVE  /\ SubsetRank(S) \in [SUBSET S -> Nat]
         /\ \A s \in SUBSET S : \A x \in s :
              s \ {x} \in SUBSET S /\ SubsetRank(S)[s \ {x}] < SubsetRank(S)[s]
<1>1. ASSUME NEW s \in SUBSET S PROVE IsFiniteSet(s) /\ Cardinality(s) \in Nat
  BY FS_Subset, FS_CardinalityType
<1>2. ASSUME NEW s \in SUBSET S, NEW x \in s PROVE Cardinality(s \ {x}) < Cardinality(s)
  BY <1>1, FS_RemoveElement
<1> QED BY <1>1, <1>2 DEF SubsetRank

LEMMA SumEquation ==
  ASSUME NEW S, NEW f, Numbers(f, S)
  PROVE  \E h \in [SUBSET S -> Nat] : SumStep(f, S, h) /\ SumFunctionOnSet(f, S) = h[S]
<1> DEFINE D == SUBSET S
           G == [s \in D |-> [h \in [D -> Nat] |-> SumBody(f, s, h)]]
           rank == SubsetRank(S)
<1>0. IsFiniteSet(S) /\ \A x \in S : f[x] \in Nat
  BY DEF Numbers
<1>1. \A s \in D : s # {} => Some(s) \in s /\ Some(s) \in S
  BY DEF Some
<1>2. rank \in [D -> Nat] /\ \A s \in D : \A x \in s : s \ {x} \in D /\ rank[s \ {x}] < rank[s]
  BY <1>0, SubsetRankFacts
<1> HIDE DEF rank
<1>3. G \in [D -> [[D -> Nat] -> Nat]]
  <2>1. ASSUME NEW s \in D, NEW h \in [D -> Nat] PROVE SumBody(f, s, h) \in Nat
    <3>1. s # {} => f[Some(s)] \in Nat /\ h[s \ {Some(s)}] \in Nat
      BY <1>0, <1>1
    <3> QED BY <3>1 DEF SumBody
  <2> HIDE DEF D
  <2> QED BY <2>1
<1>4. LooksBelow(G, D, Nat, rank)
  <2> SUFFICES ASSUME NEW s \in D, NEW h \in [D -> Nat], NEW g \in [D -> Nat],
                      \A e \in D : rank[e] < rank[s] => h[e] = g[e]
               PROVE  G[s][h] = G[s][g]
    BY DEF LooksBelow
  <2>1. s # {} => h[s \ {Some(s)}] = g[s \ {Some(s)}]
    BY <1>1, <1>2
  <2>2. SumBody(f, s, h) = SumBody(f, s, g)
    BY <2>1 DEF SumBody
  <2> HIDE DEF D
  <2> QED BY <2>2
<1>5. Solvable(G, D, Nat)
  <2>1. Recursion(G, D, Nat, rank)
    BY <1>2, <1>3, <1>4 DEF Recursion
  <2> HIDE DEF G, D
  <2> QED BY <2>1, RecursiveFunction
<1>6. PICK g \in [D -> Nat] : \A s \in D : g[s] = G[s][g]
  BY <1>5 DEF Solvable
<1> DEFINE P(h) == h = [s \in SUBSET S |-> IF s = {} THEN 0
                                           ELSE LET x == CHOOSE x \in s : TRUE IN f[x] + h[s \ {x}]]
           c == CHOOSE h : P(h)
<1>7. ASSUME NEW h PROVE P(h) <=> h = [s \in SUBSET S |-> SumBody(f, s, h)]
  BY Zenon DEF SumBody, Some
<1>8. SumFunctionOnSet(f, S) = c[S]
  BY Zenon DEF SumFunctionOnSet, FoldFunctionOnSet, MapThenFoldSet
<1> HIDE DEF P
<1>9. P(g)
  <2>1. \A s \in D : g[s] = SumBody(f, s, g)
    BY <1>6
  <2>2. g = [s \in SUBSET S |-> SumBody(f, s, g)]
    BY <2>1
  <2> QED BY <1>7, <2>2
<1>10. P(c)
  BY <1>9
<1> HIDE DEF c
<1>11. c = [s \in SUBSET S |-> SumBody(f, s, c)]
  BY <1>7, <1>10
<1>12. SumStep(f, S, c)
  BY <1>11 DEF SumStep
<1>13. c \in [D -> Nat]
  <2> DEFINE Good == {s \in D : c[s] \in Nat}
  <2>1. ASSUME NEW s \in D, \A e \in D : rank[e] < rank[s] => e \in Good
        PROVE  s \in Good
    <3>1. s # {} => c[s \ {Some(s)}] \in Nat /\ f[Some(s)] \in Nat
      BY <1>0, <1>1, <1>2, <2>1
    <3>2. c[s] = SumBody(f, s, c)
      BY <1>12 DEF SumStep
    <3> QED BY <3>1, <3>2 DEF SumBody
  <2> HIDE DEF Good
  <2>2. Hereditary(D, rank, Good)
    BY <2>1 DEF Hereditary
  <2> HIDE DEF D
  <2>3. \A s \in D : s \in Good
    BY <1>2, <2>2, RankInduction
  <2>4. \A s \in D : c[s] \in Nat
    BY <2>3 DEF Good
  <2>5. c = [s \in D |-> SumBody(f, s, c)]
    BY <1>11 DEF D
  <2> QED BY <2>4, <2>5
<1> QED BY <1>8, <1>12, <1>13

Alike(f, k, S) == \A x \in S : f[x] = k[x]

SumSteps(f, k, S, T, g, h) ==
  T \in SUBSET S /\ Numbers(f, S) /\ Alike(f, k, T) /\ SumStep(f, S, g) /\ SumStep(k, T, h)

(* The sum over a set does not depend on the set it is a subset of. *)
LEMMA SumsAgree ==
  ASSUME NEW f, NEW k, NEW S, NEW T, NEW g, NEW h, SumSteps(f, k, S, T, g, h)
  PROVE  \A s \in SUBSET T : g[s] = h[s]
<1> DEFINE Good == {s \in SUBSET T : g[s] = h[s]}
           rank == SubsetRank(T)
<1>a. T \in SUBSET S /\ Numbers(f, S) /\ Alike(f, k, T) /\ SumStep(f, S, g) /\ SumStep(k, T, h)
  BY DEF SumSteps
<1>0. IsFiniteSet(T)
  BY <1>a, FS_Subset DEF Numbers
<1>1. rank \in [SUBSET T -> Nat] /\ \A s \in SUBSET T : \A x \in s : s \ {x} \in SUBSET T /\ rank[s \ {x}] < rank[s]
  BY <1>0, SubsetRankFacts
<1> HIDE DEF rank
<1>2. ASSUME NEW s \in SUBSET T, \A e \in SUBSET T : rank[e] < rank[s] => e \in Good
      PROVE  s \in Good
  <2>1. g[s] = SumBody(f, s, g) /\ h[s] = SumBody(k, s, h)
    BY <1>a DEF SumStep
  <2>2. s # {} => Some(s) \in s /\ Some(s) \in T /\ g[s \ {Some(s)}] = h[s \ {Some(s)}]
    <3>1. s # {} => Some(s) \in s
      BY DEF Some
    <3> QED BY <3>1, <1>1, <1>2
  <2>3. s # {} => f[Some(s)] = k[Some(s)]
    BY <1>a, <2>2 DEF Alike
  <2> QED BY <2>1, <2>2, <2>3 DEF SumBody
<1> HIDE DEF Good
<1>3. Hereditary(SUBSET T, rank, Good)
  BY <1>2 DEF Hereditary
<1>4. \A s \in SUBSET T : s \in Good
  BY <1>1, <1>3, RankInduction
<1> QED BY <1>4 DEF Good

LEMMA SumTyped ==
  ASSUME NEW S, NEW f, Numbers(f, S)
  PROVE  SumFunctionOnSet(f, S) \in Nat
<1>1. PICK h \in [SUBSET S -> Nat] : SumFunctionOnSet(f, S) = h[S]
  BY SumEquation
<1> QED BY <1>1

LEMMA SumSame ==
  ASSUME NEW S, NEW f, NEW k, Numbers(f, S), \A x \in S : f[x] = k[x]
  PROVE  SumFunctionOnSet(f, S) = SumFunctionOnSet(k, S)
<1>1. PICK g : SumStep(f, S, g) /\ SumFunctionOnSet(f, S) = g[S]
  BY SumEquation
<1>2. Numbers(k, S)
  BY DEF Numbers
<1>3. PICK h : SumStep(k, S, h) /\ SumFunctionOnSet(k, S) = h[S]
  BY <1>2, SumEquation
<1>4. SumSteps(f, k, S, S, g, h)
  BY <1>1, <1>3 DEF SumSteps, Alike
<1>5. \A s \in SUBSET S : g[s] = h[s]
  BY <1>4, SumsAgree
<1> QED BY <1>1, <1>3, <1>5

LEMMA SumEmpty ==
  ASSUME NEW f
  PROVE  SumFunctionOnSet(f, {}) = 0
<1>1. Numbers(f, {})
  BY FS_EmptySet DEF Numbers
<1>2. PICK h : SumStep(f, {}, h) /\ SumFunctionOnSet(f, {}) = h[{}]
  BY <1>1, SumEquation
<1> QED BY <1>2 DEF SumStep, SumBody

LEMMA SumOfSome ==
  ASSUME NEW S, NEW f, Numbers(f, S), S # {}
  PROVE  SumFunctionOnSet(f, S) = f[Some(S)] + SumFunctionOnSet(f, S \ {Some(S)})
<1>0. PICK T : T = S \ {Some(S)}
  OBVIOUS
<1>1. PICK g : SumStep(f, S, g) /\ SumFunctionOnSet(f, S) = g[S]
  BY SumEquation
<1>2. Numbers(f, T)
  BY <1>0, FS_Subset DEF Numbers
<1>3. PICK h : SumStep(f, T, h) /\ SumFunctionOnSet(f, T) = h[T]
  BY <1>2, SumEquation
<1>4. SumSteps(f, f, S, T, g, h)
  BY <1>0, <1>1, <1>3 DEF SumSteps, Alike
<1>5. \A s \in SUBSET T : g[s] = h[s]
  BY <1>4, SumsAgree
<1>6. g[S] = f[Some(S)] + g[T]
  <2>1. g[S] = SumBody(f, S, g)
    BY <1>1 DEF SumStep
  <2> QED BY <1>0, <2>1 DEF SumBody
<1> QED BY <1>0, <1>1, <1>3, <1>5, <1>6

LEMMA SumOf ==
  ASSUME NEW S, NEW f, Numbers(f, S), NEW x \in S
  PROVE  SumFunctionOnSet(f, S) = f[x] + SumFunctionOnSet(f, S \ {x})
<1> DEFINE Sum(s) == SumFunctionOnSet(f, s)
           Good == {s \in SUBSET S : \A y \in s : Sum(s) = f[y] + Sum(s \ {y})}
           rank == SubsetRank(S)
<1>0. IsFiniteSet(S) /\ \A y \in S : f[y] \in Nat
  BY DEF Numbers
<1>1. rank \in [SUBSET S -> Nat] /\ \A s \in SUBSET S : \A y \in s : s \ {y} \in SUBSET S /\ rank[s \ {y}] < rank[s]
  BY <1>0, SubsetRankFacts
<1>2. \A s \in SUBSET S : Numbers(f, s)
  BY <1>0, FS_Subset DEF Numbers
<1>3. \A s \in SUBSET S : Sum(s) \in Nat
  BY <1>2, SumTyped
<1>4. ASSUME NEW s \in SUBSET S, s # {} PROVE Some(s) \in s /\ Sum(s) = f[Some(s)] + Sum(s \ {Some(s)})
  BY <1>2, <1>4, SumOfSome DEF Some
<1> HIDE DEF rank, Sum
<1>5. ASSUME NEW s \in SUBSET S, \A e \in SUBSET S : rank[e] < rank[s] => e \in Good
      PROVE  s \in Good
  <2> SUFFICES ASSUME NEW y \in s PROVE Sum(s) = f[y] + Sum(s \ {y})
    OBVIOUS
  <2> DEFINE c == Some(s)
  <2>1. c \in s /\ Sum(s) = f[c] + Sum(s \ {c})
    BY <1>4
  <2> HIDE DEF c
  <2>2. CASE c # y
    <3>1. s \ {c} \in Good /\ s \ {y} \in Good
      BY <1>1, <1>5, <2>1
    <3>2. Sum(s \ {c}) = f[y] + Sum((s \ {c}) \ {y})
      BY <2>2, <3>1
    <3>3. Sum(s \ {y}) = f[c] + Sum((s \ {y}) \ {c})
      BY <2>1, <2>2, <3>1
    <3>4. (s \ {c}) \ {y} = (s \ {y}) \ {c}
      OBVIOUS
    <3> DEFINE u == Sum((s \ {y}) \ {c})
    <3>5. u \in Nat /\ f[c] \in Nat /\ f[y] \in Nat
      BY <1>0, <1>3, <2>1
    <3>6. Sum(s) = f[c] + (f[y] + u) /\ Sum(s \ {y}) = f[c] + u
      BY <2>1, <3>2, <3>3, <3>4
    <3> HIDE DEF u
    <3> QED BY <3>5, <3>6
  <2> QED BY <2>1, <2>2
<1> HIDE DEF Good
<1>6. Hereditary(SUBSET S, rank, Good)
  BY <1>5 DEF Hereditary
<1>7. \A s \in SUBSET S : s \in Good
  BY <1>1, <1>6, RankInduction
<1> QED BY <1>7 DEF Good, Sum

(* A smaller function has a smaller sum. *)
LEMMA SumLess ==
  ASSUME NEW S, NEW f, NEW k, Numbers(f, S), Numbers(k, S), \A x \in S : f[x] <= k[x]
  PROVE  SumFunctionOnSet(f, S) <= SumFunctionOnSet(k, S)
<1> DEFINE F(s) == SumFunctionOnSet(f, s)
           K(s) == SumFunctionOnSet(k, s)
           Good == {s \in SUBSET S : F(s) <= K(s)}
           rank == SubsetRank(S)
<1>0. IsFiniteSet(S) /\ \A y \in S : f[y] \in Nat /\ k[y] \in Nat
  BY DEF Numbers
<1>1. rank \in [SUBSET S -> Nat] /\ \A s \in SUBSET S : \A y \in s : s \ {y} \in SUBSET S /\ rank[s \ {y}] < rank[s]
  BY <1>0, SubsetRankFacts
<1>2. \A s \in SUBSET S : Numbers(f, s) /\ Numbers(k, s)
  BY <1>0, FS_Subset DEF Numbers
<1>3. \A s \in SUBSET S : F(s) \in Nat /\ K(s) \in Nat
  BY <1>2, SumTyped
<1>4. \A s \in SUBSET S : \A x \in s : F(s) = f[x] + F(s \ {x}) /\ K(s) = k[x] + K(s \ {x})
  BY <1>2, SumOf
<1>5. F({}) = 0 /\ K({}) = 0
  BY SumEmpty
<1> HIDE DEF rank, F, K
<1>6. ASSUME NEW s \in SUBSET S, \A e \in SUBSET S : rank[e] < rank[s] => e \in Good
      PROVE  s \in Good
  <2>1. CASE s = {}
    BY <1>5, <2>1
  <2>2. CASE s # {}
    <3>1. PICK x \in s : TRUE
      BY <2>2
    <3>2. s \ {x} \in Good
      BY <1>1, <1>6, <3>1
    <3>3. F(s) = f[x] + F(s \ {x}) /\ K(s) = k[x] + K(s \ {x})
      BY <1>4, <3>1
    <3>4. F(s \ {x}) \in Nat /\ K(s \ {x}) \in Nat /\ f[x] \in Nat /\ k[x] \in Nat /\ f[x] <= k[x]
      BY <1>0, <1>3, <3>1
    <3> QED BY <3>2, <3>3, <3>4
  <2> QED BY <2>1, <2>2
<1> HIDE DEF Good
<1>7. Hereditary(SUBSET S, rank, Good)
  BY <1>6 DEF Hereditary
<1>8. S \in Good
  BY <1>1, <1>7, RankInduction
<1> QED BY <1>8 DEF Good, F, K

-----------------------------------------------------------------------------
(* The joins of a plan, one by one, turn one partition of the query into   *)
(* another.  They are counted with a weight; left[i] is the weight of the  *)
(* joins after the first i, or more.                                       *)

Partitions ==
  {P \in SUBSET Subproblems : (\A A, B \in P : A # B => A \cap B = {}) /\ UNION P = Relations}

JoinsTo(P, p, Q) ==
  /\ p \in Splits
  /\ p[1] \in P /\ p[2] \in P /\ Q = (P \ {p[1], p[2]}) \cup {p[1] \cup p[2]}

Weights == [Subproblems -> Nat]
Both(p) == p[1] \cup p[2]

Route(s, between, left, weight) ==
  /\ s \in Seq(Splits)
  /\ between \in [0..Len(s) -> Partitions] /\ left \in [0..Len(s) -> Nat]
  /\ \A i \in 1..Len(s) :
       JoinsTo(between[i - 1], s[i], between[i]) /\ left[i - 1] = weight[Both(s[i])] + left[i]

Leads(s, P, Q, bound, weight) ==
  \E between, left :
    /\ Route(s, between, left, weight)
    /\ between[0] = P /\ between[Len(s)] = Q /\ left[0] <= bound

LEMMA BothTyped ==
  ASSUME NEW p \in Splits
  PROVE  Both(p) \in Subproblems /\ p[1] \in Subproblems /\ p[2] \in Subproblems
         /\ p[1] # p[2] /\ p[1] # {} /\ p[2] # {} /\ p[1] \cap p[2] = {} /\ p = <<p[1], p[2]>>
BY SplitPair DEF Both, Subproblems

LEMMA PartitionsFinite ==
  ASSUME NEW P \in Partitions
  PROVE  IsFiniteSet(P) /\ P \in SUBSET Subproblems
<1>1. IsFiniteSet(SUBSET Relations)
  BY RelationsAssumption, FS_SUBSET
<1> QED BY <1>1, FS_Subset DEF Partitions, Subproblems

LEMMA JoinsPartition ==
  ASSUME NEW P \in Partitions, NEW p, NEW Q, JoinsTo(P, p, Q)
  PROVE  Q \in Partitions /\ Q \ {Both(p)} = (P \ {p[1]}) \ {p[2]} /\ Both(p) \in Q
<1>1. /\ p \in Splits /\ p[1] \in P /\ p[2] \in P /\ Q = (P \ {p[1], p[2]}) \cup {Both(p)}
      /\ Both(p) = p[1] \cup p[2]
  BY DEF JoinsTo, Both
<1>2. Both(p) \in Subproblems /\ p[1] # p[2] /\ p[1] # {} /\ p[2] # {}
  BY <1>1, BothTyped
<1>3. P \in SUBSET Subproblems /\ UNION P = Relations /\ \A A, B \in P : A # B => A \cap B = {}
  BY DEF Partitions
<1>4. UNION Q = Relations
  BY <1>1, <1>3
<1>5. \A A \in P \ {p[1], p[2]} : A \cap Both(p) = {}
  BY <1>1, <1>3
<1> DEFINE O == P \ {p[1], p[2]}
<1>6. \A A, B \in Q : A # B => A \cap B = {}
  <2>1. Q = O \cup {Both(p)}
    BY <1>1
  <2>2. \A A, B \in O : A # B => A \cap B = {}
    BY <1>3
  <2>3. \A A \in O : A \cap Both(p) = {} /\ Both(p) \cap A = {}
    BY <1>5
  <2> HIDE DEF O
  <2> QED BY <2>1, <2>2, <2>3
<1>7. Both(p) \notin P \ {p[1], p[2]}
  BY <1>1, <1>2, <1>5
<1> QED BY <1>1, <1>2, <1>3, <1>4, <1>6, <1>7 DEF Partitions

LEMMA LeadsNowhere ==
  ASSUME NEW P \in Partitions, NEW weight \in Weights
  PROVE  Leads(<<>>, P, P, 0, weight)
<1> DEFINE between == [k \in 0..0 |-> P]
           left == [k \in 0..0 |-> 0]
<1>1. Len(<<>>) = 0 /\ <<>> \in Seq(Splits) /\ 0 \in 0..0 /\ 1..0 = {}
  OBVIOUS
<1>2. between \in [0..0 -> Partitions] /\ left \in [0..0 -> Nat] /\ between[0] = P /\ left[0] = 0
  BY <1>1
<1> HIDE DEF between, left
<1>3. Route(<<>>, between, left, weight)
  BY <1>1, <1>2 DEF Route
<1> QED BY <1>1, <1>2, <1>3 DEF Leads

LEMMA LeadsMore ==
  ASSUME NEW s, NEW P, NEW Q, NEW weight, NEW b \in Int, NEW c \in Int, Leads(s, P, Q, b, weight), b <= c
  PROVE  Leads(s, P, Q, c, weight)
<1>1. PICK between, left : /\ Route(s, between, left, weight)
                           /\ between[0] = P /\ between[Len(s)] = Q /\ left[0] <= b
  BY DEF Leads
<1>2. left[0] \in Nat
  BY <1>1 DEF Route
<1>3. left[0] <= c
  BY <1>1, <1>2
<1> QED BY <1>1, <1>3 DEF Leads

(* One more join at the end. *)
LEMMA LeadsOn ==
  ASSUME NEW s, NEW P, NEW Q, NEW R, NEW p, NEW weight \in Weights, NEW b \in Nat,
         Leads(s, P, Q, b, weight), JoinsTo(Q, p, R)
  PROVE  Leads(s \o <<p>>, P, R, b + weight[Both(p)], weight)
<1>1. PICK between, left : /\ Route(s, between, left, weight)
                           /\ between[0] = P /\ between[Len(s)] = Q /\ left[0] <= b
  BY DEF Leads
<1> DEFINE n == Len(s)
           w == weight[Both(p)]
           t == s \o <<p>>
           more == [k \in 0..(n + 1) |-> IF k = n + 1 THEN R ELSE between[k]]
           rest == [k \in 0..(n + 1) |-> IF k = n + 1 THEN left[n] ELSE left[k] + w]
<1>2. /\ s \in Seq(Splits) /\ n \in Nat
      /\ between \in [0..n -> Partitions] /\ left \in [0..n -> Nat]
      /\ \A i \in 1..n : JoinsTo(between[i - 1], s[i], between[i]) /\ left[i - 1] = weight[Both(s[i])] + left[i]
  BY <1>1 DEF Route
<1>3. p \in Splits /\ Both(p) \in Subproblems /\ w \in Nat
  BY BothTyped DEF JoinsTo, Weights
<1>4. t \in Seq(Splits) /\ Len(t) = n + 1 /\ t[n + 1] = p /\ \A i \in 1..n : t[i] = s[i]
  BY <1>2, <1>3
<1>5. Q \in Partitions /\ R \in Partitions
  <2>1. Q \in Partitions
    BY <1>1, <1>2
  <2> QED BY <2>1, JoinsPartition
<1> HIDE DEF t, w, n
<1>6. more \in [0..(n + 1) -> Partitions] /\ rest \in [0..(n + 1) -> Nat]
  <2>1. \A k \in 0..(n + 1) : k # n + 1 => k \in 0..n
    BY <1>2
  <2>2. n \in 0..n
    BY <1>2
  <2>3. \A k \in 0..(n + 1) : (IF k = n + 1 THEN R ELSE between[k]) \in Partitions
    BY <1>2, <1>5, <2>1
  <2>4. \A k \in 0..(n + 1) : (IF k = n + 1 THEN left[n] ELSE left[k] + w) \in Nat
    BY <1>2, <1>3, <2>1, <2>2
  <2> QED BY <2>3, <2>4
<1>7. ASSUME NEW i \in 1..(n + 1)
      PROVE  JoinsTo(more[i - 1], t[i], more[i]) /\ rest[i - 1] = weight[Both(t[i])] + rest[i]
  <2>1. CASE i = n + 1
    <3>1. i - 1 = n /\ n \in 0..(n + 1) /\ n + 1 \in 0..(n + 1) /\ n # n + 1
      BY <1>2, <2>1
    <3>2. more[n] = between[n] /\ more[n + 1] = R /\ rest[n] = left[n] + w /\ rest[n + 1] = left[n]
      BY <3>1
    <3>3. left[n] \in Nat
      BY <1>2
    <3>4. between[n] = Q
      BY <1>1 DEF n
    <3>5. rest[n] = w + rest[n + 1]
      BY <1>3, <3>2, <3>3
    <3> HIDE DEF more, rest
    <3> QED BY <1>4, <2>1, <3>1, <3>2, <3>4, <3>5 DEF w
  <2>2. CASE i # n + 1
    <3>1. i \in 1..n /\ i - 1 \in 0..n /\ i \in 0..n /\ i - 1 \in 0..(n + 1) /\ i \in 0..(n + 1) /\ i - 1 # n + 1
      BY <1>2, <2>2
    <3>2. more[i - 1] = between[i - 1] /\ more[i] = between[i] /\ rest[i - 1] = left[i - 1] + w /\ rest[i] = left[i] + w
      BY <2>2, <3>1
    <3>3. left[i - 1] = weight[Both(s[i])] + left[i] /\ left[i] \in Nat /\ left[i - 1] \in Nat
      BY <1>2, <3>1
    <3>6. s[i] \in Splits
      BY <1>2, <3>1 DEF n
    <3>4. weight[Both(s[i])] \in Nat
      BY <3>6, BothTyped DEF Weights
    <3>5. rest[i - 1] = weight[Both(s[i])] + rest[i]
      BY <1>3, <3>2, <3>3, <3>4
    <3> HIDE DEF more, rest
    <3> QED BY <1>2, <1>4, <3>1, <3>2, <3>5
  <2> QED BY <2>1, <2>2
<1>8. more[0] = P /\ more[n + 1] = R /\ rest[0] <= b + w
  <2>1. 0 \in 0..(n + 1) /\ 0 # n + 1 /\ n + 1 \in 0..(n + 1) /\ 0 \in 0..n
    BY <1>2
  <2>2. more[0] = between[0] /\ more[n + 1] = R /\ rest[0] = left[0] + w /\ left[0] \in Nat
    BY <1>2, <2>1
  <2> QED BY <1>1, <1>3, <2>2
<1> HIDE DEF more, rest
<1>9. Route(t, more, rest, weight)
  BY <1>4, <1>6, <1>7 DEF Route
<1> QED BY <1>4, <1>8, <1>9 DEF Leads, t, w

(* One more join at the beginning. *)
LEMMA LeadsFrom ==
  ASSUME NEW s, NEW P, NEW Q, NEW R, NEW p, NEW weight \in Weights, NEW b \in Nat,
         NEW O \in Partitions, JoinsTo(O, p, P), Leads(s, P, Q, b, weight)
  PROVE  Leads(<<p>> \o s, O, Q, b + weight[Both(p)], weight)
<1>1. PICK between, left : /\ Route(s, between, left, weight)
                           /\ between[0] = P /\ between[Len(s)] = Q /\ left[0] <= b
  BY DEF Leads
<1> DEFINE n == Len(s)
           w == weight[Both(p)]
           t == <<p>> \o s
           more == [k \in 0..(n + 1) |-> IF k = 0 THEN O ELSE between[k - 1]]
           rest == [k \in 0..(n + 1) |-> IF k = 0 THEN w + left[0] ELSE left[k - 1]]
<1>2. /\ s \in Seq(Splits) /\ n \in Nat
      /\ between \in [0..n -> Partitions] /\ left \in [0..n -> Nat]
      /\ \A i \in 1..n : JoinsTo(between[i - 1], s[i], between[i]) /\ left[i - 1] = weight[Both(s[i])] + left[i]
  BY <1>1 DEF Route
<1>3. p \in Splits /\ Both(p) \in Subproblems /\ w \in Nat
  BY BothTyped DEF JoinsTo, Weights
<1>4. t \in Seq(Splits) /\ Len(t) = n + 1 /\ t[1] = p /\ \A i \in 2..(n + 1) : t[i] = s[i - 1]
  BY <1>2, <1>3
<1> HIDE DEF t, w, n
<1>6. more \in [0..(n + 1) -> Partitions] /\ rest \in [0..(n + 1) -> Nat]
  <2>1. \A k \in 0..(n + 1) : k # 0 => k - 1 \in 0..n
    BY <1>2
  <2>2. 0 \in 0..n
    BY <1>2
  <2>3. \A k \in 0..(n + 1) : (IF k = 0 THEN O ELSE between[k - 1]) \in Partitions
    BY <1>2, <2>1
  <2>4. \A k \in 0..(n + 1) : (IF k = 0 THEN w + left[0] ELSE left[k - 1]) \in Nat
    BY <1>2, <1>3, <2>1, <2>2
  <2> QED BY <2>3, <2>4
<1>7. ASSUME NEW i \in 1..(n + 1)
      PROVE  JoinsTo(more[i - 1], t[i], more[i]) /\ rest[i - 1] = weight[Both(t[i])] + rest[i]
  <2>1. CASE i = 1
    <3>1. i - 1 = 0 /\ 0 \in 0..(n + 1) /\ 1 \in 0..(n + 1)
      BY <1>2, <2>1
    <3>2. more[0] = O /\ more[1] = between[0] /\ rest[0] = w + left[0] /\ rest[1] = left[0]
      BY <3>1
    <3> HIDE DEF more, rest
    <3> QED BY <1>1, <1>4, <2>1, <3>1, <3>2 DEF w
  <2>2. CASE i # 1
    <3>1. PICK j \in 1..n : j = i - 1
      BY <1>2, <2>2
    <3>2. i - 1 # 0 /\ i # 0 /\ i - 1 \in 0..(n + 1) /\ i \in 0..(n + 1) /\ i \in 2..(n + 1)
      BY <1>2, <2>2
    <3>3. more[j] = between[j - 1] /\ more[i] = between[j] /\ rest[j] = left[j - 1] /\ rest[i] = left[j]
      BY <3>1, <3>2
    <3>4. t[i] = s[j]
      BY <1>4, <3>1, <3>2
    <3> HIDE DEF more, rest
    <3> QED BY <1>2, <3>1, <3>3, <3>4
  <2> QED BY <2>1, <2>2
<1>8. more[0] = O /\ more[n + 1] = Q /\ rest[0] <= b + w
  <2>1. 0 \in 0..(n + 1) /\ n + 1 # 0 /\ n + 1 \in 0..(n + 1) /\ 0 \in 0..n /\ (n + 1) - 1 = n
    BY <1>2
  <2>2. more[0] = O /\ more[n + 1] = between[n] /\ rest[0] = w + left[0] /\ left[0] \in Nat
    BY <1>2, <2>1
  <2>3. between[n] = Q
    BY <1>1 DEF n
  <2> QED BY <1>1, <1>3, <2>2, <2>3
<1> HIDE DEF more, rest
<1>9. Route(t, more, rest, weight)
  BY <1>4, <1>6, <1>7 DEF Route
<1> QED BY <1>4, <1>8, <1>9 DEF Leads, t, w

(* The first join is done. *)
LEMMA LeadsAfter ==
  ASSUME NEW s, NEW P, NEW Q, NEW weight \in Weights, NEW b \in Nat, Leads(s, P, Q, b, weight), s # <<>>
  PROVE  /\ s \in Seq(Splits) /\ P \in Partitions
         /\ \E O \in Partitions, c \in Nat :
              JoinsTo(P, s[1], O) /\ weight[Both(s[1])] + c <= b /\ Leads(Tail(s), O, Q, c, weight)
<1>1. PICK between, left : /\ Route(s, between, left, weight)
                           /\ between[0] = P /\ between[Len(s)] = Q /\ left[0] <= b
  BY DEF Leads
<1> DEFINE n == Len(s) - 1
           t == Tail(s)
           more == [k \in 0..n |-> between[k + 1]]
           rest == [k \in 0..n |-> left[k + 1]]
<1>2. /\ s \in Seq(Splits) /\ n \in Nat /\ Len(s) = n + 1
      /\ between \in [0..(n + 1) -> Partitions] /\ left \in [0..(n + 1) -> Nat]
      /\ \A i \in 1..(n + 1) : JoinsTo(between[i - 1], s[i], between[i]) /\ left[i - 1] = weight[Both(s[i])] + left[i]
  BY <1>1 DEF Route
<1>3. t \in Seq(Splits) /\ Len(t) = n /\ \A i \in 1..n : t[i] = s[i + 1]
  BY <1>2
<1>4. \A k \in 0..n : k + 1 \in 0..(n + 1) /\ k + 1 \in 1..(n + 1)
  BY <1>2
<1> HIDE DEF t, n
<1>5. more \in [0..n -> Partitions] /\ rest \in [0..n -> Nat]
  <2>1. \A k \in 0..n : between[k + 1] \in Partitions /\ left[k + 1] \in Nat
    BY <1>2, <1>4
  <2> QED BY <2>1
<1>6. ASSUME NEW i \in 1..n
      PROVE  JoinsTo(more[i - 1], t[i], more[i]) /\ rest[i - 1] = weight[Both(t[i])] + rest[i]
  <2>1. i \in 0..n /\ i - 1 \in 0..n /\ i + 1 \in 1..(n + 1) /\ (i + 1) - 1 = i /\ (i - 1) + 1 = i
    BY <1>2
  <2>2. more[i - 1] = between[i] /\ more[i] = between[i + 1] /\ rest[i - 1] = left[i] /\ rest[i] = left[i + 1]
    BY <2>1
  <2>3. JoinsTo(between[(i + 1) - 1], s[i + 1], between[i + 1]) /\ left[(i + 1) - 1] = weight[Both(s[i + 1])] + left[i + 1]
    BY <1>2, <2>1
  <2>4. t[i] = s[i + 1]
    BY <1>3
  <2> HIDE DEF more, rest
  <2> QED BY <2>1, <2>2, <2>3, <2>4
<1>7. more[0] = between[1] /\ more[n] = Q /\ rest[0] = left[1]
  <2>1. 0 \in 0..n /\ n \in 0..n /\ 0 + 1 = 1
    BY <1>2
  <2>2. between[n + 1] = Q
    BY <1>1, <1>2
  <2> QED BY <2>1, <2>2
<1>8. 1 \in 1..(n + 1) /\ 1 \in 0..(n + 1) /\ 0 \in 0..(n + 1) /\ 1 - 1 = 0
  BY <1>2
<1>9. JoinsTo(P, s[1], between[1]) /\ left[0] = weight[Both(s[1])] + left[1] /\ left[1] \in Nat /\ between[1] \in Partitions
      /\ P \in Partitions
  <2>1. JoinsTo(between[1 - 1], s[1], between[1]) /\ left[1 - 1] = weight[Both(s[1])] + left[1]
    BY <1>2, <1>8
  <2> QED BY <1>1, <1>2, <1>8, <2>1
<1> HIDE DEF more, rest
<1>10. Route(t, more, rest, weight)
  BY <1>3, <1>5, <1>6 DEF Route
<1>11. rest[0] <= left[1]
  BY <1>7, <1>9
<1>12. Leads(t, between[1], Q, left[1], weight)
  BY <1>3, <1>7, <1>10, <1>11 DEF Leads
<1> QED BY <1>1, <1>2, <1>9, <1>12 DEF t

LEMMA LeadsEnd ==
  ASSUME NEW P, NEW Q, NEW b, NEW weight, Leads(<<>>, P, Q, b, weight)
  PROVE  P = Q
<1>1. Len(<<>>) = 0
  OBVIOUS
<1> QED BY <1>1 DEF Leads

LEMMA TopFacts == Top \in Partitions /\ Bottom \in Partitions
<1>1. Top \in Partitions
  BY SubproblemsFacts DEF Top, All, Partitions
<1>2. Bottom \in Partitions
  BY DEF Bottom, Partitions, Subproblems
<1> QED BY <1>1, <1>2

(* The weights of the joins of a plan add up. *)
JoinSum(s, weight) == SumFunction([i \in 1..Len(s) |-> weight[Both(s[i])]])

LEMMA JoinSumTyped ==
  ASSUME NEW s \in Seq(Splits), NEW weight \in Weights
  PROVE  /\ JoinSum(s, weight) = SumFunctionOnSet([i \in 1..Len(s) |-> weight[Both(s[i])]], 1..Len(s))
         /\ Numbers([i \in 1..Len(s) |-> weight[Both(s[i])]], 1..Len(s))
         /\ JoinSum(s, weight) \in Nat
<1> DEFINE f == [i \in 1..Len(s) |-> weight[Both(s[i])]]
<1>1. \A i \in 1..Len(s) : f[i] \in Nat
  <2>1. \A i \in 1..Len(s) : s[i] \in Splits
    OBVIOUS
  <2> QED BY <2>1, BothTyped DEF Weights
<1>2. IsFiniteSet(1..Len(s))
  <2>1. 1 \in Int /\ Len(s) \in Int
    OBVIOUS
  <2> QED BY <2>1, FS_Interval
<1>3. JoinSum(s, weight) = SumFunctionOnSet(f, 1..Len(s))
  BY DEF JoinSum, SumFunction
<1> HIDE DEF f
<1>4. Numbers(f, 1..Len(s))
  BY <1>1, <1>2 DEF Numbers
<1> QED BY <1>3, <1>4, SumTyped DEF f

LEMMA JoinsLead ==
  ASSUME NEW s \in Seq(Splits), NEW weight \in Weights, NEW between \in [0..Len(s) -> Partitions],
         \A i \in 1..Len(s) : JoinsTo(between[i - 1], s[i], between[i])
  PROVE  Leads(s, between[0], between[Len(s)], JoinSum(s, weight), weight)
<1> DEFINE n == Len(s)
           f == [i \in 1..n |-> weight[Both(s[i])]]
           left == [k \in 0..n |-> SumFunctionOnSet(f, (k + 1)..n)]
<1>1. n \in Nat /\ Numbers(f, 1..n) /\ JoinSum(s, weight) = SumFunctionOnSet(f, 1..n)
  BY JoinSumTyped
<1>2. \A i \in 1..n : f[i] = weight[Both(s[i])]
  OBVIOUS
<1> HIDE DEF n, f
<1>3. ASSUME NEW k \in 0..n PROVE Numbers(f, (k + 1)..n) /\ SumFunctionOnSet(f, (k + 1)..n) \in Nat
  <2>1. (k + 1)..n \in SUBSET (1..n)
    BY <1>1
  <2>2. Numbers(f, (k + 1)..n)
    BY <1>1, <2>1, FS_Subset DEF Numbers
  <2> QED BY <2>2, SumTyped
<1>4. left \in [0..n -> Nat]
  BY <1>3
<1>5. ASSUME NEW i \in 1..n PROVE left[i - 1] = weight[Both(s[i])] + left[i]
  <2>1. i - 1 \in 0..n /\ i \in 0..n /\ (i - 1) + 1 = i /\ i \in i..n /\ (i..n) \ {i} = (i + 1)..n
    BY <1>1
  <2>2. left[i - 1] = SumFunctionOnSet(f, i..n) /\ left[i] = SumFunctionOnSet(f, (i + 1)..n)
    BY <2>1
  <2>3. Numbers(f, i..n)
    BY <1>3, <2>1
  <2>4. SumFunctionOnSet(f, i..n) = f[i] + SumFunctionOnSet(f, (i + 1)..n)
    <3>1. PICK T : T = i..n
      OBVIOUS
    <3>2. PICK R : R = (i + 1)..n
      OBVIOUS
    <3>3. i \in T /\ Numbers(f, T) /\ T \ {i} = R
      BY <2>1, <2>3, <3>1, <3>2
    <3>4. SumFunctionOnSet(f, T) = f[i] + SumFunctionOnSet(f, R)
      BY <3>3, SumOf
    <3> QED BY <3>1, <3>2, <3>4
  <2> QED BY <1>2, <2>2, <2>4
<1>6. left[0] <= JoinSum(s, weight)
  <2>1. 0 \in 0..n /\ 0 + 1 = 1
    BY <1>1
  <2>2. left[0] = SumFunctionOnSet(f, 1..n) /\ left[0] \in Nat
    BY <1>3, <2>1
  <2> QED BY <1>1, <2>2
<1> HIDE DEF left
<1>7. Route(s, between, left, weight)
  BY <1>4, <1>5 DEF Route, n
<1> QED BY <1>6, <1>7 DEF Leads

-----------------------------------------------------------------------------
(* A line is a sequence of joins, each of which adds one relation.         *)

(* A is built, and nothing else. *)
Grown(A) == {A} \cup {{r} : r \in Relations \ A}

LEMMA GrownFacts ==
  /\ \A A \in Subproblems : Grown(A) \in Partitions
  /\ \A r \in Relations : Grown({r}) = Bottom
  /\ Grown(All) = Top
<1>1. ASSUME NEW A \in Subproblems PROVE Grown(A) \in Partitions
  <2>1. A \subseteq Relations /\ A # {}
    BY DEF Subproblems
  <2>2. Grown(A) \subseteq Subproblems
    BY <2>1 DEF Grown, Subproblems
  <2>3. \A X, Y \in Grown(A) : X # Y => X \cap Y = {}
    BY DEF Grown
  <2>4. UNION Grown(A) = Relations
    <3>1. ASSUME NEW r \in Relations PROVE r \in UNION Grown(A)
      <4>1. CASE r \in A
        BY <4>1 DEF Grown
      <4>2. CASE r \notin A
        <5>1. {r} \in Grown(A)
          BY <4>2 DEF Grown
        <5> QED BY <5>1
      <4> QED BY <4>1, <4>2
    <3>2. UNION Grown(A) \subseteq Relations
      BY <2>1 DEF Grown
    <3> QED BY <3>1, <3>2
  <2> QED BY <2>2, <2>3, <2>4 DEF Partitions
<1>2. ASSUME NEW r \in Relations PROVE Grown({r}) = Bottom
  BY DEF Grown, Bottom
<1>3. Grown(All) = Top
  BY DEF Grown, Top, All
<1> QED BY <1>1, <1>2, <1>3

LEMMA LineJoin ==
  ASSUME NEW A \in Subproblems, NEW r \in Relations \ A, NEW p, p = <<A, {r}>> \/ p = <<{r}, A>>
  PROVE  JoinsTo(Grown(A), p, Grown(A \cup {r}))
<1>1. p \in Splits /\ p[1] \cup p[2] = A \cup {r} /\ {p[1], p[2]} = {A, {r}}
  <2>1. {r} \in Subproblems /\ A \cap {r} = {} /\ {r} \cap A = {}
    BY DEF Subproblems
  <2>2. CASE p = <<A, {r}>>
    BY <2>1, <2>2, SplitsTyped
  <2>3. CASE p = <<{r}, A>>
    BY <2>1, <2>3, SplitsTyped
  <2> QED BY <2>2, <2>3
<1>2. p[1] \in Grown(A) /\ p[2] \in Grown(A)
  BY <1>1 DEF Grown
<1>3. Grown(A \cup {r}) = (Grown(A) \ {A, {r}}) \cup {A \cup {r}}
  <2> DEFINE X == {{q} : q \in Relations \ A}
             Y == {{q} : q \in Relations \ (A \cup {r})}
  <2>1. Y = X \ {{r}}
    OBVIOUS
  <2>2. A \notin X /\ A # {}
    BY DEF Subproblems
  <2> QED BY <2>1, <2>2 DEF Grown
<1> QED BY <1>1, <1>2, <1>3 DEF JoinsTo

LEMMA LineGrows ==
  ASSUME NEW s \in LineStates
  PROVE  \A k \in 1..Len(s) : Both(s[k]) \in Subproblems /\ Cardinality(Both(s[k])) = k + 1
<1>0. s \in Seq(Splits) /\ Len(s) \in Nat /\ Line(s)
  BY DEF LineStates
<1> DEFINE U(k) == Both(s[k])
           Good == {k \in 0..Len(s) : k # 0 => IsFiniteSet(U(k)) /\ Cardinality(U(k)) = k + 1}
<1>1. \A k \in 1..Len(s) : s[k] \in Splits /\ U(k) \in Subproblems
  <2>1. \A k \in 1..Len(s) : s[k] \in Splits
    BY <1>0
  <2> QED BY <2>1, BothTyped
<1>2. 0 \in Good
  BY <1>0
<1>3. ASSUME NEW k \in 1..Len(s), k - 1 \in Good PROVE k \in Good
  <2>1. CASE k = 1
    <3>1. Singleton(s[1][1]) /\ Singleton(s[1][2]) /\ s[1] \in Splits
      BY <1>0, <1>1, <2>1 DEF Line
    <3>2. PICK a \in Relations, b \in Relations : s[1][1] = {a} /\ s[1][2] = {b}
      BY <3>1 DEF Singleton
    <3>3. {a} # {b}
      BY <3>1, <3>2, BothTyped
    <3>4. U(1) = {a} \cup {b} /\ b \notin {a}
      BY <3>2, <3>3 DEF Both
    <3>5. PICK S : S = {a}
      OBVIOUS
    <3>6. IsFiniteSet(S) /\ Cardinality(S) = 1 /\ b \notin S
      BY <3>4, <3>5, FS_Singleton
    <3>7. IsFiniteSet(S \cup {b}) /\ Cardinality(S \cup {b}) = Cardinality(S) + 1
      BY <3>6, FS_AddElement
    <3>8. U(k) = S \cup {b} /\ k + 1 = 1 + 1
      BY <2>1, <3>4, <3>5
    <3> HIDE DEF U
    <3>9. IsFiniteSet(U(k)) /\ Cardinality(U(k)) = k + 1
      BY <3>6, <3>7, <3>8
    <3>10. k \in 0..Len(s)
      BY <1>0
    <3> QED BY <3>9, <3>10
  <2>2. CASE k # 1
    <3>1. PICK i \in 1..(Len(s) - 1) : i = k - 1
      BY <1>0, <2>2
    <3>2. i + 1 = k /\ i \in 1..Len(s) /\ i \in 0..Len(s) /\ k \in 0..Len(s)
      BY <1>0, <3>1
    <3>3. Continues(s[i], s[k])
      BY <1>0, <3>1, <3>2 DEF Line
    <3>4. PICK r \in Relations : /\ r \notin U(i)
                                 /\ s[k] = <<U(i), {r}>> \/ s[k] = <<{r}, U(i)>>
      BY <3>3 DEF Continues, Both
    <3>5. U(k) = U(i) \cup {r}
      BY <3>4 DEF Both
    <3>6. IsFiniteSet(U(i)) /\ Cardinality(U(i)) = i + 1
      BY <1>3, <3>1, <3>2
    <3> HIDE DEF U
    <3>7. IsFiniteSet(U(i) \cup {r}) /\ Cardinality(U(i) \cup {r}) = (i + 1) + 1
      BY <3>4, <3>6, FS_AddElement
    <3> QED BY <3>2, <3>5, <3>7
  <2> QED BY <2>1, <2>2
<1> HIDE DEF Good
<1>4. \A k \in 0..Len(s) : k \in Good
  <2>1. Inductive(Len(s), Good)
    BY <1>2, <1>3 DEF Inductive
  <2> QED BY <1>0, <2>1, UpTo
<1>5. \A k \in 1..Len(s) : Cardinality(U(k)) = k + 1
  BY <1>0, <1>4 DEF Good
<1> QED BY <1>1, <1>5

LEMMA LineLeads ==
  ASSUME NEW s \in LineStates, NEW weight \in Weights
  PROVE  Leads(s, Bottom, Top, JoinSum(s, weight), weight)
<1>0. s \in Seq(Splits) /\ Len(s) \in Nat /\ Line(s) /\ Len(s) = N - 1 /\ N \in Nat
  BY NFacts DEF LineStates
<1> DEFINE n == Len(s)
           between == [k \in 0..n |-> IF k = 0 THEN Bottom ELSE Grown(Both(s[k]))]
<1>1. \A k \in 1..n : s[k] \in Splits /\ Both(s[k]) \in Subproblems /\ Cardinality(Both(s[k])) = k + 1
  <2>1. \A k \in 1..n : s[k] \in Splits
    BY <1>0
  <2> QED BY <2>1, LineGrows
<1> HIDE DEF n
<1>2. between \in [0..n -> Partitions]
  <2>1. \A k \in 0..n : k # 0 => k \in 1..n
    BY <1>0
  <2>2. \A k \in 0..n : (IF k = 0 THEN Bottom ELSE Grown(Both(s[k]))) \in Partitions
    BY <1>1, <2>1, GrownFacts, TopFacts
  <2> QED BY <2>2
<1>3. ASSUME NEW i \in 1..n PROVE JoinsTo(between[i - 1], s[i], between[i])
  <2>1. i - 1 \in 0..n /\ i \in 0..n /\ i # 0
    BY <1>0 DEF n
  <2>2. between[i] = Grown(Both(s[i]))
    BY <2>1
  <2>3. CASE i = 1
    <3>1. Singleton(s[1][1]) /\ Singleton(s[1][2]) /\ s[1] \in Splits
      BY <1>0, <1>1, <2>3 DEF Line, n
    <3>2. PICK a \in Relations, b \in Relations : s[1][1] = {a} /\ s[1][2] = {b}
      BY <3>1 DEF Singleton
    <3>3. {a} # {b} /\ s[1] = <<{a}, {b}>>
      BY <3>1, <3>2, BothTyped
    <3>4. {a} \in Subproblems /\ b \in Relations \ {a}
      BY <3>3 DEF Subproblems
    <3>5. JoinsTo(Grown({a}), s[1], Grown({a} \cup {b}))
      BY <3>3, <3>4, LineJoin
    <3>6. between[i - 1] = Grown({a}) /\ Both(s[1]) = {a} \cup {b}
      BY <2>1, <2>3, <3>2, GrownFacts DEF Both
    <3> HIDE DEF between
    <3> QED BY <2>2, <2>3, <3>5, <3>6
  <2>4. CASE i # 1
    <3>1. PICK j \in 1..(Len(s) - 1) : j = i - 1
      BY <1>0, <2>4 DEF n
    <3>2. j + 1 = i /\ j \in 1..n /\ j \in 0..n /\ j # 0
      BY <1>0, <3>1 DEF n
    <3>3. between[i - 1] = Grown(Both(s[j]))
      BY <3>1, <3>2
    <3>4. Continues(s[j], s[i])
      BY <1>0, <3>1, <3>2 DEF Line
    <3>5. PICK r \in Relations : /\ r \notin Both(s[j])
                                 /\ s[i] = <<Both(s[j]), {r}>> \/ s[i] = <<{r}, Both(s[j])>>
      BY <3>4 DEF Continues, Both
    <3>6. Both(s[i]) = Both(s[j]) \cup {r}
      BY <3>5 DEF Both
    <3>7. Both(s[j]) \in Subproblems /\ r \in Relations \ Both(s[j])
      BY <1>1, <3>2, <3>5
    <3>8. JoinsTo(Grown(Both(s[j])), s[i], Grown(Both(s[j]) \cup {r}))
      BY <3>5, <3>7, LineJoin
    <3> HIDE DEF between
    <3> QED BY <2>2, <3>3, <3>6, <3>8
  <2> QED BY <2>3, <2>4
<1>4. between[0] = Bottom /\ between[n] = Top
  <2>1. 0 \in 0..n /\ n \in 0..n /\ n \in Nat
    BY <1>0 DEF n
  <2>2. CASE n = 0
    <3>1. N = 1
      BY <1>0, <2>2 DEF n
    <3>2. Relations = {0}
      BY <3>1, NFacts
    <3>3. Bottom = Top
      BY <3>2 DEF Bottom, Top, All
    <3> QED BY <2>1, <2>2, <3>3
  <2>3. CASE n # 0
    <3>1. n \in 1..n
      BY <2>1, <2>3
    <3>2. Cardinality(Both(s[n])) = N /\ Both(s[n]) \in Subproblems
      BY <1>0, <1>1, <3>1 DEF n
    <3>3. Both(s[n]) = All
      <4>1. IsFiniteSet(Relations) /\ Cardinality(Relations) = N /\ Both(s[n]) \subseteq Relations
        BY <3>2, NFacts DEF Subproblems, N
      <4> QED BY <3>2, <4>1, FS_Subset DEF All
    <3>4. between[n] = Grown(Both(s[n]))
      BY <2>1, <2>3
    <3> QED BY <2>1, <3>3, <3>4, GrownFacts
  <2> QED BY <2>2, <2>3
<1> HIDE DEF between
<1>5. Leads(s, between[0], between[n], JoinSum(s, weight), weight)
  BY <1>0, <1>2, <1>3, JoinsLead DEF n
<1> QED BY <1>4, <1>5

-----------------------------------------------------------------------------
(* What the heuristic search counts, and how it finds a join again.        *)

ActionWeights == [S \in Subproblems |-> ActionCost(S)]

LEMMA ActionWeightsFacts ==
  ASSUME CardOK
  PROVE  /\ card \in Weights /\ ActionWeights \in Weights /\ card[All] \in Nat
         /\ \A S \in Subproblems : ActionWeights[S] = IF S = All THEN 0 ELSE card[S]
<1>1. card \in Weights /\ card[All] \in Nat
  BY SubproblemsFacts DEF CardOK, Weights
<1>2. \A S \in Subproblems : ActionCost(S) \in Nat
  BY <1>1 DEF ActionCost, Weights
<1> QED BY <1>1, <1>2 DEF ActionWeights, ActionCost, Weights

LEMMA DivisionsPartition == Divisions \subseteq Partitions
BY DEF Divisions, Partitions, LinkedSets

(* What the join has made, and how it is found again.                      *)
LEMMA DeltaJoins ==
  ASSUME NEW P \in Divisions, NEW Q \in Divisions, OneJoin(P, Q)
  PROVE  JoinsTo(P, Delta(P, Q), Q) /\ Both(Delta(P, Q)) = UNION (Q \ P)
<1>1. PICK a, b \in P : a # b /\ Joined(a, b) /\ Q = (P \ {a, b}) \cup {a \cup b}
  BY DEF OneJoin
<1>2. a \in Subproblems /\ b \in Subproblems /\ a \cap b = {} /\ a # {} /\ b # {}
  BY <1>1, DivisionFacts
<1>3. P \ Q = {a, b} /\ Q \ P = {a \cup b}
  <2>1. a \cup b \notin P
    BY <1>1, <1>2, DivisionFacts
  <2> QED BY <1>1, <1>2, <2>1
<1>4. Delta(P, Q) \in Splits
  BY DeltaFacts DEF JoinedSplits
<1> DEFINE d == ByValue(P \ Q)
<1>5. P \ Q \in SUBSET (SUBSET Relations)
  BY DivisionFacts
<1>6. d \in Seq(P \ Q)
  BY <1>5, ByValueFacts
<1>7. Delta(P, Q) = <<d[1], d[2]>>
  BY DEF Delta
<1>8. ToSet(d) = {a, b} /\ IsInjective(d)
  BY <1>3, <1>5, ByValueFacts
<1> HIDE DEF d
<1>9. Len(d) \in Nat /\ DOMAIN d = 1..Len(d) /\ ToSet(d) = {d[i] : i \in 1..Len(d)}
  <2>1. ToSet(d) = {d[i] : i \in 1..Len(d)}
    BY <1>6, ToSetFacts
  <2> QED BY <1>6, <2>1
<1>10. PICK i \in 1..Len(d), j \in 1..Len(d) : d[i] = a /\ d[j] = b
  <2>1. (\E i \in 1..Len(d) : d[i] = a) /\ \E j \in 1..Len(d) : d[j] = b
    BY <1>8, <1>9
  <2> QED BY <2>1
<1>11. 1 \in 1..Len(d) /\ 2 \in 1..Len(d)
  BY <1>1, <1>9, <1>10
<1>12. d[1] \in {a, b} /\ d[2] \in {a, b} /\ d[1] # d[2]
  <2>1. d[1] # d[2]
    BY <1>8, <1>9, <1>11 DEF IsInjective
  <2>2. d[1] \in ToSet(d) /\ d[2] \in ToSet(d)
    BY <1>9, <1>11
  <2> QED BY <1>8, <2>1, <2>2
<1> DEFINE p == Delta(P, Q)
<1>13. {p[1], p[2]} = {a, b} /\ p[1] \cup p[2] = a \cup b /\ p[1] \in P /\ p[2] \in P
  <2>1. p[1] = d[1] /\ p[2] = d[2]
    BY <1>7
  <2> HIDE DEF p
  <2> QED BY <1>1, <1>12, <2>1
<1> HIDE DEF p
<1>14. Q = (P \ {p[1], p[2]}) \cup {p[1] \cup p[2]}
  BY <1>1, <1>13
<1>15. p[1] \cup p[2] = UNION (Q \ P)
  BY <1>3, <1>13
<1>16. p \in Splits
  BY <1>4 DEF p
<1>17. JoinsTo(P, p, Q) /\ Both(p) = UNION (Q \ P)
  BY <1>13, <1>14, <1>15, <1>16 DEF JoinsTo, Both
<1> QED BY <1>17 DEF p

-----------------------------------------------------------------------------
(* GOO                                                                     *)

LEMMA GOOFromLeads ==
  ASSUME GraphOK, CardOK, NEW nodes, Nodes(nodes), NEW weight \in Weights
  PROVE  Leads(GOOFrom(nodes), ToSet(nodes), Top, JoinSum(GOOFrom(nodes), weight), weight)
<1> DEFINE n == Len(nodes) - 1
           s == GOOFrom(nodes)
<1>1. PICK f : GOOStep(nodes, f) /\ s = [i \in 1..n |-> BestPair(f[i - 1])]
  BY GOOEquation
<1>2. n \in Nat
  <2>1. PICK r \in Relations : TRUE
    BY RelationsAssumption
  <2>2. \E i \in 1..Len(nodes) : r \in nodes[i]
    BY DEF Nodes
  <2>3. Len(nodes) \in Nat
    BY DEF Nodes
  <2> QED BY <2>2, <2>3
<1>3. s \in Seq(Splits)
  BY GOOFromFacts, SeqOfMore DEF JoinedSplits
<1>4. Len(s) = n
  <2> HIDE DEF n, s
  <2> QED BY <1>1, <1>2
<1> DEFINE Good == {k \in 0..n : Nodes(f[k]) /\ Len(f[k]) = n + 1 - k}
<1>5. Inductive(n, Good)
  <2>1. 0 \in Good
    <3>1. f[0] = nodes /\ Len(nodes) = n + 1 /\ 0 \in 0..n
      BY <1>1, <1>2 DEF GOOStep
    <3> QED BY <3>1, <1>2
  <2>2. ASSUME NEW k \in 1..n, k - 1 \in Good PROVE k \in Good
    <3>1. Nodes(f[k - 1]) /\ Len(f[k - 1]) = n + 1 - (k - 1) /\ k - 1 \in 0..n /\ k \in 0..n
      BY <2>2, <1>2
    <3>2. Len(f[k - 1]) > 1
      BY <3>1, <1>2
    <3>3. f[k] = Merged(f[k - 1])
      BY <1>1, <3>1 DEF GOOStep
    <3>4. Nodes(f[k]) /\ Len(f[k]) = Len(f[k - 1]) - 1
      BY <3>1, <3>2, <3>3, MergedFacts
    <3>5. Len(f[k]) = n + 1 - k
      BY <3>1, <3>4, <1>2
    <3> QED BY <3>1, <3>4, <3>5
  <2> HIDE DEF Good
  <2> QED BY <2>1, <2>2 DEF Inductive
<1>6. \A k \in 0..n : Nodes(f[k]) /\ Len(f[k]) = n + 1 - k
  <2>1. \A k \in 0..n : k \in Good
    <3> HIDE DEF Good, n
    <3> QED BY <1>2, <1>5, UpTo
  <2> QED BY <2>1
<1>7. f[0] = nodes /\ \A k \in 1..n : f[k] = Merged(f[k - 1])
  BY <1>1, <1>2 DEF GOOStep
<1>8. ASSUME NEW q, Nodes(q) PROVE ToSet(q) \in Partitions
  <2>1. q \in Seq(Subproblems)
    BY <1>8 DEF Nodes
  <2>2. ToSet(q) = {q[i] : i \in 1..Len(q)} /\ ToSet(q) \in SUBSET Subproblems
    BY <2>1, ToSetFacts
  <2>3. \A A, B \in ToSet(q) : A # B => A \cap B = {}
    BY <1>8, <2>2 DEF Nodes
  <2>4. UNION ToSet(q) = Relations
    <3>1. \A r \in Relations : \E A \in ToSet(q) : r \in A
      BY <1>8, <2>2 DEF Nodes
    <3> QED BY <2>2, <3>1 DEF Subproblems
  <2> QED BY <2>2, <2>3, <2>4 DEF Partitions
<1> DEFINE between == [k \in 0..n |-> ToSet(f[k])]
<1> HIDE DEF n, s
<1>9. between \in [0..n -> Partitions]
  BY <1>6, <1>8
<1>10. ASSUME NEW i \in 1..n PROVE JoinsTo(between[i - 1], s[i], between[i])
  <2>1. i - 1 \in 0..n /\ i \in 0..n
    BY <1>2
  <2> DEFINE q == f[i - 1]
  <2>2. Nodes(q) /\ Len(q) > 1 /\ f[i] = Merged(q) /\ s[i] = BestPair(q)
    BY <1>1, <1>2, <1>6, <1>7, <2>1
  <2>3. between[i - 1] = ToSet(q) /\ between[i] = ToSet(f[i])
    BY <2>1
  <2> HIDE DEF q, between
  <2>4. ToSet(f[i]) = (ToSet(q) \ {s[i][1], s[i][2]}) \cup {s[i][1] \cup s[i][2]}
    BY <2>2, MergedFacts
  <2>5. s[i] \in Splits /\ \E a, b \in 1..Len(q) : s[i] = <<q[a], q[b]>>
    BY <2>2, BestPairFacts DEF JoinedSplits
  <2>6. q \in Seq(Subproblems)
    BY <2>2 DEF Nodes
  <2>7. ToSet(q) = {q[k] : k \in 1..Len(q)}
    BY <2>6, ToSetFacts
  <2>8. s[i][1] \in ToSet(q) /\ s[i][2] \in ToSet(q)
    BY <2>5, <2>7
  <2> QED BY <2>3, <2>4, <2>5, <2>8 DEF JoinsTo
<1>11. between[0] = ToSet(nodes) /\ between[n] = Top
  <2>1. 0 \in 0..n /\ n \in 0..n
    BY <1>2
  <2>2. Nodes(f[n]) /\ Len(f[n]) = 1
    <3>1. Nodes(f[n]) /\ Len(f[n]) = n + 1 - n
      BY <1>6, <2>1
    <3>2. n + 1 - n = 1
      BY <1>2
    <3> QED BY <3>1, <3>2
  <2>3. ToSet(f[n]) = Top
    <3>1. f[n] \in Seq(Subproblems)
      BY <2>2 DEF Nodes
    <3>2. ToSet(f[n]) = {f[n][i] : i \in 1..Len(f[n])} /\ ToSet(f[n]) \in SUBSET Subproblems
      BY <3>1, ToSetFacts
    <3>3. ToSet(f[n]) = {f[n][1]}
      BY <2>2, <3>2
    <3>4. f[n][1] = All
      <4>1. \A r \in Relations : r \in f[n][1]
        BY <2>2 DEF Nodes
      <4>2. f[n][1] \in Subproblems
        BY <3>2, <3>3
      <4>3. f[n][1] \subseteq Relations
        BY <4>2 DEF Subproblems
      <4> QED BY <4>1, <4>3 DEF All
    <3> QED BY <3>3, <3>4 DEF Top
  <2> QED BY <1>7, <2>1, <2>3
<1> HIDE DEF between
<1>12. Leads(s, between[0], between[n], JoinSum(s, weight), weight)
  BY <1>3, <1>4, <1>9, <1>10, JoinsLead
<1> QED BY <1>11, <1>12 DEF s

LEMMA GOOLeads ==
  ASSUME GraphOK, CardOK
  PROVE  GOOCost \in Nat /\ Leads(GOO, Bottom, Top, GOOCost, ActionWeights)
<1> DEFINE nodes == [i \in 1..N |-> {i - 1}]
<1>1. \A i \in 1..N : i - 1 \in Relations
  BY NFacts
<1>2. nodes \in Seq(Subproblems) /\ Len(nodes) = N
  <2>1. \A i \in 1..N : {i - 1} \in Subproblems
    BY <1>1, SingletonLinked
  <2> QED BY <2>1, NFacts, IsASeq
<1>3. \A i, j \in 1..N : i # j => nodes[i] \cap nodes[j] = {}
  BY NFacts
<1>4. \A r \in Relations : r + 1 \in 1..N /\ r \in nodes[r + 1]
  BY NFacts
<1>5. \A i \in 1..N : nodes[i] = {i - 1}
  OBVIOUS
<1>6. GOO = GOOFrom(nodes)
  BY DEF GOO
<1> HIDE DEF nodes
<1>7. Nodes(nodes)
  BY <1>2, <1>3, <1>4 DEF Nodes
<1>8. ToSet(nodes) = Bottom
  <2>1. ToSet(nodes) = {nodes[i] : i \in 1..N}
    <3>1. ToSet(nodes) = {nodes[i] : i \in 1..Len(nodes)}
      BY <1>2, ToSetFacts
    <3> QED BY <1>2, <3>1
  <2>2. \A i \in 1..N : \E r \in Relations : nodes[i] = {r}
    BY <1>1, <1>5
  <2>3. \A r \in Relations : \E i \in 1..N : nodes[i] = {r}
    <3> SUFFICES ASSUME NEW r \in Relations PROVE \E i \in 1..N : nodes[i] = {r}
      OBVIOUS
    <3>1. r \in Nat /\ r + 1 \in 1..N
      BY <1>4, NFacts
    <3>2. (r + 1) - 1 = r
      BY <3>1
    <3> QED BY <1>5, <3>1, <3>2
  <2>4. ToSet(nodes) \subseteq Bottom
    BY <2>1, <2>2 DEF Bottom
  <2>5. Bottom \subseteq ToSet(nodes)
    BY <2>1, <2>3 DEF Bottom
  <2> QED BY <2>4, <2>5
<1>9. ActionWeights \in Weights
  BY ActionWeightsFacts
<1>10. GOO \in Seq(Splits)
  BY GOOFacts, SeqOfMore DEF JoinedSplits
<1>11. JoinSum(GOO, ActionWeights) = GOOCost
  <2> DEFINE s == GOO
  <2>1. \A i \in 1..Len(s) : ActionWeights[Both(s[i])] = ActionCost(s[i][1] \cup s[i][2])
    <3>1. \A i \in 1..Len(s) : s[i] \in Splits
      BY <1>10
    <3> QED BY <3>1, BothTyped DEF ActionWeights, Both
  <2> HIDE DEF s
  <2>2. [i \in 1..Len(s) |-> ActionWeights[Both(s[i])]] = [i \in 1..Len(s) |-> ActionCost(s[i][1] \cup s[i][2])]
    BY <2>1
  <2> QED BY <2>2 DEF JoinSum, GOOCost, s
<1>12. JoinSum(GOO, ActionWeights) \in Nat
  BY <1>9, <1>10, JoinSumTyped
<1> QED BY <1>6, <1>7, <1>8, <1>9, <1>11, <1>12, GOOFromLeads

-----------------------------------------------------------------------------
(* The order of sequences: P holds of each element and each later one.     *)

InOrder(s, P) == \A i, j \in 1..Len(s) : i < j => <<s[i], s[j]>> \in P

LEMMA ConcatOrder ==
  ASSUME NEW T, NEW s \in Seq(T), NEW t \in Seq(T), NEW P, InOrder(s, P), InOrder(t, P),
         \A x \in ToSet(s), y \in ToSet(t) : <<x, y>> \in P
  PROVE  InOrder(s \o t, P)
<1> DEFINE m == Len(s)
           n == Len(t)
           c == s \o t
<1>0. m \in Nat /\ n \in Nat /\ Len(c) = m + n
  BY ConcatProperties
<1>1. \A i \in 1..(m + n) : c[i] = IF i <= m THEN s[i] ELSE t[i - m]
  BY ConcatProperties
<1>2. \A i \in 1..m : c[i] = s[i] /\ c[i] \in ToSet(s)
  BY <1>0, <1>1 DEF ToSet
<1>3. \A i \in (m + 1)..(m + n) : i - m \in 1..n /\ c[i] = t[i - m] /\ c[i] \in ToSet(t)
  <2> SUFFICES ASSUME NEW i \in (m + 1)..(m + n)
               PROVE  i - m \in 1..n /\ c[i] = t[i - m] /\ c[i] \in ToSet(t)
    OBVIOUS
  <2>1. i - m \in 1..n /\ i \in 1..(m + n) /\ ~(i <= m)
    BY <1>0
  <2>2. c[i] = t[i - m]
    BY <1>1, <2>1
  <2> QED BY <2>1, <2>2 DEF ToSet
<1> SUFFICES ASSUME NEW i \in 1..(m + n), NEW j \in 1..(m + n), i < j PROVE <<c[i], c[j]>> \in P
  BY <1>0 DEF InOrder
<1> HIDE DEF c
<1>4. CASE j <= m
  <2>1. i \in 1..m /\ j \in 1..m
    BY <1>0, <1>4
  <2> QED BY <1>2, <2>1 DEF InOrder
<1>5. CASE i <= m /\ ~(j <= m)
  <2>1. i \in 1..m /\ j \in (m + 1)..(m + n)
    BY <1>0, <1>5
  <2> QED BY <1>2, <1>3, <2>1
<1>6. CASE ~(i <= m)
  <2>1. i \in (m + 1)..(m + n) /\ j \in (m + 1)..(m + n) /\ i - m < j - m
    BY <1>0, <1>6
  <2> QED BY <1>3, <2>1 DEF InOrder
<1> QED BY <1>4, <1>5, <1>6

LEMMA ShortInOrder ==
  ASSUME NEW x, NEW P
  PROVE  InOrder(<<>>, P) /\ InOrder(<<x>>, P)
BY DEF InOrder

LEMMA WithinOrder ==
  ASSUME NEW T, NEW s \in Seq(T), NEW F, NEW P, InOrder(s, P)
  PROVE  InOrder(Within(s, F), P)
<1>0. Len(s) \in Nat
  OBVIOUS
<1>1. PICK f \in [0..Len(s) -> Seq(T)] : WithinStep(s, F, f) /\ Within(s, F) = f[Len(s)]
  BY WithinEquation
<1> DEFINE Good == {k \in 0..Len(s) : InOrder(f[k], P) /\ ToSet(f[k]) \subseteq PrefixSet(s, k)}
<1>2. 0 \in Good
  <2>1. f[0] = <<>>
    BY <1>0, <1>1 DEF WithinStep
  <2>2. ToSet(f[0]) = {}
    BY <2>1 DEF ToSet
  <2> QED BY <1>0, <2>1, <2>2, ShortInOrder
<1>3. ASSUME NEW k \in 1..Len(s), k - 1 \in Good PROVE k \in Good
  <2> DEFINE last == IF s[k] \in F THEN <<s[k]>> ELSE <<>>
  <2>1. k \in 0..Len(s) /\ k # 0 /\ k - 1 \in 0..Len(s) /\ k \in 1..k /\ s[k] \in T
    BY <1>0
  <2>2. f[k] = f[k - 1] \o last
    BY <2>1, <1>1 DEF WithinStep
  <2>3. last \in Seq(T) /\ InOrder(last, P) /\ ToSet(last) \subseteq {s[k]}
    <3>1. CASE s[k] \in F
      <4>1. last = <<s[k]>>
        BY <3>1
      <4>2. ToSet(<<s[k]>>) = {s[k]}
        BY OneElement
      <4> QED BY <2>1, <4>1, <4>2, ShortInOrder
    <3>2. CASE s[k] \notin F
      <4>1. last = <<>>
        BY <3>2
      <4> QED BY <4>1, ShortInOrder DEF ToSet
    <3> QED BY <3>1, <3>2
  <2> HIDE DEF last
  <2>4. f[k - 1] \in Seq(T) /\ InOrder(f[k - 1], P) /\ ToSet(f[k - 1]) \subseteq PrefixSet(s, k - 1)
    BY <2>1, <1>3
  <2>5. \A x \in PrefixSet(s, k - 1) : <<x, s[k]>> \in P
    <3>1. \A i \in 1..(k - 1) : i \in 1..Len(s) /\ i < k
      BY <1>0
    <3> QED BY <3>1 DEF InOrder, PrefixSet
  <2>6. InOrder(f[k - 1] \o last, P)
    BY <2>3, <2>4, <2>5, ConcatOrder
  <2>7. ToSet(f[k - 1] \o last) = ToSet(f[k - 1]) \cup ToSet(last)
    BY <2>3, <2>4, ToSetConcat
  <2>8. PrefixSet(s, k - 1) \subseteq PrefixSet(s, k) /\ s[k] \in PrefixSet(s, k)
    BY <1>0, <2>1 DEF PrefixSet
  <2>9. ToSet(f[k - 1]) \cup ToSet(last) \subseteq PrefixSet(s, k)
    BY <2>3, <2>4, <2>8
  <2>10. InOrder(f[k], P) /\ ToSet(f[k]) \subseteq PrefixSet(s, k)
    BY <2>2, <2>6, <2>7, <2>9, Zenon
  <2> QED BY <2>1, <2>10
<1> HIDE DEF Good
<1>4. Inductive(Len(s), Good)
  BY <1>2, <1>3 DEF Inductive
<1>5. \A k \in 0..Len(s) : k \in Good
  BY <1>0, <1>4, UpTo
<1>6. Len(s) \in Good
  BY <1>0, <1>5
<1> QED BY <1>1, <1>6 DEF Good

RowsInOrder(s, P) ==
  /\ \A i \in 1..Len(s) : InOrder(s[i], P)
  /\ \A i, j \in 1..Len(s) : i < j => \A x \in ToSet(s[i]), y \in ToSet(s[j]) : <<x, y>> \in P

LEMMA FlattenOrder ==
  ASSUME NEW T, NEW s \in Seq(Seq(T)), NEW P, RowsInOrder(s, P)
  PROVE  InOrder(Flatten(s), P)
<1>0. Len(s) \in Nat
  OBVIOUS
<1>1. CASE Len(s) = 0
  <2>1. Flatten(s) = <<>>
    BY <1>1, EmptySeq DEF Flatten, FlattenSeq
  <2> QED BY <2>1, ShortInOrder
<1>2. CASE Len(s) # 0
  <2>1. PICK f \in [1..Len(s) -> Seq(T)] : FlattenStep(s, f) /\ Flatten(s) = f[Len(s)]
    BY <1>2, FlattenEquation
  <2> DEFINE Seen(k) == {x \in T : \E i \in 1..k : x \in ToSet(s[i])}
             Good == {k \in 0..Len(s) : k # 0 => InOrder(f[k], P) /\ ToSet(f[k]) \subseteq Seen(k)}
  <2>2. 0 \in Good
    BY <1>0
  <2>3. ASSUME NEW k \in 1..Len(s), k - 1 \in Good PROVE k \in Good
    <3>0. k \in 0..Len(s) /\ s[k] \in Seq(T) /\ InOrder(s[k], P) /\ k \in 1..k
      BY <1>0 DEF RowsInOrder
    <3>1. ToSet(s[k]) \subseteq Seen(k)
      BY <3>0, ToSetFacts
    <3>2. CASE k = 1
      <4>1. f[k] = s[k]
        BY <2>1, <3>2 DEF FlattenStep
      <4> QED BY <3>0, <3>1, <4>1
    <3>3. CASE k # 1
      <4>1. f[k] = f[k - 1] \o s[k]
        BY <2>1, <3>3 DEF FlattenStep
      <4>2. k - 1 \in 1..Len(s) /\ k - 1 # 0
        BY <1>0, <3>3
      <4>3. f[k - 1] \in Seq(T) /\ InOrder(f[k - 1], P) /\ ToSet(f[k - 1]) \subseteq Seen(k - 1)
        BY <2>3, <4>2
      <4>4. \A i \in 1..(k - 1) : i \in 1..k /\ i \in 1..Len(s) /\ i < k
        BY <1>0
      <4>5. Seen(k - 1) \subseteq Seen(k)
        BY <4>4
      <4>6. \A x \in Seen(k - 1), y \in ToSet(s[k]) : <<x, y>> \in P
        BY <4>4 DEF RowsInOrder
      <4> HIDE DEF Seen
      <4>7. InOrder(f[k - 1] \o s[k], P)
        BY <3>0, <4>3, <4>6, ConcatOrder
      <4>8. ToSet(f[k - 1] \o s[k]) = ToSet(f[k - 1]) \cup ToSet(s[k])
        BY <3>0, <4>3, ToSetConcat
      <4> QED BY <3>0, <3>1, <4>1, <4>3, <4>5, <4>7, <4>8
    <3> QED BY <3>2, <3>3
  <2> HIDE DEF Good
  <2>4. Inductive(Len(s), Good)
    BY <2>2, <2>3 DEF Inductive
  <2>5. \A k \in 0..Len(s) : k \in Good
    BY <1>0, <2>4, UpTo
  <2>6. Len(s) \in Good
    BY <1>0, <2>5
  <2> QED BY <1>2, <2>1, <2>6 DEF Good
<1> QED BY <1>1, <1>2

LEMMA OrderWeaker ==
  ASSUME NEW s, NEW P, NEW Q, InOrder(s, P),
         \A x, y \in ToSet(s) : <<x, y>> \in P => <<x, y>> \in Q, 1..Len(s) = DOMAIN s
  PROVE  InOrder(s, Q)
BY DEF InOrder, ToSet

(* A set comes after its subsets in the order of values. *)
Upwards == {p \in (SUBSET Relations) \X (SUBSET Relations) : ~(p[2] \subseteq p[1])}

LEMMA BitsOrder == InOrder(Bits, Upwards)
<1>1. PICK f \in [0..N -> Seq(SUBSET Relations)] : BitsStep(f) /\ Bits = f[N]
  BY BitsEquation
<1> DEFINE Good == {k \in 0..N : InOrder(f[k], Upwards) /\ ToSet(f[k]) \subseteq SUBSET Below(k)}
<1>2. 0 \in Good
  <2>1. f[0] = <<{}>>
    BY <1>1, NFacts DEF BitsStep
  <2>2. ToSet(<<{}>>) = {{}}
    BY OneElement
  <2>3. InOrder(<<{}>>, Upwards)
    BY ShortInOrder
  <2>4. 0 \in 0..N
    BY NFacts
  <2> QED BY <2>1, <2>2, <2>3, <2>4
<1>3. ASSUME NEW k \in 1..N, k - 1 \in Good PROVE k \in Good
  <2>1. k \in 0..N /\ k # 0 /\ k - 1 \in 0..N /\ k - 1 \in Relations /\ k \in Nat
    BY NFacts
  <2> DEFINE q == f[k - 1]
             r == [i \in 1..Len(q) |-> q[i] \cup {k - 1}]
  <2>2. q \in Seq(SUBSET Relations) /\ InOrder(q, Upwards) /\ ToSet(q) \subseteq SUBSET Below(k - 1)
    BY <1>3, <2>1
  <2>3. f[k] = q \o r
    BY <1>1, <2>1 DEF BitsStep
  <2>4. Below(k) = Below(k - 1) \cup {k - 1} /\ k - 1 \notin Below(k - 1)
    BY <2>1 DEF Below
  <2> HIDE DEF q
  <2>5. \A i \in 1..Len(q) : q[i] \in SUBSET Relations /\ q[i] \in ToSet(q)
    BY <2>2 DEF ToSet
  <2>6. r \in Seq(SUBSET Relations) /\ Len(r) = Len(q)
    <3>1. \A i \in 1..Len(q) : q[i] \cup {k - 1} \in SUBSET Relations
      BY <2>1, <2>5
    <3> QED BY <2>2, <3>1, IsASeq
  <2>7. ToSet(r) = {q[i] \cup {k - 1} : i \in 1..Len(q)}
    BY <2>2 DEF ToSet
  <2>8. InOrder(r, Upwards)
    <3> SUFFICES ASSUME NEW i \in 1..Len(q), NEW j \in 1..Len(q), i < j PROVE <<r[i], r[j]>> \in Upwards
      BY <2>6 DEF InOrder
    <3>1. ~(q[j] \subseteq q[i])
      BY <2>2 DEF InOrder, Upwards
    <3>2. q[j] \subseteq Below(k - 1)
      BY <2>2, <2>5
    <3>3. ~((q[j] \cup {k - 1}) \subseteq (q[i] \cup {k - 1}))
      BY <3>1, <3>2, <2>4
    <3> QED BY <3>3, <2>1, <2>5 DEF Upwards
  <2>9. \A x \in ToSet(q), y \in ToSet(r) : <<x, y>> \in Upwards
    <3> SUFFICES ASSUME NEW x \in ToSet(q), NEW i \in 1..Len(q) PROVE <<x, q[i] \cup {k - 1}>> \in Upwards
      BY <2>7
    <3>1. k - 1 \notin x /\ x \in SUBSET Relations
      <4>1. ToSet(q) \in SUBSET (SUBSET Relations)
        BY <2>2, ToSetFacts
      <4> QED BY <2>2, <2>4, <4>1
    <3> QED BY <2>1, <2>5, <3>1 DEF Upwards
  <2> HIDE DEF r
  <2>10. InOrder(q \o r, Upwards)
    BY <2>2, <2>6, <2>8, <2>9, ConcatOrder
  <2>11. ToSet(q \o r) \subseteq SUBSET Below(k)
    <3>1. ToSet(q \o r) = ToSet(q) \cup ToSet(r)
      BY <2>2, <2>6, ToSetConcat
    <3>2. \A i \in 1..Len(q) : q[i] \cup {k - 1} \subseteq Below(k)
      BY <2>2, <2>4, <2>5
    <3> QED BY <2>2, <2>4, <2>7, <3>1, <3>2
  <2> QED BY <2>1, <2>3, <2>10, <2>11
<1> HIDE DEF Good
<1>4. Inductive(N, Good)
  BY <1>2, <1>3 DEF Inductive
<1>5. \A k \in 0..N : k \in Good
  BY <1>4, UpTo, NFacts
<1>6. N \in Good
  BY <1>5, NFacts
<1> QED BY <1>1, <1>6 DEF Good

LEMMA ByValueOrder ==
  ASSUME NEW F
  PROVE  InOrder(ByValue(F), Upwards)
<1>1. Bits \in Seq(SUBSET Relations)
  BY BitsFacts
<1> QED BY <1>1, BitsOrder, WithinOrder DEF ByValue

(* reachable() reaches everything that is linked. *)
LEMMA ReachAll ==
  ASSUME NEW S \in Subproblems, Linked(S), NEW v \in S
  PROVE  Reach({v}, S) = S
<1>0. S \in SUBSET Relations /\ IsFiniteSet(S) /\ Cardinality(S) \in Nat /\ Cardinality(S) <= N
  <2>1. S \in SUBSET Relations
    BY DEF Subproblems
  <2> QED BY <2>1, NFacts, FS_Subset, FS_CardinalityType DEF N
<1>1. PICK f : ReachStep({v}, S, f) /\ Reach({v}, S) = f[N]
  BY <1>0, ReachEquation
<1> DEFINE Good == {k \in 0..N : /\ f[k] \subseteq S /\ f[k] # {}
                                 /\ f[k] = S \/ Cardinality(f[k]) > k}
<1>2. 0 \in Good
  <2>1. f[0] = {v} /\ 0 \in 0..N
    BY <1>1, NFacts DEF ReachStep
  <2>2. Cardinality({v}) = 1
    BY FS_Singleton
  <2> QED BY <2>1, <2>2
<1>3. ASSUME NEW k \in 1..N, k - 1 \in Good PROVE k \in Good
  <2> DEFINE R == f[k - 1]
  <2>1. k \in 0..N /\ k # 0 /\ k - 1 \in 0..N /\ k \in Nat
    BY NFacts
  <2>2. R \subseteq S /\ R # {} /\ (R = S \/ Cardinality(R) > k - 1)
    BY <1>3
  <2>3. f[k] = R \cup (Neighbors(R) \cap S)
    BY <2>1, <1>1 DEF ReachStep
  <2> HIDE DEF R
  <2>4. CASE R = S
    <3>1. f[k] = S
      BY <2>3, <2>4
    <3> QED BY <2>1, <2>2, <2>4, <3>1
  <2>5. CASE R # S
    <3>1. Joined(R, S \ R)
      BY <2>2, <2>5 DEF Linked
    <3>2. PICK w \in S \ R : w \in Neighbors(R)
      BY <3>1 DEF Joined
    <3>3. R \cup {w} \subseteq f[k] /\ f[k] \subseteq S
      BY <2>2, <2>3, <3>2
    <3>4. IsFiniteSet(R) /\ IsFiniteSet(f[k]) /\ Cardinality(R) \in Nat /\ Cardinality(f[k]) \in Nat
      BY <1>0, <2>2, <3>3, FS_Subset, FS_CardinalityType
    <3>5. IsFiniteSet(R \cup {w}) /\ Cardinality(R \cup {w}) = Cardinality(R) + 1
      BY <3>2, <3>4, FS_AddElement
    <3>6. Cardinality(R \cup {w}) <= Cardinality(f[k])
      BY <3>3, <3>4, FS_Subset
    <3>7. Cardinality(f[k]) > k
      BY <2>1, <2>2, <2>5, <3>4, <3>5, <3>6
    <3>8. f[k] # {}
      BY <3>3
    <3> QED BY <2>1, <3>3, <3>7, <3>8
  <2> QED BY <2>4, <2>5
<1> HIDE DEF Good
<1>4. Inductive(N, Good)
  BY <1>2, <1>3 DEF Inductive
<1>5. \A k \in 0..N : k \in Good
  BY <1>4, UpTo, NFacts
<1>6. N \in Good
  BY <1>5, NFacts
<1>7. f[N] \subseteq S /\ (f[N] = S \/ Cardinality(f[N]) > N)
  BY <1>6 DEF Good
<1>8. Cardinality(f[N]) <= Cardinality(S) /\ Cardinality(f[N]) \in Nat
  BY <1>0, <1>7, FS_Subset, FS_CardinalityType
<1> QED BY <1>0, <1>1, <1>7, <1>8, NFacts

LEMMA ConnectedMeansLinked ==
  ASSUME NEW S \in Subproblems
  PROVE  Connected(S) <=> Linked(S)
<1>1. Min(S) \in S
  BY MinFacts DEF Subproblems
<1> QED BY <1>1, ConnectedLinked, ReachAll DEF Connected

LEMMA MaxFacts ==
  ASSUME NEW S \in SUBSET Relations, S # {}
  PROVE  Max(S) \in S /\ \A y \in S : y <= Max(S)
<1>1. \A x \in S : x \in Nat /\ x < N /\ N \in Nat
  BY NFacts
<1> DEFINE T == {N - x : x \in S}
<1>2. T \in SUBSET Nat /\ T # {}
  BY <1>1
<1>3. PICK t \in T : \A y \in T : t <= y
  <2> HIDE DEF T
  <2> QED BY <1>2, LeastNat
<1>4. PICK x \in S : t = N - x
  BY <1>3
<1>5. ASSUME NEW y \in S PROVE y <= x
  <2>1. N - x <= N - y
    BY <1>3, <1>4
  <2> QED BY <1>1, <2>1
<1>6. \E z \in S : \A y \in S : z >= y
  <2>1. \A y \in S : x >= y
    BY <1>1, <1>5
  <2> QED BY <2>1
<1>7. Max(S) = CHOOSE z \in S : \A y \in S : z >= y
  BY Zenon DEF Max
<1>8. Max(S) \in S /\ \A y \in S : Max(S) >= y
  BY <1>6, <1>7
<1> QED BY <1>1, <1>8

(* The two sides of a join have different highest relations. *)
LEMMA MaxDiffer ==
  ASSUME NEW p \in Splits
  PROVE  Max(p[1]) < Max(p[2]) \/ Max(p[2]) < Max(p[1])
<1>1. p[1] \in SUBSET Relations /\ p[1] # {} /\ p[2] \in SUBSET Relations /\ p[2] # {} /\ p[1] \cap p[2] = {}
  BY DEF Splits, Subproblems
<1>2. Max(p[1]) \in p[1] /\ Max(p[2]) \in p[2]
  BY <1>1, MaxFacts
<1>3. Max(p[1]) \in Nat /\ Max(p[2]) \in Nat /\ Max(p[1]) # Max(p[2])
  BY <1>1, <1>2, NFacts
<1> QED BY <1>3

LEMMA LesserTotal ==
  ASSUME NEW S \in SUBSET Relations, NEW T \in SUBSET Relations, S # T
  PROVE  Lesser(S, T) \/ Lesser(T, S)
<1> DEFINE D == (S \ T) \cup (T \ S)
           E == (T \ S) \cup (S \ T)
<1>1. D \in SUBSET Relations /\ D # {} /\ E = D
  OBVIOUS
<1>2. Max(D) \in D
  BY <1>1, MaxFacts
<1>3. Max(D) \in S \/ Max(D) \in T
  BY <1>2
<1>4. Max(E) = Max(D)
  BY <1>1
<1> QED BY <1>3, <1>4 DEF Lesser

-----------------------------------------------------------------------------
(* A sequence of joins settles its subproblems one after the other: what   *)
(* has been a side of a join is not the result of a later one.             *)

Result(p)     == p[1] \cup p[2]
Swapped(p)    == <<p[2], p[1]>>
Settles       == {pq \in Splits \X Splits : Result(pq[2]) \notin {pq[1][1], pq[1][2]}}
Covers(s, C)  == \A p \in C : p \in ToSet(s) \/ Swapped(p) \in ToSet(s)
ConnectedCuts == {p \in JoinedSplits : Linked(p[1]) /\ Linked(p[2])}
SizeOfResult(p) == Cardinality(Result(p))

LEMMA ResultFacts ==
  ASSUME NEW p \in Splits
  PROVE  /\ p[1] \in Subproblems /\ p[2] \in Subproblems /\ p[1] \cap p[2] = {} /\ p = <<p[1], p[2]>>
         /\ Result(p) \in Subproblems /\ Swapped(p) \in Splits /\ Result(Swapped(p)) = Result(p)
         /\ Cardinality(p[1]) \in Nat \ {0} /\ Cardinality(p[2]) \in Nat \ {0}
         /\ SizeOfResult(p) = Cardinality(p[1]) + Cardinality(p[2])
<1>1. p[1] \in Subproblems /\ p[2] \in Subproblems /\ p[1] \cap p[2] = {} /\ p = <<p[1], p[2]>>
  BY DEF Splits
<1>2. Result(p) \in Subproblems /\ Swapped(p) \in Splits /\ Result(Swapped(p)) = Result(p)
  BY <1>1 DEF Result, Swapped, Splits, Subproblems
<1>3. IsFiniteSet(p[1]) /\ IsFiniteSet(p[2]) /\ p[1] # {} /\ p[2] # {}
  BY <1>1, NFacts, FS_Subset DEF Subproblems
<1>4. Cardinality(p[1]) \in Nat \ {0} /\ Cardinality(p[2]) \in Nat \ {0}
  BY <1>3, FS_CardinalityType, FS_EmptySet
<1>5. Cardinality(p[1] \cup p[2]) = Cardinality(p[1]) + Cardinality(p[2]) - Cardinality(p[1] \cap p[2])
  BY <1>3, FS_Union
<1>6. Cardinality(p[1] \cap p[2]) = 0
  BY <1>1, FS_EmptySet
<1> QED BY <1>1, <1>2, <1>4, <1>5, <1>6 DEF SizeOfResult, Result

LEMMA NotSmallerSettles ==
  ASSUME NEW p \in Splits, NEW q \in Splits, SizeOfResult(p) <= SizeOfResult(q)
  PROVE  <<p, q>> \in Settles
<1>1. SizeOfResult(p) > Cardinality(p[1]) /\ SizeOfResult(p) > Cardinality(p[2])
  BY ResultFacts
<1>2. Result(q) # p[1] /\ Result(q) # p[2]
  <2>1. SizeOfResult(q) \in Nat /\ SizeOfResult(p) \in Nat
        /\ Cardinality(p[1]) \in Nat /\ Cardinality(p[2]) \in Nat
    BY ResultFacts
  <2> QED BY <1>1, <2>1 DEF SizeOfResult
<1> QED BY <1>2 DEF Settles

LEMMA NotBelowSettles ==
  ASSUME NEW p \in Splits, NEW q \in Splits, ~(Result(q) \subseteq Result(p))
  PROVE  <<p, q>> \in Settles
BY DEF Settles, Result

LEMMA LayersSettle ==
  ASSUME NEW s \in Seq(Seq(Splits)),
         \A i \in 1..Len(s) : \A p \in ToSet(s[i]) : SizeOfResult(p) = i + 1
  PROVE  InOrder(Flatten(s), Settles)
<1>1. \A i \in 1..Len(s) : ToSet(s[i]) \subseteq Splits
  BY ToSetFacts
<1>2. ASSUME NEW i \in 1..Len(s), NEW j \in 1..Len(s), i <= j, NEW x \in ToSet(s[i]), NEW y \in ToSet(s[j])
      PROVE  <<x, y>> \in Settles
  <2>1. x \in Splits /\ y \in Splits /\ SizeOfResult(x) = i + 1 /\ SizeOfResult(y) = j + 1
    BY <1>1
  <2>2. SizeOfResult(x) <= SizeOfResult(y)
    BY <1>2, <2>1
  <2> QED BY <2>1, <2>2, NotSmallerSettles
<1>3. ASSUME NEW i \in 1..Len(s) PROVE InOrder(s[i], Settles)
  <2> SUFFICES ASSUME NEW a \in 1..Len(s[i]), NEW b \in 1..Len(s[i]), a < b
               PROVE  <<s[i][a], s[i][b]>> \in Settles
    BY DEF InOrder
  <2>1. s[i][a] \in ToSet(s[i]) /\ s[i][b] \in ToSet(s[i])
    BY DEF ToSet
  <2>2. i <= i
    OBVIOUS
  <2> QED BY <1>2, <2>1, <2>2
<1>4. ASSUME NEW i \in 1..Len(s), NEW j \in 1..Len(s), i < j, NEW x \in ToSet(s[i]), NEW y \in ToSet(s[j])
      PROVE  <<x, y>> \in Settles
  <2>1. i <= j
    BY <1>4
  <2> QED BY <1>2, <2>1
<1>5. RowsInOrder(s, Settles)
  BY <1>3, <1>4 DEF RowsInOrder
<1> QED BY <1>5, FlattenOrder

-----------------------------------------------------------------------------
(* What the sequences of joins contain, and that nothing is left out.      *)

LEMMA OfSizeFull ==
  ASSUME NEW k
  PROVE  OfSize(k) \in Seq(Subproblems) /\ ToSet(OfSize(k)) = {S \in Subproblems : Cardinality(S) = k}
<1> DEFINE F == {S \in Subproblems : Cardinality(S) = k}
<1>1. F \in SUBSET (SUBSET Relations)
  BY SubproblemsFacts
<1>2. OfSize(k) = ByValue(F)
  BY DEF OfSize
<1> HIDE DEF F
<1>3. ToSet(ByValue(F)) = F
  BY <1>1, ByValueFacts
<1> QED BY <1>2, <1>3, OfSizeFacts DEF F

LEMMA PairsFull ==
  ASSUME NEW F \in Seq(Subproblems), NEW G \in Seq(Subproblems)
  PROVE  ToSet(Pairs(F, G)) = ToSet(F) \X ToSet(G)
<1> DEFINE T == Subproblems \X Subproblems
           row(i) == [j \in 1..Len(G) |-> <<F[i], G[j]>>]
           rows == [i \in 1..Len(F) |-> row(i)]
<1>1. ASSUME NEW i \in 1..Len(F) PROVE row(i) \in Seq(T) /\ ToSet(row(i)) = {<<F[i], G[j]>> : j \in 1..Len(G)}
  <2>1. \A j \in 1..Len(G) : <<F[i], G[j]>> \in T
    OBVIOUS
  <2>2. row(i) \in Seq(T)
    BY <2>1, IsASeq
  <2> QED BY <2>2 DEF ToSet
<1>2. Pairs(F, G) = Flatten(rows)
  BY Zenon DEF Pairs
<1> HIDE DEF row, T
<1>3. rows \in Seq(Seq(T)) /\ Len(rows) = Len(F) /\ \A i \in 1..Len(F) : rows[i] = row(i)
  <2>1. rows \in Seq(Seq(T))
    BY <1>1, IsASeq
  <2> QED BY <2>1
<1> HIDE DEF rows
<1>4. ToSet(Flatten(rows)) = UNION {ToSet(rows[i]) : i \in 1..Len(rows)}
  BY <1>3, FlattenElements
<1>5. \A i \in 1..Len(F) : ToSet(rows[i]) = {<<F[i], G[j]>> : j \in 1..Len(G)}
  BY <1>1, <1>3
<1>6. ToSet(F) = {F[i] : i \in 1..Len(F)} /\ ToSet(G) = {G[j] : j \in 1..Len(G)}
  BY ToSetFacts
<1>7. ASSUME NEW x PROVE x \in ToSet(Flatten(rows)) <=> x \in ToSet(F) \X ToSet(G)
  <2>1. x \in ToSet(Flatten(rows)) <=> \E i \in 1..Len(F) : x \in ToSet(rows[i])
    BY <1>3, <1>4
  <2>2. x \in ToSet(Flatten(rows)) <=> \E i \in 1..Len(F) : \E j \in 1..Len(G) : x = <<F[i], G[j]>>
    BY <1>5, <2>1
  <2> QED BY <1>6, <2>2
<1> QED BY <1>2, <1>7

LEMMA DissectFull ==
  ASSUME NEW S \in Subproblems
  PROVE  ToSet(Dissect(S)) = SplitsOf(S)
<1> DEFINE F == (SUBSET S) \ {{}, S}
           b == SubsetsInOrder[S]
<1>1. F \in SUBSET (SUBSET Relations)
  BY DEF Subproblems
<1>2. b = ByValue(F)
  BY DEF SubsetsInOrder
<1>3. b \in Seq(F) /\ ToSet(b) = F
  <2> HIDE DEF F, b
  <2> QED BY <1>1, <1>2, ByValueFacts
<1> HIDE DEF b
<1>4. Dissect(S) = [i \in 1..Len(b) |-> <<b[i], S \ b[i]>>]
  BY DEF Dissect, b
<1>5. ToSet(Dissect(S)) = {<<L, S \ L>> : L \in F}
  <2>1. ToSet(Dissect(S)) = {<<b[i], S \ b[i]>> : i \in 1..Len(b)}
    BY <1>3, <1>4 DEF ToSet
  <2>2. F = {b[i] : i \in 1..Len(b)}
    BY <1>3, ToSetFacts
  <2> QED BY <2>1, <2>2
<1>6. ASSUME NEW p \in SplitsOf(S) PROVE p[1] \in F /\ p = <<p[1], S \ p[1]>>
  <2>1. p \in Splits /\ p[1] \cup p[2] = S
    BY DEF SplitsOf
  <2>2. p = <<p[1], p[2]>> /\ p[1] \cap p[2] = {} /\ p[1] \in Subproblems /\ p[2] \in Subproblems
    BY <2>1 DEF Splits
  <2>3. p[2] = S \ p[1] /\ p[1] # {} /\ p[2] # {}
    BY <2>1, <2>2 DEF Subproblems
  <2> QED BY <2>1, <2>2, <2>3
<1>7. \A L \in F : <<L, S \ L>> \in SplitsOf(S)
  BY DEF SplitsOf, Splits, Subproblems
<1> QED BY <1>5, <1>6, <1>7

LEMMA DissectAllFull ==
  ASSUME NEW F \in Seq(Subproblems)
  PROVE  /\ ToSet(DissectAll(F)) = UNION {SplitsOf(S) : S \in ToSet(F)}
         /\ InOrder(F, Upwards) => InOrder(DissectAll(F), Settles)
<1> DEFINE rows == [i \in 1..Len(F) |-> Dissect(F[i])]
<1>1. ASSUME NEW i \in 1..Len(F)
      PROVE  F[i] \in Subproblems /\ Dissect(F[i]) \in Seq(Splits) /\ ToSet(Dissect(F[i])) = SplitsOf(F[i])
  <2>1. F[i] \in Subproblems
    OBVIOUS
  <2>2. Dissect(F[i]) \in Seq(SplitsOf(F[i])) /\ SplitsOf(F[i]) \subseteq Splits
    BY <2>1, DissectFacts DEF SplitsOf
  <2> QED BY <2>1, <2>2, DissectFull, SeqMonotonic
<1>2. rows \in Seq(Seq(Splits)) /\ Len(rows) = Len(F) /\ \A i \in 1..Len(F) : rows[i] = Dissect(F[i])
  <2>1. rows \in Seq(Seq(Splits))
    BY <1>1, IsASeq
  <2> QED BY <2>1
<1>3. DissectAll(F) = Flatten(rows)
  BY Zenon DEF DissectAll
<1> HIDE DEF rows
<1>4. ToSet(DissectAll(F)) = UNION {ToSet(rows[i]) : i \in 1..Len(rows)}
  BY <1>2, <1>3, FlattenElements
<1>5. ToSet(DissectAll(F)) = UNION {SplitsOf(F[i]) : i \in 1..Len(F)}
  BY <1>1, <1>2, <1>4
<1>6. ToSet(F) = {F[i] : i \in 1..Len(F)}
  BY ToSetFacts
<1>7. ASSUME InOrder(F, Upwards) PROVE InOrder(DissectAll(F), Settles)
  <2>0. \A i \in 1..Len(F) : \A x \in ToSet(rows[i]) : x \in Splits /\ Result(x) = F[i]
    BY <1>1, <1>2 DEF SplitsOf, Result
  <2>1. ASSUME NEW i \in 1..Len(rows) PROVE InOrder(rows[i], Settles)
    <3> SUFFICES ASSUME NEW a \in 1..Len(rows[i]), NEW b \in 1..Len(rows[i]), a < b
                 PROVE  <<rows[i][a], rows[i][b]>> \in Settles
      BY DEF InOrder
    <3>1. rows[i][a] \in ToSet(rows[i]) /\ rows[i][b] \in ToSet(rows[i])
      BY DEF ToSet
    <3> DEFINE x == rows[i][a]
               y == rows[i][b]
    <3>2. x \in Splits /\ y \in Splits /\ Result(x) = Result(y)
      BY <1>2, <2>0, <3>1
    <3> HIDE DEF x, y
    <3>3. SizeOfResult(x) = SizeOfResult(y) /\ SizeOfResult(x) \in Nat
      <4>1. SizeOfResult(x) = SizeOfResult(y)
        BY <3>2 DEF SizeOfResult
      <4>2. Cardinality(x[1]) \in Nat /\ Cardinality(x[2]) \in Nat
            /\ SizeOfResult(x) = Cardinality(x[1]) + Cardinality(x[2])
        BY <3>2, ResultFacts
      <4> QED BY <4>1, <4>2
    <3>4. SizeOfResult(x) <= SizeOfResult(y)
      BY <3>3
    <3>5. <<x, y>> \in Settles
      BY <3>2, <3>4, NotSmallerSettles
    <3> QED BY <3>5 DEF x, y
  <2>2. ASSUME NEW i \in 1..Len(rows), NEW j \in 1..Len(rows), i < j, NEW x \in ToSet(rows[i]), NEW y \in ToSet(rows[j])
        PROVE  <<x, y>> \in Settles
    <3>1. x \in Splits /\ y \in Splits /\ Result(x) = F[i] /\ Result(y) = F[j]
      BY <1>2, <2>0
    <3>2. ~(F[j] \subseteq F[i])
      BY <1>2, <1>7, <2>2 DEF InOrder, Upwards
    <3> QED BY <3>1, <3>2, NotBelowSettles
  <2>3. RowsInOrder(rows, Settles)
    BY <2>1, <2>2 DEF RowsInOrder
  <2> QED BY <1>2, <1>3, <2>3, FlattenOrder
<1> QED BY <1>5, <1>6, <1>7

(* The joins of connected subproblems are dissections of connected ones.   *)
LEMMA ConnectedCutsFacts ==
  ASSUME NEW p \in ConnectedCuts
  PROVE  /\ p \in Splits /\ Result(p) \in ConnectedOnes /\ p \in SplitsOf(Result(p))
         /\ Swapped(p) \in ConnectedCuts /\ Cardinality(Result(p)) > 1
<1>1. p \in JoinedSplits /\ p \in Splits /\ Linked(p[1]) /\ Linked(p[2]) /\ Joined(p[1], p[2])
  BY DEF ConnectedCuts, JoinedSplits
<1>2. p[1] \in Subproblems /\ p[2] \in Subproblems /\ p[1] \cap p[2] = {} /\ Result(p) \in Subproblems
      /\ Swapped(p) \in Splits
  BY <1>1, ResultFacts
<1>3. Linked(p[1] \cup p[2])
  BY <1>1, <1>2, UnionLinked
<1>4. Connected(Result(p))
  BY <1>2, <1>3, ConnectedMeansLinked DEF Result
<1>5. Joined(p[2], p[1])
  BY <1>1, <1>2, JoinedSymmetric DEF Subproblems
<1>6. Swapped(p)[1] = p[2] /\ Swapped(p)[2] = p[1]
  BY DEF Swapped
<1>7. Swapped(p) \in ConnectedCuts
  BY <1>1, <1>2, <1>5, <1>6 DEF ConnectedCuts, JoinedSplits
<1>8. Cardinality(Result(p)) > 1
  <2>1. /\ Cardinality(p[1]) \in Nat \ {0} /\ Cardinality(p[2]) \in Nat \ {0}
        /\ SizeOfResult(p) = Cardinality(p[1]) + Cardinality(p[2])
    BY <1>1, ResultFacts
  <2> QED BY <2>1 DEF SizeOfResult
<1> QED BY <1>1, <1>2, <1>4, <1>7, <1>8 DEF ConnectedOnes, SplitsOf, Result

Exhausts(s, C) == s \in Seq(Splits) /\ InOrder(s, Settles) /\ Covers(s, C)

LEMMA HalfExhausts ==
  ASSUME NEW s \in Seq(Splits), InOrder(s, Settles), NEW C \in SUBSET Splits,
         \A p \in C : p \in ToSet(s) /\ Swapped(p) \in ToSet(s)
  PROVE  Exhausts(HalfOf(s), C)
<1> DEFINE F == {p \in ToSet(s) : Max(p[1]) < Max(p[2])}
<1>1. HalfOf(s) = Within(s, F)
  BY Zenon DEF HalfOf
<1>2. \A p \in C : p \in F \/ Swapped(p) \in F
  <2> SUFFICES ASSUME NEW p \in C PROVE p \in F \/ Swapped(p) \in F
    OBVIOUS
  <2>1. Max(p[1]) < Max(p[2]) \/ Max(p[2]) < Max(p[1])
    BY MaxDiffer
  <2>2. p \in ToSet(s) /\ Swapped(p) \in ToSet(s) /\ Swapped(p)[1] = p[2] /\ Swapped(p)[2] = p[1]
    BY DEF Swapped
  <2> QED BY <2>1, <2>2
<1>3. F \subseteq ToSet(s)
  OBVIOUS
<1> HIDE DEF F
<1>4. Within(s, F) \in Seq(Splits) /\ ToSet(Within(s, F)) = ToSet(s) \cap F /\ InOrder(Within(s, F), Settles)
  BY WithinFacts, WithinOrder
<1> QED BY <1>1, <1>2, <1>3, <1>4 DEF Exhausts, Covers

LEMMA DPsubExhausts ==
  /\ Exhausts(DPsub, ConnectedCuts) /\ Exhausts(DPsubOpt, ConnectedCuts)
<1> DEFINE F == {S \in Subproblems : Cardinality(S) > 1}
<1>1. F \in SUBSET (SUBSET Relations) /\ AllInOrder = ByValue(F)
  BY SubproblemsFacts DEF AllInOrder
<1>2. AllInOrder \in Seq(Subproblems) /\ AllConnected \in Seq(Subproblems)
  BY AllInOrderFacts
<1>3. ToSet(AllInOrder) = F /\ InOrder(AllInOrder, Upwards)
  <2> HIDE DEF F
  <2> QED BY <1>1, ByValueFacts, ByValueOrder
<1>4. ToSet(AllConnected) = F \cap ConnectedOnes /\ InOrder(AllConnected, Upwards)
  <2> HIDE DEF F
  <2> QED BY <1>2, <1>3, WithinFacts, WithinOrder DEF AllConnected
<1>5. DPsub \in Seq(Splits) /\ InOrder(DPsub, Settles)
      /\ ToSet(DPsub) = UNION {SplitsOf(S) : S \in F \cap ConnectedOnes}
  BY <1>2, <1>4, DissectAllFacts, DissectAllFull DEF DPsub
<1>6. ASSUME NEW p \in ConnectedCuts PROVE p \in ToSet(DPsub)
  <2>1. Result(p) \in F \cap ConnectedOnes /\ p \in SplitsOf(Result(p))
    BY ConnectedCutsFacts DEF ConnectedOnes
  <2> QED BY <1>5, <2>1
<1>7. \A p \in ConnectedCuts : p \in Splits /\ Swapped(p) \in ConnectedCuts
  BY ConnectedCutsFacts
<1>8. Exhausts(DPsub, ConnectedCuts)
  BY <1>5, <1>6 DEF Exhausts, Covers
<1>9. Exhausts(DPsubOpt, ConnectedCuts)
  BY <1>5, <1>6, <1>7, HalfExhausts DEF DPsubOpt
<1> QED BY <1>8, <1>9

LEMMA PEallExhausts == Exhausts(PEall, Splits)
<1> DEFINE F == {S \in Subproblems : Cardinality(S) > 1}
           s == DissectAll(AllInOrder)
<1>1. F \in SUBSET (SUBSET Relations) /\ AllInOrder = ByValue(F)
  BY SubproblemsFacts DEF AllInOrder
<1>2. AllInOrder \in Seq(Subproblems)
  BY AllInOrderFacts
<1>3. ToSet(AllInOrder) = F /\ InOrder(AllInOrder, Upwards)
  <2> HIDE DEF F
  <2> QED BY <1>1, ByValueFacts, ByValueOrder
<1>4. s \in Seq(Splits) /\ InOrder(s, Settles) /\ ToSet(s) = UNION {SplitsOf(S) : S \in F}
  BY <1>2, <1>3, DissectAllFacts, DissectAllFull
<1> HIDE DEF s
<1>5. ASSUME NEW p \in Splits PROVE p \in ToSet(s)
  <2>1. /\ Cardinality(p[1]) \in Nat \ {0} /\ Cardinality(p[2]) \in Nat \ {0}
        /\ SizeOfResult(p) = Cardinality(p[1]) + Cardinality(p[2]) /\ Result(p) \in Subproblems
    BY ResultFacts
  <2>2. Result(p) \in F
    BY <2>1 DEF SizeOfResult
  <2>3. p \in SplitsOf(Result(p))
    BY DEF SplitsOf, Result
  <2> QED BY <1>4, <2>2, <2>3
<1>6. \A p \in Splits : Swapped(p) \in Splits
  BY ResultFacts
<1> QED BY <1>4, <1>5, <1>6, HalfExhausts DEF PEall, s

-----------------------------------------------------------------------------
(* Orders in which no join comes before its sides: with plans for B, the   *)
(* joins s give plans to T.                                                *)

Made(s, n) == {Both(s[j]) : j \in 1..n}
Ready(s, B) == \A i \in 1..Len(s) : s[i][1] \in B \cup Made(s, i - 1) /\ s[i][2] \in B \cup Made(s, i - 1)
Builds(s, B, T) ==
  /\ s \in Seq(Splits) /\ B \in SUBSET Subproblems
  /\ Ready(s, B) /\ T \subseteq B \cup Made(s, Len(s))

LEMMA BuildsMore ==
  ASSUME NEW s, NEW B, NEW T, NEW C \in SUBSET Subproblems, NEW U,
         Builds(s, B, T), B \subseteq C, U \subseteq T \cup C
  PROVE  Builds(s, C, U)
BY DEF Builds, Ready

LEMMA NothingBuilds ==
  ASSUME NEW B \in SUBSET Subproblems
  PROVE  Builds(<<>>, B, B)
BY DEF Builds, Ready

LEMMA JoinBuilds ==
  ASSUME NEW p \in Splits
  PROVE  Builds(<<p>>, {p[1], p[2]}, {Both(p)})
<1>1. p[1] \in Subproblems /\ p[2] \in Subproblems
  BY BothTyped
<1>2. <<p>> \in Seq(Splits) /\ Len(<<p>>) = 1 /\ <<p>>[1] = p /\ 1..1 = {1}
  OBVIOUS
<1> QED BY <1>1, <1>2 DEF Builds, Ready, Made

(* Either list of joins, and both together. *)
LEMMA MadeThen ==
  ASSUME NEW s \in Seq(Splits), NEW t \in Seq(Splits)
  PROVE  /\ s \o t \in Seq(Splits) /\ Len(s \o t) = Len(s) + Len(t)
         /\ \A i \in 1..Len(s) : (s \o t)[i] = s[i] /\ Made(s \o t, i - 1) = Made(s, i - 1)
         /\ \A i \in 1..Len(t) : /\ (s \o t)[Len(s) + i] = t[i]
                                 /\ Made(s \o t, (Len(s) + i) - 1) = Made(s, Len(s)) \cup Made(t, i - 1)
         /\ Made(s \o t, Len(s) + Len(t)) = Made(s, Len(s)) \cup Made(t, Len(t))
<1> DEFINE m == Len(s)
           n == Len(t)
           c == s \o t
<1>1. /\ c \in Seq(Splits) /\ m \in Nat /\ n \in Nat /\ Len(c) = m + n
      /\ \A i \in 1..m : c[i] = s[i]
      /\ \A i \in 1..n : c[m + i] = t[i]
  BY ConcatProperties
<1> HIDE DEF c, m, n
<1>2. ASSUME NEW i \in 1..m PROVE Made(c, i - 1) = Made(s, i - 1)
  <2>1. \A j \in 1..(i - 1) : j \in 1..m
    BY <1>1
  <2> QED BY <1>1, <2>1 DEF Made
<1>3. ASSUME NEW k \in 0..n PROVE Made(c, m + k) = Made(s, m) \cup Made(t, k)
  <2>1. ASSUME NEW j \in 1..(m + k) PROVE Both(c[j]) \in Made(s, m) \cup Made(t, k)
    <3>1. CASE j \in 1..m
      BY <1>1, <3>1 DEF Made
    <3>2. CASE j \notin 1..m
      <4>1. j - m \in 1..k /\ j - m \in 1..n /\ m + (j - m) = j
        BY <1>1, <3>2
      <4>2. c[j] = t[j - m]
        BY <1>1, <4>1
      <4> QED BY <4>1, <4>2 DEF Made
    <3> QED BY <3>1, <3>2
  <2>2. ASSUME NEW j \in 1..m PROVE Both(s[j]) \in Made(c, m + k)
    <3>1. j \in 1..(m + k)
      BY <1>1
    <3> QED BY <1>1, <3>1 DEF Made
  <2>3. ASSUME NEW j \in 1..k PROVE Both(t[j]) \in Made(c, m + k)
    <3>1. m + j \in 1..(m + k) /\ j \in 1..n
      BY <1>1
    <3>2. c[m + j] = t[j]
      BY <1>1, <3>1
    <3> QED BY <3>1, <3>2 DEF Made
  <2>4. Made(c, m + k) \subseteq Made(s, m) \cup Made(t, k)
    BY <2>1 DEF Made
  <2>5. Made(s, m) \subseteq Made(c, m + k) /\ Made(t, k) \subseteq Made(c, m + k)
    BY <2>2, <2>3 DEF Made
  <2> QED BY <2>4, <2>5
<1>4. ASSUME NEW i \in 1..n PROVE Made(c, (m + i) - 1) = Made(s, m) \cup Made(t, i - 1)
  <2>1. i - 1 \in 0..n /\ m + (i - 1) = (m + i) - 1
    BY <1>1
  <2> QED BY <1>3, <2>1
<1>5. Made(c, m + n) = Made(s, m) \cup Made(t, n)
  <2>1. n \in 0..n
    BY <1>1
  <2> QED BY <1>3, <2>1
<1> QED BY <1>1, <1>2, <1>4, <1>5 DEF c, m, n

LEMMA BuildsThen ==
  ASSUME NEW s, NEW t, NEW B, NEW T, NEW U, Builds(s, B, T), Builds(t, T, U)
  PROVE  Builds(s \o t, B, U)
<1> DEFINE m == Len(s)
           n == Len(t)
           c == s \o t
<1>0. s \in Seq(Splits) /\ t \in Seq(Splits) /\ B \in SUBSET Subproblems
  BY DEF Builds
<1>1. m \in Nat /\ n \in Nat
  BY <1>0
<1>2. /\ c \in Seq(Splits) /\ Len(c) = m + n
      /\ \A i \in 1..m : c[i] = s[i] /\ Made(c, i - 1) = Made(s, i - 1)
      /\ \A i \in 1..n : c[m + i] = t[i] /\ Made(c, (m + i) - 1) = Made(s, m) \cup Made(t, i - 1)
      /\ Made(c, m + n) = Made(s, m) \cup Made(t, n)
  BY <1>0, MadeThen
<1>3. /\ \A i \in 1..m : s[i][1] \in B \cup Made(s, i - 1) /\ s[i][2] \in B \cup Made(s, i - 1)
      /\ \A i \in 1..n : t[i][1] \in T \cup Made(t, i - 1) /\ t[i][2] \in T \cup Made(t, i - 1)
      /\ T \subseteq B \cup Made(s, m) /\ U \subseteq T \cup Made(t, n)
  BY DEF Builds, Ready
<1> HIDE DEF c, m, n
<1>4. ASSUME NEW i \in 1..(m + n) PROVE c[i][1] \in B \cup Made(c, i - 1) /\ c[i][2] \in B \cup Made(c, i - 1)
  <2>1. CASE i \in 1..m
    BY <1>2, <1>3, <2>1
  <2>2. CASE i \notin 1..m
    <3>1. PICK k \in 1..n : i = m + k
      <4>1. i - m \in 1..n /\ i = m + (i - m)
        BY <1>1, <2>2
      <4> QED BY <4>1
    <3>2. t[k][1] \in T \cup Made(t, k - 1) /\ t[k][2] \in T \cup Made(t, k - 1)
      BY <1>3
    <3>3. c[i] = t[k] /\ Made(c, i - 1) = Made(s, m) \cup Made(t, k - 1)
      BY <1>2, <3>1
    <3> QED BY <1>3, <3>2, <3>3
  <2> QED BY <2>1, <2>2
<1>5. U \subseteq B \cup Made(c, m + n)
  BY <1>2, <1>3
<1> QED BY <1>0, <1>2, <1>4, <1>5 DEF Builds, Ready, c

(* One after the other. *)
LEMMA BuildsBoth ==
  ASSUME NEW s, NEW t, NEW B, NEW T, NEW U, T \in SUBSET Subproblems, Builds(s, B, T), Builds(t, B, U)
  PROVE  Builds(s \o t, B, T \cup U)
<1>1. B \in SUBSET Subproblems
  BY DEF Builds
<1>2. Builds(s, B, B \cup T)
  BY <1>1, BuildsMore
<1>3. Builds(t, B \cup T, T \cup U)
  BY <1>1, BuildsMore
<1> QED BY <1>2, <1>3, BuildsThen

(* Row by row. *)
LEMMA FlattenBuilds ==
  ASSUME NEW rows \in Seq(Seq(Splits)), NEW B \in [0..Len(rows) -> SUBSET Subproblems],
         \A i \in 1..Len(rows) : Builds(rows[i], B[i - 1], B[i])
  PROVE  Builds(Flatten(rows), B[0], B[Len(rows)])
<1> DEFINE n == Len(rows)
<1>0. n \in Nat /\ 0 \in 0..n
  OBVIOUS
<1>1. CASE n = 0
  <2>1. Flatten(rows) = <<>>
    BY <1>1, EmptySeq DEF Flatten, FlattenSeq
  <2>2. PICK C \in SUBSET Subproblems : C = B[0]
    BY <1>0
  <2>3. Builds(<<>>, C, C)
    BY NothingBuilds
  <2>4. B[Len(rows)] = C
    BY <1>1, <2>2
  <2> QED BY <2>1, <2>2, <2>3, <2>4
<1>2. CASE n # 0
  <2>1. PICK f \in [1..n -> Seq(Splits)] : FlattenStep(rows, f) /\ Flatten(rows) = f[n]
    BY <1>2, FlattenEquation
  <2> DEFINE D == 1..n
             rank == [i \in D |-> i]
             Good == {i \in D : Builds(f[i], B[0], B[i])}
  <2>2. ASSUME NEW i \in D, \A j \in D : rank[j] < rank[i] => j \in Good PROVE i \in Good
    <3>1. CASE i = 1
      <4>1. f[i] = rows[i] /\ i - 1 = 0
        BY <2>1, <3>1 DEF FlattenStep
      <4>2. Builds(rows[i], B[i - 1], B[i])
        OBVIOUS
      <4> QED BY <4>1, <4>2
    <3>2. CASE i # 1
      <4>1. i - 1 \in D /\ rank[i - 1] < rank[i]
        BY <1>0, <3>2
      <4>2. f[i] = f[i - 1] \o rows[i]
        BY <2>1, <3>2 DEF FlattenStep
      <4>3. Builds(f[i - 1], B[0], B[i - 1]) /\ Builds(rows[i], B[i - 1], B[i])
        BY <2>2, <4>1
      <4>4. Builds(f[i - 1] \o rows[i], B[0], B[i])
        BY <4>3, BuildsThen, Zenon
      <4> QED BY <4>2, <4>4
    <3> QED BY <3>1, <3>2
  <2>3. rank \in [D -> Nat]
    BY <1>0
  <2>4. n \in D
    BY <1>0, <1>2
  <2> HIDE DEF D, rank, Good
  <2>5. Hereditary(D, rank, Good)
    BY <2>2 DEF Hereditary
  <2>6. \A i \in D : i \in Good
    BY <2>3, <2>5, RankInduction
  <2> QED BY <2>1, <2>4, <2>6 DEF D, Good
<1> QED BY <1>1, <1>2

LEMMA LeadsBuilds ==
  ASSUME NEW s, NEW P, NEW Q, NEW b, NEW weight, Leads(s, P, Q, b, weight)
  PROVE  Builds(s, P, Q)
<1>1. PICK between, left : Route(s, between, left, weight) /\ between[0] = P /\ between[Len(s)] = Q
  BY DEF Leads
<1> DEFINE n == Len(s)
<1>2. /\ s \in Seq(Splits) /\ n \in Nat /\ between \in [0..n -> Partitions]
      /\ \A i \in 1..n : JoinsTo(between[i - 1], s[i], between[i])
  BY <1>1 DEF Route
<1>3. P \in SUBSET Subproblems
  BY <1>1, <1>2, PartitionsFinite
<1> HIDE DEF n
<1> DEFINE D == 0..n
           rank == [i \in D |-> i]
           Good == {i \in D : between[i] \subseteq P \cup Made(s, i)}
<1>5. ASSUME NEW i \in D, \A j \in D : rank[j] < rank[i] => j \in Good PROVE i \in Good
  <2>1. CASE i = 0
    BY <1>1, <2>1
  <2>2. CASE i # 0
    <3>1. i - 1 \in D /\ rank[i - 1] < rank[i] /\ i \in 1..n /\ 1..i = 1..(i - 1) \cup {i}
      BY <1>2, <2>2
    <3>2. between[i - 1] \subseteq P \cup Made(s, i - 1)
      BY <1>5, <3>1
    <3>3. between[i] \subseteq between[i - 1] \cup {Both(s[i])}
      BY <1>2, <3>1 DEF JoinsTo, Both
    <3>4. Made(s, i) = Made(s, i - 1) \cup {Both(s[i])}
      BY <3>1 DEF Made
    <3> QED BY <3>2, <3>3, <3>4
  <2> QED BY <2>1, <2>2
<1>6. rank \in [D -> Nat] /\ n \in D
  BY <1>2
<1> HIDE DEF D, rank, Good
<1>7. Hereditary(D, rank, Good)
  BY <1>5 DEF Hereditary
<1>8. \A i \in D : i \in Good
  BY <1>6, <1>7, RankInduction
<1>9. \A i \in 0..n : between[i] \subseteq P \cup Made(s, i)
  BY <1>8 DEF Good, D
<1>10. ASSUME NEW i \in 1..n PROVE s[i][1] \in P \cup Made(s, i - 1) /\ s[i][2] \in P \cup Made(s, i - 1)
  <2>1. i - 1 \in 0..n
    BY <1>2
  <2>2. s[i][1] \in between[i - 1] /\ s[i][2] \in between[i - 1]
    BY <1>2 DEF JoinsTo
  <2> QED BY <1>9, <2>1, <2>2
<1>11. Q \subseteq P \cup Made(s, n)
  <2>1. n \in 0..n
    BY <1>2
  <2> QED BY <1>1, <1>9, <2>1 DEF n
<1> QED BY <1>2, <1>3, <1>10, <1>11 DEF Builds, Ready, n

LEMMA SourcesBuild ==
  /\ Bottom \in SUBSET Subproblems /\ Top \in SUBSET Subproblems
  /\ \A S \in Subproblems : Singleton(S) <=> S \in Bottom
<1>1. Bottom \in Partitions /\ Top \in Partitions
  BY TopFacts
<1>2. \A S : Singleton(S) <=> S \in Bottom
  BY DEF Singleton, Bottom
<1> QED BY <1>1, <1>2, PartitionsFinite

LEMMA GOOBuilds ==
  ASSUME GraphOK, CardOK, NEW nodes, Nodes(nodes)
  PROVE  Builds(GOOFrom(nodes), ToSet(nodes), Top)
<1>1. card \in Weights
  BY DEF CardOK, Weights
<1> QED BY <1>1, GOOFromLeads, LeadsBuilds

LEMMA LineBuilds ==
  ASSUME NEW s \in LineStates
  PROVE  Builds(s, Bottom, Top)
<1> DEFINE weight == [S \in Subproblems |-> 0]
<1>1. weight \in Weights
  BY DEF Weights
<1> HIDE DEF weight
<1> QED BY <1>1, LineLeads, LeadsBuilds

(* Below a cut, the plans of its sides come first. *)
LEMMA BelowBuilds ==
  ASSUME CardOK, NEW f, BelowStep(f)
  PROVE  \A S \in Subproblems : Builds(f[S], Bottom, {S})
<1> DEFINE Good == {S \in Subproblems : Builds(f[S], Bottom, {S})}
<1>0. Bottom \in SUBSET Subproblems /\ \A S \in Subproblems : Singleton(S) <=> S \in Bottom
  BY SourcesBuild
<1>1. ASSUME NEW S \in Subproblems, \A e \in Subproblems : SizeOf[e] < SizeOf[S] => e \in Good
      PROVE  S \in Good
  <2>0. f[S] = BelowBody(S, f)
    BY DEF BelowStep
  <2>1. CASE Singleton(S)
    <3>1. f[S] = <<>>
      BY <2>0, <2>1 DEF BelowBody
    <3>2. Builds(<<>>, Bottom, Bottom)
      BY <1>0, NothingBuilds
    <3>3. Builds(<<>>, Bottom, {S})
      BY <1>0, <2>1, <3>2, BuildsMore
    <3> QED BY <3>1, <3>3
  <2>2. CASE ~Singleton(S)
    <3> DEFINE p == BestCut(S)
    <3>1. p \in SplitsOf(S)
      BY <2>2, BestCutFacts
    <3>2. p \in Splits /\ p[1] \in Subproblems /\ p[2] \in Subproblems /\ Both(p) = S
      BY <3>1 DEF SplitsOf, Splits, Both
    <3>3. SizeOf[p[1]] < SizeOf[S] /\ SizeOf[p[2]] < SizeOf[S]
      BY <3>1, SidesAreSmaller
    <3>4. Builds(f[p[1]], Bottom, {p[1]}) /\ Builds(f[p[2]], Bottom, {p[2]})
      BY <1>1, <3>2, <3>3
    <3>5. f[S] = (f[p[1]] \o f[p[2]]) \o <<p>>
      BY <2>0, <2>2 DEF BelowBody
    <3> HIDE DEF p
    <3>6. Builds(f[p[1]] \o f[p[2]], Bottom, {p[1]} \cup {p[2]})
      BY <3>2, <3>4, BuildsBoth
    <3>7. Builds(<<p>>, {p[1], p[2]}, {S})
      BY <3>2, JoinBuilds
    <3>8. {p[1]} \cup {p[2]} = {p[1], p[2]}
      OBVIOUS
    <3>9. Builds((f[p[1]] \o f[p[2]]) \o <<p>>, Bottom, {S})
      BY <3>6, <3>7, <3>8, BuildsThen
    <3> QED BY <3>5, <3>9
  <2> QED BY <2>1, <2>2
<1> HIDE DEF Good
<1>2. Hereditary(Subproblems, SizeOf, Good)
  BY <1>1 DEF Hereditary
<1>3. \A S \in Subproblems : S \in Good
  BY <1>2, SizeTyped, RankInduction
<1> QED BY <1>3 DEF Good

LEMMA TDGOOBuilds ==
  ASSUME CardOK, NEW worklist \in Seq(Subproblems)
  PROVE  Builds(TDGOOFrom(worklist), Bottom, ToSet(worklist))
<1> DEFINE n == Len(worklist)
<1>0. n \in Nat /\ Bottom \in SUBSET Subproblems /\ \A i \in 1..n : worklist[i] \in Subproblems
  BY SourcesBuild
<1>1. PICK f : BelowStep(f) /\ TDGOOFrom(worklist) = Flatten([i \in 1..n |-> f[worklist[i]]])
  BY BelowEquation
<1> DEFINE rows == [i \in 1..n |-> f[worklist[i]]]
           B == [i \in 0..n |-> Bottom \cup {worklist[j] : j \in 1..i}]
<1>2. \A i \in 1..n : Builds(f[worklist[i]], Bottom, {worklist[i]})
  BY <1>0, <1>1, BelowBuilds
<1>3. rows \in Seq(Seq(Splits)) /\ Len(rows) = n /\ \A i \in 1..n : rows[i] = f[worklist[i]]
  <2>1. \A i \in 1..n : f[worklist[i]] \in Seq(Splits)
    BY <1>2 DEF Builds
  <2> HIDE DEF n
  <2> QED BY <1>0, <2>1, IsASeq
<1>4. B \in [0..n -> SUBSET Subproblems]
  <2>1. ASSUME NEW i \in 0..n PROVE Bottom \cup {worklist[j] : j \in 1..i} \in SUBSET Subproblems
    BY <1>0
  <2> QED BY <2>1
<1>5. ASSUME NEW i \in 1..n PROVE Builds(rows[i], B[i - 1], B[i])
  <2>1. i - 1 \in 0..n /\ i \in 0..n /\ 1..i = (1..(i - 1)) \cup {i}
    BY <1>0
  <2>2. Bottom \subseteq B[i - 1] /\ B[i] \subseteq {worklist[i]} \cup B[i - 1] /\ B[i - 1] \in SUBSET Subproblems
    BY <1>4, <2>1
  <2>3. Builds(rows[i], Bottom, {worklist[i]})
    BY <1>2, <1>3
  <2> HIDE DEF B, rows
  <2> QED BY <2>2, <2>3, BuildsMore
<1>6. B[0] = Bottom /\ ToSet(worklist) \subseteq B[n]
  <2>1. 0 \in 0..n /\ n \in 0..n /\ 1..0 = {}
    BY <1>0
  <2>2. ToSet(worklist) = {worklist[i] : i \in 1..n}
    BY ToSetFacts
  <2> QED BY <2>1, <2>2
<1> HIDE DEF rows, B, n
<1>7. Builds(Flatten(rows), B[0], B[n])
  BY <1>3, <1>4, <1>5, FlattenBuilds
<1>8. Builds(Flatten(rows), Bottom, ToSet(worklist))
  BY <1>0, <1>6, <1>7, BuildsMore
<1> QED BY <1>1, <1>8 DEF rows

LEMMA RightDeepBuilds ==
  ASSUME GraphOK, NEW l, Order(l)
  PROVE  Builds(RightDeep(l), Bottom, {})
<1> DEFINE s == RightDeep(l)
<1>0. N \in Nat /\ N # 0 /\ l \in Seq(Relations) /\ Len(l) = N
  BY NFacts DEF Order
<1>2. /\ s \in Seq(Splits) /\ Len(s) = N - 1
      /\ \A k \in 1..(N - 1) : s[k] = <<{l[k + 1]}, PrefixSet(l, k)>>
  <2>1. s \in Seq(JoinedSplits)
    BY RightDeepFacts
  <2> QED BY <1>0, <2>1 DEF RightDeep, JoinedSplits
<1> HIDE DEF s
<1>3. Bottom \in SUBSET Subproblems
  BY SourcesBuild
<1>4. ASSUME NEW k \in 1..(N - 1) PROVE s[k][1] \in Bottom \cup Made(s, k - 1) /\ s[k][2] \in Bottom \cup Made(s, k - 1)
  <2>1. s[k] = <<{l[k + 1]}, PrefixSet(l, k)>> /\ l[k + 1] \in Relations /\ k \in 1..N /\ l[k] \in Relations
    <3>1. k \in 1..N /\ k + 1 \in 1..N
      BY <1>0
    <3> DEFINE h == k + 1
    <3>2. l[h] \in Relations
      BY <1>0, <3>1
    <3> QED BY <1>0, <1>2, <3>1, <3>2
  <2>2. {l[k + 1]} \in Bottom /\ {l[k]} \in Bottom
    BY <2>1 DEF Bottom
  <2>3. CASE k = 1
    <3>1. PrefixSet(l, k) = {l[k]}
      BY <2>3 DEF PrefixSet
    <3> QED BY <2>1, <2>2, <3>1
  <2>4. CASE k # 1
    <3> DEFINE h == k - 1
    <3>1. h \in 1..(N - 1) /\ h + 1 = k /\ 1..k = 1..h \cup {k}
      BY <1>0, <2>4
    <3>2. s[h] = <<{l[k]}, PrefixSet(l, h)>>
      BY <1>2, <3>1
    <3> HIDE DEF h
    <3>3. Both(s[h]) = PrefixSet(l, k)
      BY <3>1, <3>2 DEF PrefixSet, Both
    <3>4. h \in 1..h
      BY <3>1
    <3>5. PrefixSet(l, k) \in Made(s, h)
      BY <3>3, <3>4 DEF Made
    <3> QED BY <2>1, <2>2, <3>5 DEF h
  <2> QED BY <2>3, <2>4
<1> QED BY <1>2, <1>3, <1>4 DEF Builds, Ready, s

(* All cuts in an order that settles are made after those of their sides. *)
LEMMA ExhaustsBuilds ==
  ASSUME NEW s, Exhausts(s, Splits)
  PROVE  Builds(s, Bottom, {})
<1>0. s \in Seq(Splits) /\ InOrder(s, Settles) /\ Covers(s, Splits) /\ Len(s) \in Nat
  BY DEF Exhausts
<1>1. Bottom \in SUBSET Subproblems /\ \A S \in Subproblems : Singleton(S) <=> S \in Bottom
  BY SourcesBuild
<1>2. ASSUME NEW i \in 1..Len(s), NEW S \in {s[i][1], s[i][2]} PROVE S \in Bottom \cup Made(s, i - 1)
  <2> SUFFICES ASSUME S \notin Bottom PROVE S \in Made(s, i - 1)
    OBVIOUS
  <2>1. s[i] \in Splits
    BY <1>0
  <2>2. S \in Subproblems /\ ~Singleton(S) /\ Both(s[i]) # S
    BY <1>1, <2>1, BothTyped DEF Both
  <2>3. PICK r \in S : S \ {r} # {}
    BY <2>2 DEF Subproblems, Singleton
  <2> DEFINE p == <<{r}, S \ {r}>>
  <2>4. p \in Splits /\ Both(p) = S /\ Both(Swapped(p)) = S
    <3>1. {r} \in Subproblems /\ S \ {r} \in Subproblems
      BY <2>2, <2>3 DEF Subproblems
    <3> QED BY <3>1, SplitsTyped DEF Both, Swapped
  <2> HIDE DEF p
  <2>5. p \in ToSet(s) \/ Swapped(p) \in ToSet(s)
    BY <1>0, <2>4 DEF Covers
  <2>6. PICK j \in 1..Len(s) : Both(s[j]) = S
    <3>1. ToSet(s) = {s[j] : j \in 1..Len(s)}
      BY <1>0, ToSetFacts
    <3> QED BY <2>4, <2>5, <3>1
  <2>7. ~(i < j)
    <3> SUFFICES ASSUME i < j PROVE FALSE
      OBVIOUS
    <3>1. <<s[i], s[j]>> \in Settles
      BY <1>0 DEF InOrder
    <3>2. Result(s[j]) = S
      BY <2>6 DEF Both, Result
    <3> QED BY <3>1, <3>2 DEF Settles
  <2>8. j # i
    BY <2>2, <2>6
  <2>9. j \in 1..(i - 1)
    BY <1>0, <2>7, <2>8
  <2> QED BY <2>6, <2>9 DEF Made
<1> QED BY <1>0, <1>1, <1>2 DEF Builds, Ready

(* As tasks such joins need no test. *)
LEMMA JoinsSupported ==
  ASSUME NEW s, NEW B, NEW T, Builds(s, B, T), NEW planned, B \subseteq planned
  PROVE  Supported(Joins(s), planned)
<1>0. s \in Seq(Splits) /\ Len(s) \in Nat /\ Ready(s, B)
  BY DEF Builds
<1> DEFINE t == Joins(s)
<1>1. Len(t) = Len(s) /\ \A i \in 1..Len(s) : t[i] = Join(s[i])
  BY <1>0 DEF Joins
<1> HIDE DEF t
<1>2. \A i \in 1..Len(s) : t[i][2] = s[i][1] /\ t[i][3] = s[i][2] /\ Scope(t[i]) = Both(s[i])
  BY <1>1 DEF Join, Scope, UnionOf, Both
<1>3. \A i \in 1..Len(s) : Scopes(t, i - 1) = Made(s, i - 1)
  <2> SUFFICES ASSUME NEW i \in 1..Len(s) PROVE Scopes(t, i - 1) = Made(s, i - 1)
    OBVIOUS
  <2>1. \A j \in 1..(i - 1) : j \in 1..Len(s)
    BY <1>0
  <2> QED BY <1>2, <2>1 DEF Scopes, Made
<1> QED BY <1>0, <1>1, <1>2, <1>3 DEF Supported, Ready, t

LEMMA VisitsSupported ==
  ASSUME NEW s, NEW B, NEW T, Builds(s, B, T), NEW planned, B \subseteq planned
  PROVE  Visits(s) \in Seq(VisitTasks) /\ Supported(Visits(s), planned)
<1>0. s \in Seq(Splits) /\ Len(s) \in Nat /\ Ready(s, B)
  BY DEF Builds
<1> DEFINE t == Visits(s)
<1>1. t \in Seq(VisitTasks) /\ Len(t) = Len(s) /\ \A i \in 1..Len(s) : t[i] = Visit(s[i])
  <2>1. \A i \in 1..Len(s) : Visit(s[i]) \in VisitTasks
    BY <1>0 DEF VisitTasks
  <2>2. t = [i \in 1..Len(s) |-> Visit(s[i])]
    BY DEF Visits, Visit
  <2> HIDE DEF t
  <2> QED BY <1>0, <2>1, <2>2, IsASeq
<1> HIDE DEF t
<1>2. \A i \in 1..Len(s) : t[i][2] = s[i][1] /\ t[i][3] = s[i][2] /\ Scope(t[i]) = Both(s[i])
  BY <1>1 DEF Visit, Scope, UnionOf, Both
<1>3. \A i \in 1..Len(s) : Scopes(t, i - 1) = Made(s, i - 1)
  <2> SUFFICES ASSUME NEW i \in 1..Len(s) PROVE Scopes(t, i - 1) = Made(s, i - 1)
    OBVIOUS
  <2>1. \A j \in 1..(i - 1) : j \in 1..Len(s)
    BY <1>0
  <2> QED BY <1>2, <2>1 DEF Scopes, Made
<1> QED BY <1>0, <1>1, <1>2, <1>3 DEF Supported, Ready, t

(* The path to a state makes it from the sources, or the query from it. *)
LEMMA PlanToBuilds ==
  ASSUME HsOK, hs # NoSearch, NEW goal \in DOMAIN known
  PROVE  IF topDown THEN Builds(PlanTo(goal), goal, Top) ELSE Builds(PlanTo(goal), Bottom, goal)
<1>1. PICK f : PathStep(f) /\ PlanTo(goal) = f[goal]
  BY PathEquation
<1>2. Top \in SUBSET Subproblems /\ Bottom \in SUBSET Subproblems
  BY SourcesBuild
<1> DEFINE D == DOMAIN known
           Done(Q) == IF topDown THEN Builds(f[Q], Q, Top) ELSE Builds(f[Q], Bottom, Q)
           Good == {Q \in D : Done(Q)}
<1>3. ASSUME NEW P \in Divisions, NEW Q \in Divisions, OneJoin(P, Q)
      PROVE  Builds(<<Delta(P, Q)>>, P, Q)
  <2> DEFINE p == Delta(P, Q)
  <2>1. p \in Splits /\ p[1] \in P /\ p[2] \in P /\ Q \subseteq {Both(p)} \cup P
    BY <1>3, DeltaJoins DEF JoinsTo, Both
  <2> HIDE DEF p
  <2>2. Builds(<<p>>, {p[1], p[2]}, {Both(p)})
    BY <2>1, JoinBuilds
  <2>3. P \in SUBSET Subproblems
    BY DivisionFacts
  <2> QED BY <2>1, <2>2, <2>3, BuildsMore DEF p
<1>4. ASSUME NEW Q \in D, \A e \in D : PathRank[e] < PathRank[Q] => e \in Good
      PROVE  Q \in Good
  <2> DEFINE P == known[Q].parent
  <2>0. f[Q] = PathBody(Q, f) /\ ParentOK(Q) /\ Q \in Divisions /\ D \in SUBSET Divisions /\ topDown \in BOOLEAN
    BY <1>1 DEF PathStep, HsOK
  <2>1. CASE P = {}
    <3>1. f[Q] = <<>> /\ Q = Start
      BY <2>0, <2>1 DEF PathBody, ParentOK
    <3>2. Builds(<<>>, Top, Top) /\ Builds(<<>>, Bottom, Bottom)
      BY <1>2, NothingBuilds
    <3>3. Done(Q)
      BY <2>0, <3>1, <3>2 DEF Start
    <3> QED BY <3>3
  <2>2. CASE P # {}
    <3>1. P \in D /\ OneStep(P, Q) /\ PathRank[P] < PathRank[Q]
      BY <2>0, <2>2, PathRankFacts DEF ParentOK
    <3>2. Done(P) /\ P \in Divisions
      BY <1>4, <2>0, <3>1
    <3>3. CASE topDown
      <4>1. f[Q] = <<Delta(Q, P)>> \o f[P]
        BY <2>0, <2>2, <3>3 DEF PathBody
      <4> HIDE DEF P
      <4>2. Builds(<<Delta(Q, P)>>, Q, P)
        BY <1>3, <2>0, <3>1, <3>2, <3>3 DEF OneStep
      <4>3. Builds(f[P], P, Top)
        BY <3>2, <3>3
      <4>4. Builds(<<Delta(Q, P)>> \o f[P], Q, Top)
        BY <4>2, <4>3, BuildsThen, Zenon
      <4> QED BY <3>3, <4>1, <4>4
    <3>4. CASE ~topDown
      <4>1. f[Q] = f[P] \o <<Delta(P, Q)>>
        BY <2>0, <2>2, <3>4 DEF PathBody
      <4> HIDE DEF P
      <4>2. Builds(<<Delta(P, Q)>>, P, Q)
        BY <1>3, <2>0, <3>1, <3>2, <3>4 DEF OneStep
      <4>3. Builds(f[P], Bottom, P)
        BY <3>2, <3>4
      <4>4. Builds(f[P] \o <<Delta(P, Q)>>, Bottom, Q)
        BY <4>2, <4>3, BuildsThen, Zenon
      <4> QED BY <3>4, <4>1, <4>4
    <3> QED BY <3>3, <3>4
  <2> QED BY <2>1, <2>2
<1> HIDE DEF Good, Done
<1>5. Hereditary(D, PathRank, Good)
  BY <1>4 DEF Hereditary
<1>6. PathRank \in [D -> Nat]
  BY PathRankFacts
<1> HIDE DEF D
<1>7. \A Q \in D : Q \in Good
  BY <1>5, <1>6, RankInduction
<1> QED BY <1>1, <1>7 DEF D, Good, Done

-----------------------------------------------------------------------------
(* DPccp: where the sets are that its searches meet. *)

LEMMA Shifted ==
  \A m, d \in Nat : (\A j \in 1..d : m + j \in 1..(m + d)) /\ (\A j \in 1..m : j \in 1..(m + d))
OBVIOUS

LEMMA SeqLength ==
  ASSUME NEW T, NEW q \in Seq(T)
  PROVE  Len(q) \in Nat
OBVIOUS

Prolongs(a, b, c) ==
  /\ Len(c) = Len(a) + Len(b)
  /\ \A j \in 1..Len(a) : c[j] = a[j]
  /\ \A j \in 1..Len(b) : c[Len(a) + j] = b[j]

LEMMA ConcatProlongs ==
  ASSUME NEW T, NEW a \in Seq(T), NEW b \in Seq(T)
  PROVE  Prolongs(a, b, a \o b)
BY DEF Prolongs

(* Where the rows are in the flattened sequence. *)
Places(s, off) ==
  /\ off \in [0..Len(s) -> Nat] /\ off[0] = 0 /\ Len(Flatten(s)) = off[Len(s)]
  /\ \A i \in 1..Len(s) : off[i] = off[i - 1] + Len(s[i])
  /\ \A i \in 1..Len(s) : \A j \in 1..Len(s[i]) :
       off[i - 1] + j \in 1..Len(Flatten(s)) /\ Flatten(s)[off[i - 1] + j] = s[i][j]

LEMMA FlattenPlaces ==
  ASSUME NEW T, NEW s \in Seq(Seq(T))
  PROVE  \E off : Places(s, off)
<1> DEFINE n == Len(s)
<1>0. n \in Nat /\ \A i \in 1..n : s[i] \in Seq(T) /\ Len(s[i]) \in Nat
  OBVIOUS
<1>1. CASE n = 0
  <2>1. Flatten(s) = <<>>
    BY <1>1, EmptySeq DEF Flatten, FlattenSeq
  <2> DEFINE off == [i \in 0..n |-> 0]
  <2>2. off \in [0..n -> Nat] /\ off[0] = 0 /\ Len(Flatten(s)) = off[n] /\ 1..n = {}
    BY <1>1, <2>1
  <2> HIDE DEF off
  <2>3. Places(s, off)
    BY <2>2 DEF Places
  <2> QED BY <2>3
<1>2. CASE n # 0
  <2>1. PICK f \in [1..n -> Seq(T)] : FlattenStep(s, f) /\ Flatten(s) = f[n]
    BY <1>2, FlattenEquation
  <2> DEFINE off == [i \in 0..n |-> IF i = 0 THEN 0 ELSE Len(f[i])]
  <2>2. /\ off \in [0..n -> Nat] /\ off[0] = 0
        /\ \A i \in 1..n : off[i] = Len(f[i]) /\ f[i] \in Seq(T)
    <3>a. \A i \in 1..n : f[i] \in Seq(T)
      OBVIOUS
    <3> HIDE DEF n
    <3>1. \A i \in 1..n : f[i] \in Seq(T) /\ Len(f[i]) \in Nat
      BY <3>a, SeqLength
    <3>2. 0 \in 0..n /\ \A i \in 0..n : i = 0 \/ i \in 1..n
      BY <1>0
    <3>3. \A i \in 0..n : (IF i = 0 THEN 0 ELSE Len(f[i])) \in Nat
      BY <3>1, <3>2
    <3>4. \A i \in 1..n : i \in 0..n /\ i # 0
      BY <1>0
    <3> QED BY <3>1, <3>2, <3>3, <3>4
  <2> HIDE DEF n
  <2>3. \A i \in 1..n : f[i] = IF i = 1 THEN s[i] ELSE f[i - 1] \o s[i]
    BY <2>1 DEF FlattenStep, n
  <2> HIDE DEF off
  <2>4. ASSUME NEW i \in 1..n
        PROVE  /\ off[i] = off[i - 1] + Len(s[i])
               /\ \A j \in 1..Len(s[i]) : off[i - 1] + j \in 1..Len(f[i]) /\ f[i][off[i - 1] + j] = s[i][j]
               /\ i # 1 => \A j \in 1..off[i - 1] : j \in 1..Len(f[i]) /\ f[i][j] = f[i - 1][j]
    <3>0. s[i] \in Seq(T) /\ Len(s[i]) \in Nat
      BY <1>0
    <3>1. CASE i = 1
      <4>a. i - 1 = 0
        BY <3>1
      <4>1. f[i] = s[i] /\ off[i - 1] = 0 /\ off[i] = Len(s[i])
        BY <2>2, <2>3, <3>1, <4>a
      <4> HIDE DEF n
      <4>2. \A j \in 1..Len(s[i]) : 0 + j = j
        BY <3>0
      <4>3. off[i] = off[i - 1] + Len(s[i])
        BY <3>0, <4>1
      <4>4. \A j \in 1..Len(s[i]) : off[i - 1] + j \in 1..Len(f[i]) /\ f[i][off[i - 1] + j] = s[i][j]
        <5> SUFFICES ASSUME NEW j \in 1..Len(s[i])
                     PROVE  off[i - 1] + j \in 1..Len(f[i]) /\ f[i][off[i - 1] + j] = s[i][j]
          OBVIOUS
        <5>1. off[i - 1] + j = j
          BY <4>1, <4>2
        <5> QED BY <4>1, <5>1
      <4> QED BY <3>1, <4>3, <4>4
    <3>2. CASE i # 1
      <4>1. i - 1 \in 1..n
        BY <1>0, <3>2
      <4>2. f[i] = f[i - 1] \o s[i] /\ f[i - 1] \in Seq(T) /\ off[i - 1] = Len(f[i - 1]) /\ off[i] = Len(f[i])
        BY <2>2, <2>3, <3>2, <4>1
      <4>3. /\ Len(f[i]) = Len(f[i - 1]) + Len(s[i])
            /\ \A j \in 1..Len(f[i - 1]) : f[i][j] = f[i - 1][j]
            /\ \A j \in 1..Len(s[i]) : f[i][Len(f[i - 1]) + j] = s[i][j]
        <5>1. s[i] \in Seq(T) /\ f[i - 1] \in Seq(T)
          BY <3>0, <4>2
        <5>2. Prolongs(f[i - 1], s[i], f[i - 1] \o s[i])
          BY <5>1, ConcatProlongs, Zenon
        <5>3. Prolongs(f[i - 1], s[i], f[i])
          BY <4>2, <5>2
        <5> QED BY <5>3 DEF Prolongs
      <4> PICK m \in Nat : m = Len(f[i - 1])
        BY <4>2
      <4> PICK d \in Nat : d = Len(s[i])
        BY <3>0
      <4>4. off[i - 1] = m /\ Len(f[i]) = m + d /\ off[i] = m + d
        BY <4>2, <4>3
      <4>5. (\A j \in 1..d : m + j \in 1..(m + d)) /\ (\A j \in 1..m : j \in 1..(m + d))
        BY Shifted
      <4> QED BY <4>3, <4>4, <4>5
    <3> QED BY <3>1, <3>2
  <2> DEFINE D == 1..n
             rank == [k \in D |-> k]
             Good == {k \in D : \A i \in 1..k : \A j \in 1..Len(s[i]) :
                        off[i - 1] + j \in 1..Len(f[k]) /\ f[k][off[i - 1] + j] = s[i][j]}
  <2>5. ASSUME NEW k \in D, \A e \in D : rank[e] < rank[k] => e \in Good PROVE k \in Good
    <3> SUFFICES ASSUME NEW i \in 1..k, NEW j \in 1..Len(s[i])
                 PROVE  off[i - 1] + j \in 1..Len(f[k]) /\ f[k][off[i - 1] + j] = s[i][j]
      OBVIOUS
    <3>1. CASE i = k
      BY <2>4, <3>1
    <3>2. CASE i # k
      <4>1. k - 1 \in D /\ rank[k - 1] < rank[k] /\ i \in 1..(k - 1) /\ k # 1
        BY <1>0, <3>2
      <4>2. off[i - 1] + j \in 1..Len(f[k - 1]) /\ f[k - 1][off[i - 1] + j] = s[i][j]
        BY <2>5, <4>1
      <4>3. Len(f[k - 1]) = off[k - 1]
        BY <2>2, <4>1
      <4>4. \A x \in 1..off[k - 1] : x \in 1..Len(f[k]) /\ f[k][x] = f[k - 1][x]
        BY <2>4, <4>1
      <4> QED BY <4>2, <4>3, <4>4
    <3> QED BY <3>1, <3>2
  <2>6. rank \in [D -> Nat] /\ n \in D
    BY <1>0, <1>2
  <2> HIDE DEF D, rank, Good
  <2>7. Hereditary(D, rank, Good)
    BY <2>5 DEF Hereditary
  <2>8. n \in Good
    BY <2>6, <2>7, RankInduction
  <2>9. \A i \in 1..n : \A j \in 1..Len(s[i]) : off[i - 1] + j \in 1..Len(f[n]) /\ f[n][off[i - 1] + j] = s[i][j]
    BY <2>8 DEF Good
  <2>10. n \in 1..n
    BY <1>0, <1>2
  <2>11. Places(s, off)
    BY <2>1, <2>2, <2>4, <2>9, <2>10 DEF Places, n
  <2> QED BY <2>11
<1> QED BY <1>1, <1>2

LEMMA PlacesCover ==
  ASSUME NEW T, NEW s \in Seq(Seq(T)), NEW off, Places(s, off)
  PROVE  \A x \in 1..Len(Flatten(s)) : \E i \in 1..Len(s) : \E j \in 1..Len(s[i]) : x = off[i - 1] + j
<1> DEFINE n == Len(s)
           Good == {k \in 0..n : \A x \in 1..off[k] :
                      \E i \in 1..n : \E j \in 1..Len(s[i]) : x = off[i - 1] + j}
<1>0. n \in Nat /\ \A i \in 1..n : Len(s[i]) \in Nat
  OBVIOUS
<1>1. /\ off \in [0..n -> Nat] /\ off[0] = 0 /\ Len(Flatten(s)) = off[n]
      /\ \A i \in 1..n : off[i] = off[i - 1] + Len(s[i])
  BY DEF Places
<1>2. 0 \in Good
  BY <1>0, <1>1
<1> HIDE DEF n
<1>3. ASSUME NEW k \in 1..n, k - 1 \in Good PROVE k \in Good
  <2>0. k \in 0..n /\ k - 1 \in 0..n
    BY <1>0
  <2>1. off[k] = off[k - 1] + Len(s[k]) /\ off[k - 1] \in Nat /\ Len(s[k]) \in Nat
    BY <1>0, <1>1, <2>0
  <2> SUFFICES ASSUME NEW x \in 1..off[k]
               PROVE  \E i \in 1..n : \E j \in 1..Len(s[i]) : x = off[i - 1] + j
    BY <2>0
  <2>2. CASE x \in 1..off[k - 1]
    BY <1>3, <2>2
  <2>3. CASE x \notin 1..off[k - 1]
    <3>1. x - off[k - 1] \in 1..Len(s[k]) /\ x = off[k - 1] + (x - off[k - 1])
      BY <2>1, <2>3
    <3> QED BY <3>1
  <2> QED BY <2>2, <2>3
<1> HIDE DEF Good
<1>4. Inductive(n, Good)
  BY <1>2, <1>3 DEF Inductive
<1>5. n \in Good
  BY <1>0, <1>4, UpTo
<1> QED BY <1>1, <1>5 DEF Good, n

(* What a search from S may meet, and how it goes on. *)
Region(super, S, X)  == {Y \in Around(super, S) : Linked(Y) /\ Y \cap X \subseteq S}
SearchEntries(super, S, X) == Region(super, S, X) \X {Z \in SUBSET Relations : X \subseteq Z}

LEMMA NeighborsLinked ==
  ASSUME NEW S \in Subproblems, Linked(S), NEW A \in SUBSET Neighbors(S)
  PROVE  Linked(S \cup A)
<1>0. S \in SUBSET Relations /\ S # {} /\ A \subseteq Relations \ S
  BY DEF Subproblems, Neighbors
<1>1. \A w \in A : \E u \in S : {u, w} \in graph
  BY DEF Neighbors
<1> SUFFICES ASSUME NEW L \in (SUBSET (S \cup A)) \ {{}, S \cup A} PROVE Joined(L, (S \cup A) \ L)
  BY DEF Linked
<1>2. CASE L \cap S = {}
  <2>1. PICK w \in L : w \in A
    BY <1>2
  <2>2. PICK u \in S : {u, w} \in graph
    BY <1>1, <2>1
  <2>3. u \notin L /\ u \in Relations /\ {u, w} = {w, u}
    BY <1>0, <1>2, <2>2
  <2>4. u \in Neighbors(L)
    BY <2>1, <2>2, <2>3 DEF Neighbors
  <2> QED BY <2>3, <2>4 DEF Joined
<1>3. CASE S \subseteq L
  <2>1. PICK w \in A : w \notin L
    BY <1>3
  <2>2. w \in Neighbors(L)
    BY <1>0, <1>1, <1>3, <2>1 DEF Neighbors
  <2> QED BY <2>1, <2>2 DEF Joined
<1>4. CASE L \cap S # {} /\ ~(S \subseteq L)
  <2>1. L \cap S \in (SUBSET S) \ {{}, S}
    BY <1>4
  <2>2. Joined(L \cap S, S \ (L \cap S))
    BY <2>1 DEF Linked
  <2>3. PICK v : v \in Neighbors(L \cap S) /\ v \in S \ (L \cap S)
    BY <2>2 DEF Joined
  <2>4. v \in Neighbors(L)
    BY <2>3 DEF Neighbors
  <2> QED BY <2>3, <2>4 DEF Joined
<1> QED BY <1>2, <1>3, <1>4

LEMMA ExtensionsMeet ==
  ASSUME NEW super \in SUBSET Relations, NEW S, S # {}, NEW X \in SUBSET Relations,
         NEW Y, NEW Z, <<Y, Z>> \in SearchEntries(super, S, X)
  PROVE  LET some == ByValue((SUBSET ((Neighbors(Y) \cap super) \ Z)) \ {{}})
         IN  /\ Extensions(super, Y, Z) \in Seq(SearchEntries(super, S, X))
             /\ some \in Seq((SUBSET ((Neighbors(Y) \cap super) \ Z)) \ {{}})
             /\ Extensions(super, Y, Z) =
                  [i \in 1..Len(some) |-> <<Y \cup some[i], Z \cup ((Neighbors(Y) \cap super) \ Z)>>]
<1> DEFINE nbrs == (Neighbors(Y) \cap super) \ Z
           F == (SUBSET nbrs) \ {{}}
           some == ByValue(F)
<1>0. /\ Y \in SUBSET super /\ S \subseteq Y /\ Linked(Y) /\ Y \cap X \subseteq S
      /\ Z \in SUBSET Relations /\ X \subseteq Z
  BY DEF SearchEntries, Region, Around
<1>1. F \in SUBSET (SUBSET Relations) /\ nbrs \in SUBSET super /\ nbrs \cap X = {} /\ nbrs \in SUBSET Neighbors(Y)
  BY <1>0
<1>2. some \in Seq(F)
  <2> HIDE DEF F
  <2> QED BY <1>1, ByValueFacts
<1>3. Extensions(super, Y, Z) = [i \in 1..Len(some) |-> <<Y \cup some[i], Z \cup nbrs>>]
  BY DEF Extensions
<1> HIDE DEF some, nbrs
<1>4. Y \in Subproblems
  BY <1>0 DEF Subproblems
<1>5. ASSUME NEW i \in 1..Len(some)
      PROVE  <<Y \cup some[i], Z \cup nbrs>> \in SearchEntries(super, S, X)
  <2>1. some[i] \in SUBSET nbrs
    BY <1>2
  <2>2. Linked(Y \cup some[i])
    BY <1>0, <1>1, <1>4, <2>1, NeighborsLinked
  <2>3. Y \cup some[i] \in SUBSET super /\ S \subseteq Y \cup some[i] /\ (Y \cup some[i]) \cap X \subseteq S
    BY <1>0, <1>1, <2>1
  <2>4. Z \cup nbrs \in SUBSET Relations /\ X \subseteq Z \cup nbrs
    BY <1>0, <1>1
  <2> QED BY <2>2, <2>3, <2>4 DEF SearchEntries, Region, Around
<1>6. Extensions(super, Y, Z) \in Seq(SearchEntries(super, S, X))
  <2> HIDE DEF F
  <2> QED BY <1>2, <1>3, <1>5, IsASeq
<1> QED BY <1>2, <1>3, <1>6 DEF some, nbrs

LEMMA LevelsMeet ==
  ASSUME NEW super \in SUBSET Relations, NEW S \in SUBSET super, S # {}, Linked(S), NEW X \in SUBSET Relations,
         NEW f, LevelStep(super, S, X, f)
  PROVE  \A k \in 0..N : f[k] \in Seq(SearchEntries(super, S, X))
<1> DEFINE E == SearchEntries(super, S, X)
           Good == {k \in 0..N : f[k] \in Seq(E)}
<1>0. N \in Nat
  BY NFacts
<1>1. 0 \in Good
  <2>1. f[0] = <<<<S, X>>>> /\ 0 \in 0..N
    BY <1>0 DEF LevelStep
  <2>2. <<S, X>> \in E
    BY DEF SearchEntries, Region, Around
  <2> HIDE DEF E
  <2>3. <<<<S, X>>>> \in Seq(E)
    BY <2>2
  <2> QED BY <2>1, <2>3
<1>2. ASSUME NEW k \in 1..N, k - 1 \in Good PROVE k \in Good
  <2> DEFINE last == f[k - 1]
             rows == [i \in 1..Len(last) |-> Extensions(super, last[i][1], last[i][2])]
  <2>0. k \in 0..N /\ k # 0 /\ last \in Seq(E)
    BY <1>0, <1>2
  <2>1. f[k] = Flatten(rows)
    BY <2>0 DEF LevelStep
  <2> HIDE DEF last
  <2>2. ASSUME NEW i \in 1..Len(last) PROVE Extensions(super, last[i][1], last[i][2]) \in Seq(E)
    <3>1. last[i] \in E
      BY <2>0
    <3>2. <<last[i][1], last[i][2]>> \in E
      BY <3>1 DEF SearchEntries
    <3> QED BY <3>2, ExtensionsMeet
  <2> HIDE DEF E
  <2>3. rows \in Seq(Seq(E))
    BY <2>0, <2>2, IsASeq
  <2> QED BY <2>0, <2>1, <2>3, FlattenTyped
<1> HIDE DEF Good
<1>3. Inductive(N, Good)
  BY <1>1, <1>2 DEF Inductive
<1>4. \A k \in 0..N : k \in Good
  BY <1>0, <1>3, UpTo
<1> HIDE DEF E
<1>5. \A k \in 0..N : f[k] \in Seq(E)
  BY <1>4 DEF Good
<1> QED BY <1>5 DEF E

LEMMA FoundTyped ==
  ASSUME NEW A, NEW C, NEW q \in Seq(A \X C)
  PROVE  Found(q) \in Seq(A) /\ Len(Found(q)) = Len(q) /\ \A i \in 1..Len(q) : Found(q)[i] = q[i][1]
<1>1. \A i \in 1..Len(q) : q[i] \in A \X C
  OBVIOUS
<1>2. \A i \in 1..Len(q) : q[i][1] \in A
  BY <1>1
<1> QED BY <1>2, IsASeq DEF Found

(* A search as its levels, one after the other. *)
LEMMA SearchMeets ==
  ASSUME NEW super \in SUBSET Relations, NEW S \in SUBSET super, S # {}, Linked(S), NEW X \in SUBSET Relations
  PROVE  /\ SearchFrom(super, S, X) \in Seq(Region(super, S, X))
         /\ \E f : /\ LevelStep(super, S, X, f)
                   /\ \A k \in 0..N : f[k] \in Seq(SearchEntries(super, S, X))
                   /\ SearchFrom(super, S, X) = Flatten([k \in 1..N |-> Found(f[k - 1])])
<1>1. PICK f \in [0..N -> Seq(Around(super, S) \X SUBSET Relations)] :
        LevelStep(super, S, X, f) /\ SearchFrom(super, S, X) = Flatten([k \in 1..N |-> Found(f[k - 1])])
  BY SearchFromEquation
<1>2. \A k \in 0..N : f[k] \in Seq(SearchEntries(super, S, X))
  <2>1. LevelStep(super, S, X, f)
    BY <1>1
  <2> QED BY <2>1, LevelsMeet, Zenon
<1>3. N \in Nat /\ \A k \in 1..N : k - 1 \in 0..N
  BY NFacts
<1>4. ASSUME NEW k \in 1..N PROVE Found(f[k - 1]) \in Seq(Region(super, S, X))
  <2>1. f[k - 1] \in Seq(Region(super, S, X) \X {Z \in SUBSET Relations : X \subseteq Z})
    BY <1>2, <1>3, Zenon DEF SearchEntries
  <2> QED BY <2>1, FoundTyped, Zenon
<1>5. [k \in 1..N |-> Found(f[k - 1])] \in Seq(Seq(Region(super, S, X)))
  BY <1>3, <1>4, IsASeq
<1>6. SearchFrom(super, S, X) \in Seq(Region(super, S, X))
  BY <1>1, <1>5, FlattenTyped
<1> QED BY <1>1, <1>2, <1>6

(* The row of joins of a set with its partners, and what it can grow to. *)
PartnersOf(S) == ConnectedSubgraphs({v \in All \ S : v <= Max(S)}, Neighbors(S))
RowOf(S)      == [j \in 1..Len(PartnersOf(S)) |-> <<S, PartnersOf(S)[j]>>]
Pushes(S)     == {S \cup {v} : v \in {u \in Neighbors(S) : u <= Max(S)}}

LEMMA OneIsFound ==
  ASSUME NEW q, Len(q) = 1
  PROVE  ToSet(Found(q)) = {q[1][1]}
<1>1. Found(q) = [i \in 1..1 |-> q[i][1]]
  BY DEF Found
<1>2. Len(Found(q)) = 1 /\ Found(q)[1] = q[1][1] /\ 1..1 = {1}
  BY <1>1
<1> HIDE DEF Found
<1> QED BY <1>2 DEF ToSet

(* A search first finds the set that it starts from. *)
LEMMA StartIsFound ==
  ASSUME NEW super \in SUBSET Relations, NEW S \in SUBSET super, NEW X \in SUBSET Relations
  PROVE  S \in ToSet(SearchFrom(super, S, X))
<1> DEFINE A == Around(super, S)
           F == Seq(A \X SUBSET Relations)
<1>1. PICK f \in [0..N -> F] :
        LevelStep(super, S, X, f) /\ SearchFrom(super, S, X) = Flatten([k \in 1..N |-> Found(f[k - 1])])
  BY SearchFromEquation
<1> DEFINE rows == [k \in 1..N |-> Found(f[k - 1])]
<1>2. \A k \in 1..N : Found(f[k - 1]) \in Seq(A)
  <2>1. \A k \in 1..N : k - 1 \in 0..N
    BY NFacts
  <2>2. ASSUME NEW q \in F PROVE Found(q) \in Seq(A)
    <3>1. \A i \in 1..Len(q) : q[i] \in A \X SUBSET Relations
      OBVIOUS
    <3>2. \A i \in 1..Len(q) : q[i][1] \in A
      BY <3>1
    <3> QED BY <3>2, IsASeq DEF Found
  <2> HIDE DEF A, F
  <2> QED BY <2>1, <2>2
<1>3. rows \in Seq(Seq(A)) /\ Len(rows) = N
  <2> HIDE DEF A
  <2> QED BY <1>2, NFacts, IsASeq
<1>4. rows[1] = Found(f[0]) /\ 1 \in 1..Len(rows)
  BY <1>3, NFacts
<1>5. f[0] = <<<<S, X>>>>
  <2>1. 0 \in 0..N
    BY NFacts
  <2> QED BY <1>1, <2>1 DEF LevelStep
<1>6. S \in ToSet(rows[1])
  <2>0. PICK q : q = <<<<S, X>>>> /\ q = f[0]
    BY <1>5
  <2>a. Len(q) = 1 /\ q[1] = <<S, X>>
    BY <2>0
  <2>1. ToSet(Found(q)) = {q[1][1]}
    BY <2>a, OneIsFound
  <2> QED BY <1>4, <2>0, <2>1, <2>a
<1> HIDE DEF rows, A
<1>7. ToSet(Flatten(rows)) = UNION {ToSet(rows[i]) : i \in 1..Len(rows)}
  BY <1>3, FlattenElements
<1>8. S \in ToSet(Flatten(rows))
  BY <1>4, <1>6, <1>7
<1> QED BY <1>1, <1>8 DEF rows

LEMMA PartnersFound ==
  ASSUME GraphOK, NEW S \in Subproblems, NEW v \in Neighbors(S), v <= Max(S)
  PROVE  {v} \in ToSet(PartnersOf(S))
<1> DEFINE super == {u \in All \ S : u <= Max(S)}
           source == Neighbors(S) \cap super
           from == Ascending(source)
           X(i) == {u \in source : u > from[i]}
           rows == [i \in 1..Len(from) |-> SearchFrom(super, {from[i]}, X(i))]
<1>1. PartnersOf(S) = Flatten(rows)
  BY DEF PartnersOf, ConnectedSubgraphs
<1>2. super \in SUBSET Relations /\ source \in SUBSET Relations /\ v \in source /\ source \subseteq super
  BY DEF Neighbors, All
<1>3. \A i : X(i) \in SUBSET Relations
  BY <1>2
<1> HIDE DEF super, source
<1>4. from \in Seq(source) /\ ToSet(from) = source
  BY <1>2, AscendingFacts
<1> HIDE DEF from, X
<1>5. ASSUME NEW i \in 1..Len(from)
      PROVE  /\ SearchFrom(super, {from[i]}, X(i)) \in Seq(SUBSET super)
             /\ {from[i]} \in ToSet(SearchFrom(super, {from[i]}, X(i)))
  <2>1. {from[i]} \in SUBSET super
    BY <1>2, <1>4
  <2>2. SearchFrom(super, {from[i]}, X(i)) \in Seq(Around(super, {from[i]}))
    BY <1>2, <1>3, <2>1, SearchFromFacts
  <2>3. Around(super, {from[i]}) \subseteq SUBSET super
    BY DEF Around
  <2> QED BY <1>2, <1>3, <2>1, <2>2, <2>3, StartIsFound, SeqMonotonic
<1>6. rows \in Seq(Seq(SUBSET super)) /\ Len(rows) = Len(from) /\ Len(from) \in Nat
  BY <1>4, <1>5, IsASeq
<1>7. PICK i \in 1..Len(from) : from[i] = v
  BY <1>2, <1>4 DEF ToSet
<1>8. {v} \in ToSet(rows[i]) /\ i \in 1..Len(rows)
  BY <1>5, <1>6, <1>7
<1> HIDE DEF rows
<1>9. ToSet(Flatten(rows)) = UNION {ToSet(rows[j]) : j \in 1..Len(rows)}
  BY <1>6, FlattenElements
<1> QED BY <1>1, <1>8, <1>9

LEMMA PartnersTyped ==
  ASSUME GraphOK, NEW S \in Subproblems
  PROVE  PartnersOf(S) \in Seq({P \in Subproblems : Linked(P) /\ P \cap S = {} /\ Max(P) < Max(S)})
<1> DEFINE T == {P \in Subproblems : Linked(P) /\ P \cap S = {} /\ Max(P) < Max(S)}
           super == {u \in All \ S : u <= Max(S)}
           source == Neighbors(S) \cap super
           from == Ascending(source)
           X(i) == {u \in source : u > from[i]}
           rows == [i \in 1..Len(from) |-> SearchFrom(super, {from[i]}, X(i))]
<1>1. PartnersOf(S) = Flatten(rows)
  BY DEF PartnersOf, ConnectedSubgraphs
<1>2. super \in SUBSET Relations /\ source \in SUBSET Relations /\ source \subseteq super
  BY DEF Neighbors, All
<1>3. \A i : X(i) \in SUBSET Relations
  BY <1>2
<1>a. ASSUME NEW P \in SUBSET super, P # {}, Linked(P) PROVE P \in T
  <2>1. P \in Subproblems /\ P \cap S = {} /\ P \in SUBSET Relations /\ S \in SUBSET Relations /\ S # {}
    BY <1>2, <1>a DEF Subproblems
  <2>2. Max(P) \in P /\ Max(S) \in S
    BY <1>a, <2>1, MaxFacts
  <2>3. Max(P) <= Max(S) /\ Max(P) # Max(S)
    BY <2>1, <2>2
  <2>4. Max(P) \in Nat /\ Max(S) \in Nat
    <3>1. \A x \in Relations : x \in Nat
      BY NFacts
    <3>2. Max(P) \in Relations /\ Max(S) \in Relations
      BY <2>1, <2>2
    <3> QED BY <3>1, <3>2
  <2>5. Max(P) < Max(S)
    BY <2>3, <2>4
  <2> QED BY <1>a, <2>1, <2>5
<1> HIDE DEF super, source
<1>4. from \in Seq(source) /\ ToSet(from) = source
  BY <1>2, AscendingFacts
<1> HIDE DEF from, X, T
<1>5. ASSUME NEW i \in 1..Len(from) PROVE SearchFrom(super, {from[i]}, X(i)) \in Seq(T)
  <2>1. from[i] \in super /\ from[i] \in Relations
    BY <1>2, <1>4
  <2>2. {from[i]} \in SUBSET super /\ {from[i]} # {} /\ Linked({from[i]}) /\ X(i) \in SUBSET Relations
    BY <1>3, <2>1, SingletonLinked
  <2>3. SearchFrom(super, {from[i]}, X(i)) \in Seq(Region(super, {from[i]}, X(i)))
    BY <1>2, <2>2, SearchMeets
  <2>4. Region(super, {from[i]}, X(i)) \subseteq T
    <3> SUFFICES ASSUME NEW P \in Region(super, {from[i]}, X(i)) PROVE P \in T
      OBVIOUS
    <3>1. P \in SUBSET super /\ from[i] \in P /\ Linked(P)
      BY DEF Region, Around
    <3> QED BY <1>a, <3>1
  <2> QED BY <2>3, <2>4, SeqMonotonic
<1>6. rows \in Seq(Seq(T))
  <2>1. Len(from) \in Nat
    BY <1>4
  <2> QED BY <1>5, <2>1, IsASeq
<1> HIDE DEF rows
<1>7. PartnersOf(S) \in Seq(T)
  BY <1>1, <1>6, FlattenTyped
<1> QED BY <1>7 DEF T

LEMMA RowBuilds ==
  ASSUME GraphOK, NEW S \in Subproblems
  PROVE  Builds(RowOf(S), {S} \cup ToSet(PartnersOf(S)), Pushes(S))
<1> DEFINE row == RowOf(S)
           q == PartnersOf(S)
           n == Len(q)
<1>1. q \in Seq({P \in Subproblems : Linked(P) /\ P \cap S = {} /\ Max(P) < Max(S)})
  BY PartnersTyped
<1>2. row = [j \in 1..n |-> <<S, q[j]>>]
  BY DEF RowOf
<1>3. \A v \in Neighbors(S) : v <= Max(S) => {v} \in ToSet(q)
  BY PartnersFound
<1> HIDE DEF row, q
<1>4. n \in Nat /\ \A j \in 1..n : q[j] \in Subproblems /\ <<S, q[j]>> \in Splits
  BY <1>1 DEF Splits
<1>5. row \in Seq(Splits) /\ Len(row) = n /\ \A j \in 1..n : row[j] = <<S, q[j]>>
  BY <1>2, <1>4, IsASeq
<1>6. ToSet(q) = {q[j] : j \in 1..n}
  BY DEF ToSet
<1>7. Ready(row, {S} \cup ToSet(q))
  BY <1>5, <1>6 DEF Ready
<1>8. ASSUME NEW v \in Neighbors(S), v <= Max(S) PROVE S \cup {v} \in Made(row, n)
  <2>1. PICK j \in 1..n : q[j] = {v}
    BY <1>3, <1>6, <1>8
  <2>2. Both(row[j]) = S \cup {v}
    BY <1>5, <2>1 DEF Both
  <2> QED BY <2>2 DEF Made
<1>9. Pushes(S) \subseteq Made(row, n)
  BY <1>8 DEF Pushes
<1>10. {S} \cup ToSet(q) \in SUBSET Subproblems
  BY <1>4, <1>6
<1> QED BY <1>5, <1>7, <1>9, <1>10 DEF Builds, q, row

LEMMA PushesTyped ==
  ASSUME NEW S \in Subproblems
  PROVE  Pushes(S) \in SUBSET Subproblems
BY DEF Pushes, Neighbors, Subproblems

(* Orders in which a set and its partners come after what they grow from:  *)
(* with plans for B, the rows of the sets q give plans to T.               *)
Yields(q, n) == UNION {Pushes(q[j]) : j \in 1..n}
InTurn(q, B, T) ==
  /\ q \in Seq(Subproblems) /\ B \in SUBSET Subproblems
  /\ \A i \in 1..Len(q) : q[i] \in B \cup Yields(q, i - 1) /\ ToSet(PartnersOf(q[i])) \subseteq B \cup Yields(q, i - 1)
  /\ T \subseteq B \cup Yields(q, Len(q))

LEMMA YieldsSplits ==
  ASSUME NEW q, NEW k \in Nat, NEW n \in 0..k
  PROVE  Yields(q, k) = Yields(q, n) \cup UNION {Pushes(q[j]) : j \in (n + 1)..k}
<1>1. 1..k = (1..n) \cup ((n + 1)..k)
  OBVIOUS
<1> QED BY <1>1, Zenon DEF Yields

LEMMA InTurnThen ==
  ASSUME NEW s, NEW t, NEW B, NEW T, NEW U, InTurn(s, B, T), InTurn(t, T, U)
  PROVE  InTurn(s \o t, B, U)
<1> DEFINE m == Len(s)
           n == Len(t)
           c == s \o t
<1>0. s \in Seq(Subproblems) /\ t \in Seq(Subproblems) /\ B \in SUBSET Subproblems
  BY DEF InTurn
<1>1. /\ c \in Seq(Subproblems) /\ m \in Nat /\ n \in Nat /\ Len(c) = m + n
      /\ \A i \in 1..m : c[i] = s[i]
      /\ \A i \in 1..n : c[m + i] = t[i]
  BY <1>0, ConcatProperties
<1>2. /\ \A i \in 1..m : s[i] \in B \cup Yields(s, i - 1) /\ ToSet(PartnersOf(s[i])) \subseteq B \cup Yields(s, i - 1)
      /\ \A i \in 1..n : t[i] \in T \cup Yields(t, i - 1) /\ ToSet(PartnersOf(t[i])) \subseteq T \cup Yields(t, i - 1)
      /\ T \subseteq B \cup Yields(s, m) /\ U \subseteq T \cup Yields(t, n)
  BY DEF InTurn
<1> HIDE DEF c, m, n
<1>3. ASSUME NEW k \in 0..m PROVE Yields(c, k) = Yields(s, k)
  <2>1. \A j \in 1..k : j \in 1..m
    BY <1>1
  <2>2. \A j \in 1..k : Pushes(c[j]) = Pushes(s[j])
    BY <1>1, <2>1
  <2> QED BY <2>2 DEF Yields
<1>4. ASSUME NEW k \in 0..n PROVE Yields(c, m + k) = Yields(s, m) \cup Yields(t, k)
  <2>1. m + k \in Nat /\ m \in 0..(m + k) /\ m \in 0..m /\ k \in Nat
    BY <1>1
  <2>2. Yields(c, m + k) = Yields(c, m) \cup UNION {Pushes(c[j]) : j \in (m + 1)..(m + k)}
    BY <2>1, YieldsSplits
  <2>3. Yields(c, m) = Yields(s, m)
    BY <1>3, <2>1
  <2>4. \A j \in 1..k : m + j \in (m + 1)..(m + k) /\ c[m + j] = t[j]
    BY <1>1
  <2>5. \A j \in (m + 1)..(m + k) : \E i \in 1..k : j = m + i
    <3> SUFFICES ASSUME NEW j \in (m + 1)..(m + k) PROVE \E i \in 1..k : j = m + i
      OBVIOUS
    <3>1. j - m \in 1..k /\ j = m + (j - m)
      BY <1>1
    <3> QED BY <3>1
  <2>6. UNION {Pushes(c[j]) : j \in (m + 1)..(m + k)} = Yields(t, k)
    <3>1. ASSUME NEW j \in (m + 1)..(m + k) PROVE \E i \in 1..k : Pushes(c[j]) = Pushes(t[i])
      BY <2>4, <2>5
    <3>2. ASSUME NEW i \in 1..k PROVE \E j \in (m + 1)..(m + k) : Pushes(c[j]) = Pushes(t[i])
      BY <2>4
    <3> QED BY <3>1, <3>2 DEF Yields
  <2> QED BY <2>2, <2>3, <2>6
<1>5. ASSUME NEW i \in 1..(m + n)
      PROVE  c[i] \in B \cup Yields(c, i - 1) /\ ToSet(PartnersOf(c[i])) \subseteq B \cup Yields(c, i - 1)
  <2>1. CASE i \in 1..m
    <3>1. i - 1 \in 0..m
      BY <1>1, <2>1
    <3> QED BY <1>1, <1>2, <1>3, <2>1, <3>1
  <2>2. CASE i \notin 1..m
    <3>1. PICK k \in 1..n : i = m + k
      <4>1. i - m \in 1..n /\ i = m + (i - m)
        BY <1>1, <2>2
      <4> QED BY <4>1
    <3>2. k - 1 \in 0..n /\ m + (k - 1) = i - 1 /\ c[i] = t[k]
      BY <1>1, <3>1
    <3>3. Yields(c, i - 1) = Yields(s, m) \cup Yields(t, k - 1)
      BY <1>4, <3>2
    <3>4. t[k] \in T \cup Yields(t, k - 1) /\ ToSet(PartnersOf(t[k])) \subseteq T \cup Yields(t, k - 1)
      BY <1>2
    <3> QED BY <1>2, <3>2, <3>3, <3>4
  <2> QED BY <2>1, <2>2
<1>6. U \subseteq B \cup Yields(c, m + n)
  <2>1. n \in 0..n
    BY <1>1
  <2> QED BY <1>2, <1>4, <2>1
<1> QED BY <1>0, <1>1, <1>5, <1>6 DEF InTurn, c

LEMMA FlattenInTurn ==
  ASSUME NEW rows \in Seq(Seq(Subproblems)), NEW B \in [0..Len(rows) -> SUBSET Subproblems],
         \A i \in 1..Len(rows) : InTurn(rows[i], B[i - 1], B[i])
  PROVE  InTurn(Flatten(rows), B[0], B[Len(rows)])
<1> DEFINE n == Len(rows)
<1>0. n \in Nat /\ 0 \in 0..n
  OBVIOUS
<1>1. CASE n = 0
  <2>1. Flatten(rows) = <<>>
    BY <1>1, EmptySeq DEF Flatten, FlattenSeq
  <2>2. PICK C \in SUBSET Subproblems : C = B[0]
    BY <1>0
  <2>3. InTurn(<<>>, C, C)
    BY DEF InTurn
  <2>4. B[Len(rows)] = C
    BY <1>1, <2>2
  <2> QED BY <2>1, <2>2, <2>3, <2>4
<1>2. CASE n # 0
  <2>1. PICK f \in [1..n -> Seq(Subproblems)] : FlattenStep(rows, f) /\ Flatten(rows) = f[n]
    BY <1>2, FlattenEquation
  <2> DEFINE D == 1..n
             rank == [i \in D |-> i]
             Good == {i \in D : InTurn(f[i], B[0], B[i])}
  <2>2. ASSUME NEW i \in D, \A j \in D : rank[j] < rank[i] => j \in Good PROVE i \in Good
    <3>1. CASE i = 1
      <4>1. f[i] = rows[i] /\ i - 1 = 0
        BY <2>1, <3>1 DEF FlattenStep
      <4>2. InTurn(rows[i], B[i - 1], B[i])
        OBVIOUS
      <4> QED BY <4>1, <4>2
    <3>2. CASE i # 1
      <4>1. i - 1 \in D /\ rank[i - 1] < rank[i]
        BY <1>0, <3>2
      <4>2. f[i] = f[i - 1] \o rows[i]
        BY <2>1, <3>2 DEF FlattenStep
      <4>3. InTurn(f[i - 1], B[0], B[i - 1]) /\ InTurn(rows[i], B[i - 1], B[i])
        BY <2>2, <4>1
      <4>4. InTurn(f[i - 1] \o rows[i], B[0], B[i])
        BY <4>3, InTurnThen, Zenon
      <4> QED BY <4>2, <4>4
    <3> QED BY <3>1, <3>2
  <2>3. rank \in [D -> Nat]
    BY <1>0
  <2>4. n \in D
    BY <1>0, <1>2
  <2> HIDE DEF D, rank, Good
  <2>5. Hereditary(D, rank, Good)
    BY <2>2 DEF Hereditary
  <2>6. \A i \in D : i \in Good
    BY <2>3, <2>5, RankInduction
  <2> QED BY <2>1, <2>4, <2>6 DEF D, Good
<1> QED BY <1>1, <1>2

LEMMA RowsBuild ==
  ASSUME GraphOK, NEW q, NEW B, NEW T, InTurn(q, B, T)
  PROVE  Builds(Flatten([i \in 1..Len(q) |-> RowOf(q[i])]), B, T)
<1> DEFINE n == Len(q)
           rows == [i \in 1..n |-> RowOf(q[i])]
           C == [i \in 0..n |-> B \cup Yields(q, i)]
<1>0. /\ q \in Seq(Subproblems) /\ n \in Nat /\ B \in SUBSET Subproblems
      /\ \A i \in 1..n : /\ q[i] \in B \cup Yields(q, i - 1)
                         /\ ToSet(PartnersOf(q[i])) \subseteq B \cup Yields(q, i - 1)
      /\ T \subseteq B \cup Yields(q, n)
  BY DEF InTurn
<1>1. \A i \in 1..n : q[i] \in Subproblems
  BY <1>0
<1>2. ASSUME NEW i \in 0..n PROVE B \cup Yields(q, i) \in SUBSET Subproblems
  <2>1. ASSUME NEW j \in 1..i PROVE Pushes(q[j]) \in SUBSET Subproblems
    <3>1. j \in 1..n
      BY <1>0
    <3> QED BY <1>1, <3>1, PushesTyped
  <2> QED BY <1>0, <2>1 DEF Yields
<1>3. rows \in Seq(Seq(Splits)) /\ Len(rows) = n /\ \A i \in 1..n : rows[i] = RowOf(q[i])
  <2>1. \A i \in 1..n : RowOf(q[i]) \in Seq(Splits)
    BY <1>1, RowBuilds DEF Builds
  <2> HIDE DEF n
  <2> QED BY <1>0, <2>1, IsASeq
<1> HIDE DEF n
<1>4. C \in [0..n -> SUBSET Subproblems] /\ \A i \in 0..n : C[i] = B \cup Yields(q, i)
  BY <1>2
<1> HIDE DEF rows, C
<1>5. ASSUME NEW i \in 1..n PROVE Builds(rows[i], C[i - 1], C[i])
  <2>1. i - 1 \in 0..n /\ i \in 0..n /\ i \in Nat /\ i - 1 \in 0..i /\ i..i = {i} /\ (i - 1) + 1 = i
    BY <1>0
  <2>2. Yields(q, i) = Yields(q, i - 1) \cup UNION {Pushes(q[j]) : j \in ((i - 1) + 1)..i}
    BY <2>1, YieldsSplits, Zenon
  <2>3. Yields(q, i) = Yields(q, i - 1) \cup Pushes(q[i])
    BY <2>1, <2>2
  <2>4. Builds(rows[i], {q[i]} \cup ToSet(PartnersOf(q[i])), Pushes(q[i]))
    BY <1>1, <1>3, RowBuilds
  <2>5. {q[i]} \cup ToSet(PartnersOf(q[i])) \subseteq C[i - 1] /\ C[i] \subseteq Pushes(q[i]) \cup C[i - 1]
    BY <1>0, <1>4, <2>1, <2>3
  <2>6. C[i - 1] \in SUBSET Subproblems
    BY <1>4, <2>1
  <2> QED BY <2>4, <2>5, <2>6, BuildsMore
<1>6. Builds(Flatten(rows), C[0], C[n])
  <2>1. C \in [0..Len(rows) -> SUBSET Subproblems]
    BY <1>3, <1>4
  <2> QED BY <1>3, <1>5, <2>1, FlattenBuilds
<1>7. C[0] = B /\ T \subseteq C[n]
  <2>1. Yields(q, 0) = {} /\ 0 \in 0..n /\ n \in 0..n
    BY <1>0 DEF Yields
  <2> QED BY <1>0, <1>4, <2>1
<1>8. Builds(Flatten(rows), B, T)
  BY <1>0, <1>6, <1>7, BuildsMore
<1> QED BY <1>8 DEF rows, n

(* The search from the single relation v, over the relations up to v. *)
Greater(v) == {u \in All : u > v}
Block(v)   == SearchFrom(All, {v}, Greater(v))
Levels(v, f) ==
  /\ LevelStep(All, {v}, Greater(v), f)
  /\ \A k \in 0..N : f[k] \in Seq(SearchEntries(All, {v}, Greater(v)))

LEMMA RegionFacts ==
  ASSUME NEW v \in Relations, NEW Y \in Region(All, {v}, Greater(v))
  PROVE  Y \in Subproblems /\ Linked(Y) /\ v \in Y /\ Max(Y) = v
<1>1. Y \in SUBSET Relations /\ v \in Y /\ Linked(Y) /\ Y \cap Greater(v) \subseteq {v}
  BY DEF Region, Around, All
<1>2. \A x \in Relations : x \in Nat
  BY NFacts
<1>3. \A y \in Y : y <= v
  BY <1>1, <1>2 DEF Greater, All
<1>4. Max(Y) \in Y /\ v <= Max(Y)
  BY <1>1, MaxFacts
<1>5. Max(Y) <= v /\ Max(Y) \in Nat /\ v \in Nat
  BY <1>1, <1>2, <1>3, <1>4
<1>6. Max(Y) = v
  BY <1>4, <1>5
<1> QED BY <1>1, <1>6 DEF Subproblems

LEMMA BlockFacts ==
  ASSUME NEW v \in Relations
  PROVE  /\ Block(v) \in Seq(Region(All, {v}, Greater(v)))
         /\ \E f : Levels(v, f) /\ Block(v) = Flatten([k \in 1..N |-> Found(f[k - 1])])
<1>1. All \in SUBSET Relations /\ {v} \in SUBSET All /\ {v} # {} /\ Greater(v) \in SUBSET Relations
  BY DEF All, Greater
<1>2. Linked({v})
  BY SingletonLinked
<1> QED BY <1>1, <1>2, SearchMeets DEF Block, Levels

Near(super, Y, Z) == (Neighbors(Y) \cap super) \ Z
MoreNear(super, Y, Z) == ByValue((SUBSET Near(super, Y, Z)) \ {{}})

LEMMA SomeFacts ==
  ASSUME NEW super \in SUBSET Relations, NEW Y, NEW Z
  PROVE  /\ MoreNear(super, Y, Z) \in Seq((SUBSET Near(super, Y, Z)) \ {{}})
         /\ ToSet(MoreNear(super, Y, Z)) = (SUBSET Near(super, Y, Z)) \ {{}}
         /\ InOrder(MoreNear(super, Y, Z), Upwards)
<1>1. (SUBSET Near(super, Y, Z)) \ {{}} \in SUBSET (SUBSET Relations)
  BY DEF Near
<1> QED BY <1>1, ByValueFacts, ByValueOrder DEF MoreNear

(* A set of a level grows from one of the level before or earlier in its   *)
(* own level.                                                              *)
LEMMA LevelInTurn ==
  ASSUME NEW v \in Relations, NEW f, Levels(v, f), NEW k \in 0..(N - 1), NEW x \in 1..Len(f[k + 1])
  PROVE  \/ \E i \in 1..Len(f[k]) : f[k + 1][x][1] \in Pushes(f[k][i][1])
         \/ \E y \in 1..(x - 1) : f[k + 1][x][1] \in Pushes(f[k + 1][y][1])
<1> DEFINE E == SearchEntries(All, {v}, Greater(v))
           last == f[k]
           next == f[k + 1]
           rows == [i \in 1..Len(last) |-> Extensions(All, last[i][1], last[i][2])]
<1>0. N \in Nat /\ k \in 0..N /\ k + 1 \in 0..N /\ k + 1 # 0 /\ (k + 1) - 1 = k
  BY NFacts
<1>1. last \in Seq(E) /\ next \in Seq(E) /\ next = Flatten(rows)
  BY <1>0 DEF Levels, LevelStep
<1>2. All \in SUBSET Relations /\ Greater(v) \in SUBSET Relations /\ {v} # {}
  BY DEF All, Greater
<1> HIDE DEF last, next
<1>3. ASSUME NEW i \in 1..Len(last)
      PROVE  <<last[i][1], last[i][2]>> \in E /\ Extensions(All, last[i][1], last[i][2]) \in Seq(E)
  <2>1. last[i] \in E
    BY <1>1
  <2>2. <<last[i][1], last[i][2]>> \in E
    BY <2>1 DEF SearchEntries
  <2> QED BY <1>2, <2>2, ExtensionsMeet
<1>4. /\ rows \in Seq(Seq(E)) /\ Len(rows) = Len(last)
      /\ \A i \in 1..Len(last) : rows[i] = Extensions(All, last[i][1], last[i][2])
  <2>1. Len(last) \in Nat
    BY <1>1, SeqLength, Zenon
  <2>2. \A i \in 1..Len(last) : Extensions(All, last[i][1], last[i][2]) \in Seq(E)
    BY <1>3, Zenon
  <2> HIDE DEF E, last
  <2> QED BY <2>1, <2>2, IsASeq
<1> HIDE DEF rows
<1>5. PICK off : Places(rows, off)
  <2> HIDE DEF E
  <2> QED BY <1>4, FlattenPlaces
<1>6. PICK i \in 1..Len(rows) : \E j \in 1..Len(rows[i]) : x = off[i - 1] + j
  <2> HIDE DEF E
  <2>1. x \in 1..Len(Flatten(rows))
    BY <1>1 DEF next
  <2>b. rows \in Seq(Seq(E))
    BY <1>4
  <2>c. Places(rows, off)
    BY <1>5
  <2>2. \A z \in 1..Len(Flatten(rows)) : \E a \in 1..Len(rows) : \E j \in 1..Len(rows[a]) : z = off[a - 1] + j
    <3> PICK s, T : s = rows /\ T = E
      OBVIOUS
    <3>1. s \in Seq(Seq(T)) /\ Places(s, off)
      BY <2>b, <2>c
    <3>2. \A z \in 1..Len(Flatten(s)) : \E a \in 1..Len(s) : \E j \in 1..Len(s[a]) : z = off[a - 1] + j
      BY <3>1, PlacesCover
    <3> QED BY <3>2
  <2> QED BY <2>1, <2>2
<1> PICK j \in 1..Len(rows[i]) : x = off[i - 1] + j
  BY <1>6
<1> PICK Y, Z : Y = last[i][1] /\ Z = last[i][2]
  OBVIOUS
<1> DEFINE nbrs == Near(All, Y, Z)
           F == (SUBSET nbrs) \ {{}}
           some == MoreNear(All, Y, Z)
<1>7. <<Y, Z>> \in E /\ rows[i] = Extensions(All, Y, Z) /\ i \in 1..Len(last)
  BY <1>3, <1>4
<1>8. /\ some \in Seq(F) /\ ToSet(some) = F /\ InOrder(some, Upwards)
      /\ rows[i] = [e \in 1..Len(some) |-> <<Y \cup some[e], Z \cup nbrs>>]
  <2>1. /\ some \in Seq(F) /\ ToSet(some) = F /\ InOrder(some, Upwards)
        /\ Extensions(All, Y, Z) = [e \in 1..Len(some) |-> <<Y \cup some[e], Z \cup nbrs>>]
    <3>1. All \in SUBSET Relations
      BY <1>2
    <3>2. some \in Seq(F)
      BY <3>1, SomeFacts
    <3>3. ToSet(some) = F
      BY <3>1, SomeFacts
    <3>4. InOrder(some, Upwards)
      BY <3>1, SomeFacts
    <3>5. Extensions(All, Y, Z) = [e \in 1..Len(some) |-> <<Y \cup some[e], Z \cup nbrs>>]
      BY DEF Extensions, Near, MoreNear
    <3> QED BY <3>2, <3>3, <3>4, <3>5
  <2> QED BY <1>7, <2>1
<1>9. Y \in Region(All, {v}, Greater(v)) /\ Z \in SUBSET Relations /\ Greater(v) \subseteq Z
  BY <1>7 DEF SearchEntries
<1>10. nbrs \in SUBSET Neighbors(Y) /\ nbrs \in SUBSET Relations /\ \A w \in nbrs : w <= v /\ w \notin Y
  <2>1. \A w \in Relations : w \in Nat
    BY NFacts
  <2>2. nbrs \in SUBSET Neighbors(Y) /\ nbrs \in SUBSET Relations /\ \A w \in nbrs : w \notin Y /\ w \notin Greater(v)
    BY <1>9 DEF Near, Neighbors, All
  <2>3. \A w \in Relations \ Greater(v) : w <= v
    BY <2>1 DEF Greater, All
  <2> QED BY <2>2, <2>3
<1>11. F \in SUBSET (SUBSET Relations)
  BY <1>10
<1> HIDE DEF some, nbrs
<1>12. ToSet(some) = F /\ InOrder(some, Upwards)
  BY <1>8
<1>13. /\ Len(some) \in Nat /\ Len(rows[i]) = Len(some)
       /\ \A e \in 1..Len(some) : some[e] \in F /\ rows[i][e][1] = Y \cup some[e]
  BY <1>8
<1>14. /\ off[i - 1] \in Nat
       /\ \A e \in 1..Len(some) : off[i - 1] + e \in 1..Len(next) /\ next[off[i - 1] + e][1] = Y \cup some[e]
  <2>1. i - 1 \in 0..Len(rows) /\ next = Flatten(rows)
    BY <1>1, <1>4
  <2>2. off \in [0..Len(rows) -> Nat]
    BY <1>5 DEF Places
  <2>3. \A e \in 1..Len(rows[i]) : /\ off[i - 1] + e \in 1..Len(next)
                                   /\ next[off[i - 1] + e] = rows[i][e]
    BY <1>5, <2>1 DEF Places
  <2> QED BY <1>13, <2>1, <2>2, <2>3
<1>15. j \in 1..Len(some) /\ next[x][1] = Y \cup some[j] /\ x = off[i - 1] + j
  BY <1>6, <1>13, <1>14
<1>16. PICK w \in some[j] : w \in nbrs
  BY <1>13, <1>15
<1> DEFINE T == some[j] \ {w}
<1>17. some[j] = T \cup {w} /\ T \in SUBSET nbrs /\ w \in Neighbors(Y) /\ w <= v /\ w \in Relations
  BY <1>10, <1>13, <1>15, <1>16
<1>18. CASE T = {}
  <2>1. Max(Y) = v
    BY <1>9, RegionFacts
  <2>2. Y \cup {w} \in Pushes(Y)
    BY <1>17, <2>1 DEF Pushes
  <2>3. next[x][1] \in Pushes(last[i][1])
    BY <1>15, <1>17, <1>18, <2>2
  <2> QED BY <1>7, <2>3 DEF next, last
<1>19. CASE T # {}
  <2>1. T \in F
    BY <1>17, <1>19
  <2>a. ToSet(some) = {some[e] : e \in 1..Len(some)}
    BY <1>8, ToSetFacts, Zenon
  <2>2. PICK e \in 1..Len(some) : some[e] = T
    BY <1>12, <2>1, <2>a
  <2>3. e < j
    <3>1. some[e] # some[j] /\ some[e] \subseteq some[j]
      BY <1>16, <2>2
    <3>2. ASSUME j < e PROVE FALSE
      <4>1. <<some[j], some[e]>> \in Upwards
        BY <1>12, <1>15, <3>2 DEF InOrder
      <4> QED BY <3>1, <4>1 DEF Upwards
    <3>3. j # e
      BY <3>1
    <3> QED BY <1>13, <1>15, <3>2, <3>3
  <2> PICK y : y = off[i - 1] + e
    OBVIOUS
  <2>4. y \in 1..Len(next) /\ next[y][1] = Y \cup T
    BY <1>14, <2>2
  <2>5. y \in 1..(x - 1)
    BY <1>13, <1>14, <1>15, <2>3, <2>4
  <2>6. Max(Y \cup T) = v
    <3>1. next[y] \in E
      BY <1>1, <2>4
    <3>2. next[y][1] \in Region(All, {v}, Greater(v))
      BY <3>1 DEF SearchEntries
    <3> QED BY <2>4, <3>2, RegionFacts
  <2>7. w \in Neighbors(Y \cup T)
    <3>1. w \notin Y \cup T
      BY <1>10, <1>16
    <3> QED BY <1>17, <3>1 DEF Neighbors
  <2>8. (Y \cup T) \cup {w} \in Pushes(Y \cup T)
    BY <1>17, <2>6, <2>7 DEF Pushes
  <2>9. next[x][1] \in Pushes(next[y][1])
    BY <1>15, <1>17, <2>4, <2>8
  <2> QED BY <2>5, <2>9 DEF next
<1> QED BY <1>18, <1>19

Lower(v)     == {P \in Subproblems : Linked(P) /\ Max(P) < v}
HighestIs(v) == {P \in Subproblems : Linked(P) /\ Max(P) = v}

(* Level k holds a part of P that is larger than k, and nothing of P       *)
(* outside that part is excluded yet; or the search has met P.             *)
Nears(f, P, k) ==
  \E m \in 1..Len(f[k]) :
    LET Y == f[k][m][1]
        Z == f[k][m][2]
    IN  Y \subseteq P /\ Z \cap P \subseteq Y /\ k < Cardinality(Y)
Meet(f, P, k) == \E m \in 1..Len(f[k]) : f[k][m][1] = P

LEMMA NearGrows ==
  ASSUME NEW v \in Relations, NEW f, Levels(v, f), NEW P \in HighestIs(v),
         NEW k \in 0..(N - 1), Nears(f, P, k), ~Meet(f, P, k)
  PROVE  Nears(f, P, k + 1)
<1> DEFINE E == SearchEntries(All, {v}, Greater(v))
           last == f[k]
           next == f[k + 1]
           rows == [i \in 1..Len(last) |-> Extensions(All, last[i][1], last[i][2])]
<1>0. N \in Nat /\ k \in Nat /\ k \in 0..N /\ k + 1 \in 0..N /\ k + 1 # 0 /\ (k + 1) - 1 = k
  BY NFacts
<1>1. last \in Seq(E) /\ next \in Seq(E) /\ next = Flatten(rows)
  BY <1>0 DEF Levels, LevelStep
<1>2. All \in SUBSET Relations /\ Greater(v) \in SUBSET Relations /\ {v} # {}
  BY DEF All, Greater
<1>a. P \in SUBSET Relations /\ Linked(P) /\ P \in Subproblems
  BY DEF HighestIs, Subproblems
<1>b. PICK i \in 1..Len(last) : LET Y == last[i][1]
                                    Z == last[i][2]
                                IN  Y \subseteq P /\ Z \cap P \subseteq Y /\ k < Cardinality(Y)
  BY DEF Nears
<1> PICK Y, Z : Y = last[i][1] /\ Z = last[i][2]
  OBVIOUS
<1>c. Y \subseteq P /\ Z \cap P \subseteq Y /\ k < Cardinality(Y) /\ Y # P
  BY <1>b DEF Meet
<1> HIDE DEF last, next
<1>3. ASSUME NEW x \in 1..Len(last)
      PROVE  <<last[x][1], last[x][2]>> \in E /\ Extensions(All, last[x][1], last[x][2]) \in Seq(E)
  <2>1. last[x] \in E
    BY <1>1
  <2>2. <<last[x][1], last[x][2]>> \in E
    BY <2>1 DEF SearchEntries
  <2> QED BY <1>2, <2>2, ExtensionsMeet
<1>4. /\ rows \in Seq(Seq(E)) /\ Len(rows) = Len(last)
      /\ \A x \in 1..Len(last) : rows[x] = Extensions(All, last[x][1], last[x][2])
  <2>1. Len(last) \in Nat
    BY <1>1, SeqLength, Zenon
  <2>2. \A x \in 1..Len(last) : Extensions(All, last[x][1], last[x][2]) \in Seq(E)
    BY <1>3, Zenon
  <2> HIDE DEF E, last
  <2> QED BY <2>1, <2>2, IsASeq
<1> HIDE DEF rows
<1>5. PICK off : Places(rows, off)
  <2> HIDE DEF E
  <2> QED BY <1>4, FlattenPlaces
<1>6. <<Y, Z>> \in E /\ rows[i] = Extensions(All, Y, Z) /\ i \in 1..Len(rows)
  BY <1>3, <1>4
<1>7. Y \in Region(All, {v}, Greater(v)) /\ Y \in Subproblems
  <2>1. Y \in Region(All, {v}, Greater(v))
    BY <1>6 DEF SearchEntries
  <2> QED BY <2>1, RegionFacts
<1> DEFINE nbrs == Near(All, Y, Z)
           F == (SUBSET nbrs) \ {{}}
           some == MoreNear(All, Y, Z)
           A == nbrs \cap P
<1>8. A # {}
  <2>1. Y \in (SUBSET P) \ {{}, P}
    BY <1>7, <1>c DEF Subproblems
  <2>2. PICK w : w \in Neighbors(Y) /\ w \in P \ Y
    BY <1>a, <2>1 DEF Linked, Joined
  <2>3. w \notin Z /\ w \in All
    BY <1>c, <1>a, <2>2 DEF All
  <2> QED BY <2>2, <2>3 DEF Near
<1>9. some \in Seq(F) /\ ToSet(some) = F /\ rows[i] = [e \in 1..Len(some) |-> <<Y \cup some[e], Z \cup nbrs>>]
  <2>1. some \in Seq(F) /\ ToSet(some) = F
    BY <1>2, SomeFacts
  <2>2. Extensions(All, Y, Z) = [e \in 1..Len(some) |-> <<Y \cup some[e], Z \cup nbrs>>]
    BY DEF Extensions, Near, MoreNear
  <2> QED BY <1>6, <2>1, <2>2
<1>10. A \in F
  BY <1>8
<1> HIDE DEF some, nbrs, F
<1>11. PICK e \in 1..Len(some) : some[e] = A
  <2>1. ToSet(some) = {some[j] : j \in 1..Len(some)}
    BY <1>9, ToSetFacts, Zenon
  <2> QED BY <1>9, <1>10, <2>1
<1>12. e \in 1..Len(rows[i]) /\ rows[i][e] = <<Y \cup A, Z \cup nbrs>>
  BY <1>9, <1>11
<1> PICK m : m = off[i - 1] + e
  OBVIOUS
<1>13. m \in 1..Len(next) /\ next[m] = <<Y \cup A, Z \cup nbrs>>
  BY <1>1, <1>5, <1>6, <1>12 DEF Places
<1>14. k + 1 < Cardinality(Y \cup A)
  <2>1. A \in SUBSET Relations /\ A \cap Y = {}
    BY <1>a DEF nbrs, Near, Neighbors
  <2>2. Y \cup A \in Subproblems /\ Y \in (SUBSET (Y \cup A)) \ {{}, Y \cup A}
    BY <1>7, <1>8, <2>1 DEF Subproblems
  <2>3. SizeOf[Y] < SizeOf[Y \cup A]
    BY <2>2, PartsAreSmaller
  <2>4. Cardinality(Y) < Cardinality(Y \cup A) /\ Cardinality(Y) \in Nat /\ Cardinality(Y \cup A) \in Nat
    BY <1>7, <2>2, <2>3, SizeTyped DEF SizeOf
  <2> QED BY <1>0, <1>c, <2>4
<1>15. Y \cup A \subseteq P /\ (Z \cup nbrs) \cap P \subseteq Y \cup A
  BY <1>c
<1>16. next[m][1] = Y \cup A /\ next[m][2] = Z \cup nbrs
  BY <1>13
<1> QED BY <1>13, <1>14, <1>15, <1>16 DEF Nears, next

LEMMA BlockFinds ==
  ASSUME NEW v \in Relations, NEW P \in HighestIs(v)
  PROVE  P \in ToSet(Block(v))
<1>1. PICK f : Levels(v, f) /\ Block(v) = Flatten([k \in 1..N |-> Found(f[k - 1])])
  BY BlockFacts
<1> DEFINE A == Region(All, {v}, Greater(v))
           C == {Z \in SUBSET Relations : Greater(v) \subseteq Z}
           rows == [k \in 1..N |-> Found(f[k - 1])]
<1>0. N \in Nat /\ N # 0 /\ Relations = 0..(N - 1) /\ IsFiniteSet(Relations) /\ N = Cardinality(Relations)
  BY NFacts DEF N
<1>2. \A k \in 1..N : k - 1 \in 0..N /\ f[k - 1] \in Seq(A \X C)
  <2>1. SearchEntries(All, {v}, Greater(v)) = A \X C
    BY DEF SearchEntries
  <2>2. \A k \in 0..N : f[k] \in Seq(SearchEntries(All, {v}, Greater(v)))
    BY <1>1 DEF Levels
  <2>3. \A k \in 1..N : k - 1 \in 0..N
    BY <1>0
  <2> HIDE DEF A, C
  <2> QED BY <2>1, <2>2, <2>3
<1> HIDE DEF A, C
<1>3. \A k \in 1..N : Found(f[k - 1]) \in Seq(A)
  BY <1>2, FoundTyped
<1>4. rows \in Seq(Seq(A)) /\ Len(rows) = N /\ \A k \in 1..N : rows[k] = Found(f[k - 1])
  BY <1>0, <1>3, IsASeq
<1> HIDE DEF rows
<1>5. Block(v) = Flatten(rows)
  BY <1>1 DEF rows
<1>6. ToSet(Block(v)) = UNION {ToSet(rows[k]) : k \in 1..N}
  BY <1>4, <1>5, FlattenElements
<1> SUFFICES ASSUME \A k \in 0..(N - 1) : ~Meet(f, P, k) PROVE FALSE
  <2>1. PICK k \in 0..(N - 1) : Meet(f, P, k)
    OBVIOUS
  <2>2. PICK m \in 1..Len(f[k]) : f[k][m][1] = P
    BY <2>1 DEF Meet
  <2>3. k + 1 \in 1..N /\ (k + 1) - 1 = k
    BY <1>0
  <2>4. rows[k + 1] = Found(f[k]) /\ f[k] \in Seq(A \X C)
    BY <1>2, <1>4, <2>3
  <2>5. Found(f[k])[m] = P /\ m \in 1..Len(Found(f[k])) /\ Found(f[k]) \in Seq(A)
    <3>1. Found(f[k]) \in Seq(A) /\ Len(Found(f[k])) = Len(f[k]) /\ \A i \in 1..Len(f[k]) : Found(f[k])[i] = f[k][i][1]
      <4> PICK q \in Seq(A \X C) : q = f[k]
        BY <2>4
      <4>1. Found(q) \in Seq(A) /\ Len(Found(q)) = Len(q) /\ \A i \in 1..Len(q) : Found(q)[i] = q[i][1]
        <5>1. \A i \in 1..Len(q) : q[i] \in A \X C
          OBVIOUS
        <5>2. \A i \in 1..Len(q) : q[i][1] \in A
          BY <5>1
        <5> QED BY <5>2, IsASeq DEF Found
      <4> QED BY <4>1
    <3> QED BY <2>2, <3>1
  <2>6. P \in ToSet(rows[k + 1])
    BY <2>4, <2>5, ToSetFacts
  <2> QED BY <1>6, <2>3, <2>6
<1>7. P \in SUBSET Relations /\ P # {} /\ v \in P /\ P \cap Greater(v) = {}
  <2>1. P \in SUBSET Relations /\ P # {} /\ Max(P) = v
    BY DEF HighestIs, Subproblems
  <2>2. v \in P /\ \A y \in P : y <= v
    BY <2>1, MaxFacts
  <2>3. \A y \in Relations : y \in Nat
    BY <1>0
  <2> QED BY <2>1, <2>2, <2>3 DEF Greater
<1> DEFINE Good == {k \in 0..(N - 1) : Nears(f, P, k)}
<1>8. 0 \in Good
  <2>1. f[0] = <<<<{v}, Greater(v)>>>> /\ 0 \in 0..(N - 1)
    <3>1. 0 \in 0..N
      BY <1>0
    <3> QED BY <1>0, <1>1, <3>1 DEF Levels, LevelStep
  <2>2. 1 \in 1..Len(f[0]) /\ f[0][1][1] = {v} /\ f[0][1][2] = Greater(v)
    BY <2>1
  <2>3. Cardinality({v}) = 1
    BY FS_Singleton
  <2>4. 0 < Cardinality({v})
    BY <2>3
  <2>5. {v} \subseteq P /\ Greater(v) \cap P \subseteq {v}
    BY <1>7
  <2> QED BY <2>1, <2>2, <2>4, <2>5 DEF Nears
<1>9. ASSUME NEW k \in 1..(N - 1), k - 1 \in Good PROVE k \in Good
  <2>1. k - 1 \in 0..(N - 1) /\ (k - 1) + 1 = k /\ k \in 0..(N - 1)
    BY <1>0
  <2>2. Nears(f, P, k - 1)
    BY <1>9
  <2>3. Nears(f, P, (k - 1) + 1)
    BY <1>1, <2>1, <2>2, NearGrows
  <2> QED BY <2>1, <2>3
<1> HIDE DEF Good
<1>10. Inductive(N - 1, Good) /\ N - 1 \in Nat /\ N - 1 \in 0..(N - 1)
  BY <1>0, <1>8, <1>9 DEF Inductive
<1>11. N - 1 \in Good
  BY <1>10, UpTo
<1>12. PICK m \in 1..Len(f[N - 1]) : LET Y == f[N - 1][m][1] IN Y \subseteq P /\ N - 1 < Cardinality(Y)
  BY <1>11 DEF Good, Nears
<1> PICK Y : Y = f[N - 1][m][1]
  OBVIOUS
<1>13. Y \subseteq P /\ N - 1 < Cardinality(Y) /\ Y # P
  BY <1>10, <1>12 DEF Meet
<1>14. IsFiniteSet(P) /\ Cardinality(P) <= N /\ Cardinality(P) \in Nat
  BY <1>0, <1>7, FS_Subset, FS_CardinalityType
<1>15. Cardinality(Y) < Cardinality(P) /\ Cardinality(Y) \in Nat
  BY <1>13, <1>14, FS_Subset, FS_CardinalityType
<1> QED BY <1>0, <1>13, <1>14, <1>15

(* A block gives plans to the connected sets whose greatest relation is v. *)
LEMMA BlockInTurn ==
  ASSUME GraphOK, NEW v \in Relations
  PROVE  InTurn(Block(v), Bottom \cup Lower(v), HighestIs(v))
<1>1. PICK f : Levels(v, f) /\ Block(v) = Flatten([k \in 1..N |-> Found(f[k - 1])])
  BY BlockFacts
<1> DEFINE A == Region(All, {v}, Greater(v))
           C == {Z \in SUBSET Relations : Greater(v) \subseteq Z}
           rows == [k \in 1..N |-> Found(f[k - 1])]
           V == Bottom \cup Lower(v)
           From(k) == IF k = 0 THEN {} ELSE UNION {Pushes(f[k - 1][i][1]) : i \in 1..Len(f[k - 1])}
           B == [k \in 0..N |-> V \cup From(k)]
<1>0. N \in Nat /\ N # 0 /\ 0 \in 0..N /\ N \in 0..N
  BY NFacts
<1>2. \A k \in 1..N : k - 1 \in 0..N /\ f[k - 1] \in Seq(A \X C)
  <2>1. SearchEntries(All, {v}, Greater(v)) = A \X C
    BY DEF SearchEntries
  <2>2. \A k \in 0..N : f[k] \in Seq(SearchEntries(All, {v}, Greater(v)))
    BY <1>1 DEF Levels
  <2>3. \A k \in 1..N : k - 1 \in 0..N
    BY <1>0
  <2> HIDE DEF A, C
  <2> QED BY <2>1, <2>2, <2>3
<1>3. \A Y \in A : Y \in Subproblems /\ v \in Y /\ Max(Y) = v
  BY RegionFacts
<1>4. V \in SUBSET Subproblems
  BY SourcesBuild DEF Lower
<1> HIDE DEF A, C, V
<1>5. ASSUME NEW k \in 1..N
      PROVE  /\ Found(f[k - 1]) \in Seq(A) /\ Len(Found(f[k - 1])) = Len(f[k - 1])
             /\ \A i \in 1..Len(f[k - 1]) : Found(f[k - 1])[i] = f[k - 1][i][1] /\ f[k - 1][i][1] \in A
  <2> PICK q \in Seq(A \X C) : q = f[k - 1]
    BY <1>2
  <2>1. Found(q) \in Seq(A) /\ Len(Found(q)) = Len(q) /\ \A i \in 1..Len(q) : Found(q)[i] = q[i][1]
    <3>1. \A i \in 1..Len(q) : q[i] \in A \X C
      OBVIOUS
    <3>2. \A i \in 1..Len(q) : q[i][1] \in A
      BY <3>1
    <3> QED BY <3>2, IsASeq DEF Found
  <2>2. \A i \in 1..Len(q) : Found(q)[i] \in A
    BY <2>1
  <2> QED BY <2>1, <2>2
<1>6. rows \in Seq(Seq(Subproblems)) /\ Len(rows) = N /\ \A k \in 1..N : rows[k] = Found(f[k - 1])
  <2>1. A \subseteq Subproblems
    BY <1>3
  <2>2. \A k \in 1..N : Found(f[k - 1]) \in Seq(Subproblems)
    BY <1>5, <2>1, SeqMonotonic
  <2> QED BY <1>0, <2>2, IsASeq
<1> HIDE DEF rows
<1>7. ASSUME NEW k \in 0..N PROVE From(k) \in SUBSET Subproblems
  <2>1. CASE k # 0
    <3>1. k \in 1..N
      BY <2>1
    <3>2. \A i \in 1..Len(f[k - 1]) : Pushes(f[k - 1][i][1]) \in SUBSET Subproblems
      BY <1>3, <1>5, <3>1, PushesTyped
    <3> QED BY <2>1, <3>2
  <2> QED BY <2>1
<1>8. ASSUME NEW k \in 1..N
      PROVE  Yields(rows[k], Len(rows[k])) = From(k) /\ Len(rows[k]) = Len(f[k - 1])
  <2>1. Len(rows[k]) = Len(f[k - 1]) /\ \A i \in 1..Len(f[k - 1]) : rows[k][i] = f[k - 1][i][1]
    BY <1>5, <1>6
  <2>2. k # 0
    OBVIOUS
  <2> QED BY <2>1, <2>2 DEF Yields
<1>9. B \in [0..N -> SUBSET Subproblems] /\ \A k \in 0..N : B[k] = V \cup From(k)
  <2> HIDE DEF From
  <2> QED BY <1>4, <1>7
<1>10. ASSUME NEW k \in 1..N PROVE InTurn(rows[k], B[k - 1], B[k])
  <2>0. k - 1 \in 0..N /\ k \in 0..N /\ k \in Nat
    BY <1>0
  <2>1. rows[k] \in Seq(Subproblems) /\ Len(rows[k]) = Len(f[k - 1]) /\ Len(rows[k]) \in Nat
    BY <1>6, <1>8
  <2>2. B[k - 1] \in SUBSET Subproblems /\ B[k - 1] = V \cup From(k - 1) /\ B[k] = V \cup From(k)
    BY <1>9, <2>0
  <2>3. ASSUME NEW i \in 1..Len(rows[k]) PROVE ToSet(PartnersOf(rows[k][i])) \subseteq V
    <3>1. rows[k][i] \in Subproblems /\ Max(rows[k][i]) = v
      BY <1>3, <1>5, <1>6, <2>1
    <3>2. PartnersOf(rows[k][i]) \in
            Seq({P \in Subproblems : Linked(P) /\ P \cap rows[k][i] = {} /\ Max(P) < Max(rows[k][i])})
      BY <3>1, PartnersTyped
    <3>3. ToSet(PartnersOf(rows[k][i])) \subseteq Lower(v)
      BY <3>1, <3>2, ToSetFacts DEF Lower
    <3> QED BY <3>3 DEF V
  <2>4. ASSUME NEW i \in 1..Len(rows[k]) PROVE rows[k][i] \in V \cup From(k - 1) \cup Yields(rows[k], i - 1)
    <3>1. rows[k][i] = f[k - 1][i][1]
      BY <1>5, <1>6, <2>1
    <3>2. CASE k = 1
      <4>1. f[0] = <<<<{v}, Greater(v)>>>> /\ k - 1 = 0
        BY <1>0, <1>1, <3>2 DEF Levels, LevelStep
      <4>2. i = 1 /\ f[0][1][1] = {v}
        BY <2>1, <4>1
      <4>3. {v} \in Bottom
        BY DEF Bottom
      <4> QED BY <3>1, <4>1, <4>2, <4>3 DEF V
    <3>3. CASE k # 1
      <4> PICK h : h = k - 2
        OBVIOUS
      <4>1. h \in 0..(N - 1) /\ h + 1 = k - 1 /\ k - 1 # 0 /\ (k - 1) - 1 = h
        BY <1>0, <3>3
      <4>2. i \in 1..Len(f[h + 1])
        BY <2>1, <4>1
      <4>3. \/ \E j \in 1..Len(f[h]) : f[h + 1][i][1] \in Pushes(f[h][j][1])
            \/ \E y \in 1..(i - 1) : f[h + 1][i][1] \in Pushes(f[h + 1][y][1])
        BY <1>1, <4>1, <4>2, LevelInTurn
      <4>4. CASE \E j \in 1..Len(f[h]) : f[h + 1][i][1] \in Pushes(f[h][j][1])
        BY <3>1, <4>1, <4>4
      <4>5. CASE \E y \in 1..(i - 1) : f[h + 1][i][1] \in Pushes(f[h + 1][y][1])
        <5>1. PICK y \in 1..(i - 1) : f[h + 1][i][1] \in Pushes(f[h + 1][y][1])
          BY <4>5
        <5>2. y \in 1..Len(rows[k])
          BY <2>1
        <5>3. rows[k][y] = f[k - 1][y][1]
          BY <1>5, <1>6, <2>1, <5>2
        <5> HIDE DEF From
        <5> QED BY <3>1, <4>1, <5>1, <5>3 DEF Yields
      <4> QED BY <4>3, <4>4, <4>5
    <3> QED BY <3>2, <3>3
  <2>5. B[k] \subseteq B[k - 1] \cup Yields(rows[k], Len(rows[k]))
    BY <1>8, <2>2
  <2> HIDE DEF From, B
  <2> QED BY <2>1, <2>2, <2>3, <2>4, <2>5 DEF InTurn
<1> HIDE DEF B, From
<1>11. InTurn(Flatten(rows), B[0], B[N])
  BY <1>6, <1>9, <1>10, FlattenInTurn
<1>12. B[0] = V
  BY <1>0, <1>9 DEF From
<1>13. Block(v) = Flatten(rows)
  BY <1>1 DEF rows
<1>14. InTurn(Block(v), V, B[N])
  BY <1>11, <1>12, <1>13
<1>15. ASSUME NEW P \in HighestIs(v) PROVE P \in V \cup Yields(Block(v), Len(Block(v)))
  <2>1. P \in ToSet(Block(v)) /\ Block(v) \in Seq(Subproblems)
    BY <1>14, BlockFinds DEF InTurn
  <2>2. PICK i \in 1..Len(Block(v)) : Block(v)[i] = P
    BY <2>1, ToSetFacts
  <2>3. P \in V \cup Yields(Block(v), i - 1)
    BY <1>14, <2>2 DEF InTurn
  <2>4. Len(Block(v)) \in Nat
    BY <2>1
  <2>5. \A j \in 1..(i - 1) : j \in 1..Len(Block(v))
    BY <2>4
  <2> QED BY <2>3, <2>5 DEF Yields
<1> QED BY <1>14, <1>15 DEF InTurn, V

LEMMA DPccpBuilds ==
  ASSUME GraphOK
  PROVE  Builds(DPccp, Bottom, {})
<1> DEFINE q == ConnectedSubgraphs(All, All)
           from == Ascending(All)
           blocks == [i \in 1..Len(from) |-> Block(from[i])]
           UpToBlock(i) == {P \in Subproblems : Linked(P) /\ \E j \in 1..i : Max(P) = from[j]}
           B == [i \in 0..Len(from) |-> Bottom \cup UpToBlock(i)]
<1>0. All = Relations /\ N \in Nat /\ \A x \in Relations : x \in Nat
  BY NFacts DEF All
<1>1. q = Flatten(blocks)
  <2>1. All \cap All = All
    OBVIOUS
  <2> QED BY <2>1 DEF ConnectedSubgraphs, Block, Greater
<1>2. from \in Seq(Relations) /\ ToSet(from) = Relations /\ Len(from) \in Nat
  <2>1. from \in Seq(Relations) /\ ToSet(from) = Relations
    BY <1>0, AscendingFacts
  <2> HIDE DEF from
  <2> QED BY <2>1
<1>3. InOrder(from, {p \in Nat \X Nat : p[1] < p[2]})
  <2> DEFINE all == [i \in 1..N |-> i - 1]
  <2>1. all \in Seq(Int) /\ Len(all) = N /\ \A i \in 1..N : all[i] = i - 1
    BY <1>0, IsASeq
  <2>2. InOrder(all, {p \in Nat \X Nat : p[1] < p[2]})
    <3> HIDE DEF all
    <3> QED BY <1>0, <2>1 DEF InOrder
  <2>3. from = Within(all, All)
    BY DEF Ascending
  <2> HIDE DEF all, from
  <2> QED BY <2>1, <2>2, <2>3, WithinOrder
<1> HIDE DEF from, q
<1>4. blocks \in Seq(Seq(Subproblems)) /\ Len(blocks) = Len(from) /\ \A i \in 1..Len(from) : blocks[i] = Block(from[i])
  <2>1. ASSUME NEW i \in 1..Len(from) PROVE Block(from[i]) \in Seq(Subproblems)
    <3>1. from[i] \in Relations
      BY <1>2
    <3> QED BY <3>1, BlockInTurn DEF InTurn
  <2> QED BY <1>2, <2>1, IsASeq
<1> HIDE DEF blocks
<1>5. Bottom \in SUBSET Subproblems
  BY SourcesBuild
<1>6. B \in [0..Len(from) -> SUBSET Subproblems] /\ \A i \in 0..Len(from) : B[i] = Bottom \cup UpToBlock(i)
  BY <1>5
<1> HIDE DEF B
<1>7. ASSUME NEW i \in 1..Len(from) PROVE InTurn(blocks[i], B[i - 1], B[i])
  <2>0. i - 1 \in 0..Len(from) /\ i \in 0..Len(from) /\ from[i] \in Relations /\ i \in Nat
    BY <1>2
  <2>1. InTurn(blocks[i], Bottom \cup Lower(from[i]), HighestIs(from[i]))
    BY <1>4, <2>0, BlockInTurn
  <2>2. Lower(from[i]) \subseteq UpToBlock(i - 1)
    <3> SUFFICES ASSUME NEW P \in Subproblems, Linked(P), Max(P) < from[i]
                 PROVE  \E j \in 1..(i - 1) : Max(P) = from[j]
      BY DEF Lower
    <3>1. Max(P) \in Relations
      BY MaxFacts DEF Subproblems
    <3>2. PICK j \in 1..Len(from) : from[j] = Max(P)
      BY <1>2, <3>1, ToSetFacts
    <3>3. from[j] < from[i] /\ from[j] \in Nat /\ from[i] \in Nat
      BY <1>0, <2>0, <3>1, <3>2
    <3>4. ~(i < j) /\ i # j
      <4>1. i < j => <<from[i], from[j]>> \in {p \in Nat \X Nat : p[1] < p[2]}
        BY <1>3 DEF InOrder
      <4> QED BY <3>3, <4>1
    <3>5. j \in 1..(i - 1)
      BY <1>2, <3>4
    <3> QED BY <3>2, <3>5
  <2>3. UpToBlock(i) \subseteq UpToBlock(i - 1) \cup HighestIs(from[i])
    <3>1. \A j \in 1..i : j = i \/ j \in 1..(i - 1)
      BY <2>0
    <3> QED BY <3>1 DEF HighestIs
  <2>4. B[i - 1] \in SUBSET Subproblems /\ B[i - 1] = Bottom \cup UpToBlock(i - 1) /\ B[i] = Bottom \cup UpToBlock(i)
    BY <1>6, <2>0
  <2> HIDE DEF UpToBlock
  <2>5. Bottom \cup Lower(from[i]) \subseteq B[i - 1] /\ B[i] \subseteq B[i - 1] \cup HighestIs(from[i])
    BY <2>2, <2>3, <2>4
  <2> QED BY <2>1, <2>4, <2>5 DEF InTurn
<1>8. InTurn(Flatten(blocks), B[0], B[Len(from)])
  BY <1>4, <1>6, <1>7, FlattenInTurn
<1>9. B[0] = Bottom
  <2>1. 0 \in 0..Len(from) /\ 1..0 = {}
    BY <1>2
  <2> QED BY <1>6, <2>1
<1>10. InTurn(q, Bottom, {})
  BY <1>1, <1>8, <1>9 DEF InTurn
<1>11. DPccp = Flatten([i \in 1..Len(q) |-> RowOf(q[i])])
  BY DEF DPccp, RowOf, PartnersOf, q
<1> QED BY <1>10, <1>11, RowsBuild

-----------------------------------------------------------------------------
(* The lists of tasks that the enumerators and the searches make.          *)

LEMMA BottomPlanned == Bottom \subseteq Planned
<1>1. \A S \in Bottom : S \in Subproblems /\ Singleton(S)
  BY SourcesBuild
<1> QED BY <1>1 DEF Planned, HasPlan

LEMMA GOOFromBottom ==
  ASSUME GraphOK, CardOK
  PROVE  Builds(GOO, Bottom, {}) /\ Builds(TDGOO, Bottom, {})
<1>0. Bottom \in SUBSET Subproblems
  BY SourcesBuild
<1>1. Builds(GOO, Bottom, Top)
  BY GOOLeads, LeadsBuilds
<1>2. Builds(TDGOO, Bottom, ToSet(<<All>>))
  <2> PICK w : w = <<All>>
    OBVIOUS
  <2>1. w \in Seq(Subproblems)
    BY SubproblemsFacts
  <2>2. Builds(TDGOOFrom(w), Bottom, ToSet(w))
    BY <2>1, TDGOOBuilds
  <2> QED BY <2>2 DEF TDGOO
<1> QED BY <1>0, <1>1, <1>2, BuildsMore

LEMMA FirstTasksSupported ==
  ASSUME GraphOK, CardOK, algo \notin TestsPlans, NEW t \in FirstTasks, NEW planned, Bottom \subseteq planned
  PROVE  Supported(t, planned)
<1>1. ASSUME NEW s, Builds(s, Bottom, {}), t = Joins(s) PROVE Supported(t, planned)
  BY <1>1, JoinsSupported
<1>2. CASE algo = "PEall"
  <2>1. t = Joins(PEall)
    BY <1>2 DEF FirstTasks
  <2>2. Builds(PEall, Bottom, {})
    BY PEallExhausts, ExhaustsBuilds
  <2> QED BY <1>1, <2>1, <2>2
<1>3. CASE algo = "DPccp"
  <2>1. t = Joins(DPccp)
    BY <1>3 DEF FirstTasks
  <2> QED BY <1>1, <2>1, DPccpBuilds
<1>4. CASE algo = "GOO"
  <2>1. t = Joins(GOO)
    BY <1>4 DEF FirstTasks
  <2> QED BY <1>1, <2>1, GOOFromBottom
<1>5. CASE algo = "TDGOO"
  <2>1. t = Joins(TDGOO)
    BY <1>5 DEF FirstTasks
  <2> QED BY <1>1, <2>1, GOOFromBottom
<1>6. CASE algo = "IKKBZ"
  <2>1. PICK l \in Linearizations : t = Joins(RightDeep(l))
    BY <1>6 DEF FirstTasks
  <2>2. Builds(RightDeep(l), Bottom, {})
    BY LinearizationsFacts, RightDeepBuilds
  <2> QED BY <1>1, <2>1, <2>2
<1>7. CASE algo \in {"TDbasic", "TDMinCutAGaT"}
  <2>1. t = <<Solve(All)>>
    BY <1>7 DEF FirstTasks
  <2>2. Len(t) = 1 /\ t[1][1] = "solve"
    BY <2>1 DEF Solve
  <2>3. \A i \in 1..Len(t) : i = 1
    BY <2>2
  <2> QED BY <2>2, <2>3 DEF Supported
<1> QED BY <1>2, <1>3, <1>4, <1>5, <1>6, <1>7 DEF FirstTasks, TestsPlans

LEMMA HeuristicSteps ==
  ASSUME GraphOK, CardOK, HsOK, HeuristicNext
  PROVE  /\ HsOK' /\ UNCHANGED <<card, table, graph, algo>>
         /\ \/ tasks' = tasks
            \/ \E joins \in Seq(JoinedSplits) : Builds(joins, Bottom, {}) /\ tasks' = Joins(joins)
<1>1. CASE StartSearch
  BY <1>1, SearchStarts DEF StartSearch
<1>2. CASE Explore
  BY <1>2, ExploreKeeps DEF Explore
<1>3. ASSUME hs # NoSearch, NEW phase, NEW joins \in Seq(JoinedSplits), Builds(joins, Bottom, {}), EndWith(phase, joins)
      PROVE  /\ HsOK' /\ UNCHANGED <<card, table, graph, algo>>
             /\ \E s \in Seq(JoinedSplits) : Builds(s, Bottom, {}) /\ tasks' = Joins(s)
  <2>1. HsOK'
    BY <1>3, EndingKeeps
  <2> QED BY <1>3, <2>1 DEF EndWith
<1>t. Bottom \in SUBSET Subproblems /\ Top \in SUBSET Subproblems
  BY SourcesBuild
<1>4. ASSUME hs # NoSearch, NEW P \in DOMAIN known
      PROVE  /\ PlanTo(P) \in Seq(JoinedSplits)
             /\ IF topDown THEN Builds(PlanTo(P), P, Top) ELSE Builds(PlanTo(P), Bottom, P)
             /\ Completion(P) \in Seq(JoinedSplits) /\ Builds(Completion(P), P, Top)
             /\ CompletionTopDown(P) \in Seq(JoinedSplits) /\ Builds(CompletionTopDown(P), Bottom, P)
  <2>1. PlanTo(P) \in Seq(JoinedSplits)
    BY <1>4, PlanToFacts
  <2>p. IF topDown THEN Builds(PlanTo(P), P, Top) ELSE Builds(PlanTo(P), Bottom, P)
    BY <1>4, PlanToBuilds
  <2>2. P \in Divisions
    BY <1>4 DEF HsOK
  <2> DEFINE d == ByValue(P)
  <2>3. d \in Seq(Subproblems) /\ Nodes(d) /\ ToSet(d) = P /\ \A i \in 1..Len(d) : Linked(d[i])
    BY <2>2, DivisionNodes
  <2> HIDE DEF d
  <2>4. GOOFrom(d) \in Seq(JoinedSplits) /\ Builds(GOOFrom(d), P, Top)
    BY <2>3, GOOFromFacts, GOOBuilds
  <2>5. TDGOOFrom(d) \in Seq(JoinedSplits) /\ Builds(TDGOOFrom(d), Bottom, P)
    BY <2>3, TDGOOFromFacts, TDGOOBuilds
  <2> QED BY <2>1, <2>p, <2>4, <2>5 DEF Completion, CompletionTopDown, d
<1>5. CASE ReachGoal
  <2>1. hs # NoSearch /\ Goal \in DOMAIN known /\ EndWith("goal", PlanTo(Goal))
    BY <1>5 DEF ReachGoal, MaySearch, Tops, Queued
  <2>2. /\ PlanTo(Goal) \in Seq(JoinedSplits)
        /\ IF topDown THEN Builds(PlanTo(Goal), Goal, Top) ELSE Builds(PlanTo(Goal), Bottom, Goal)
    BY <1>4, <2>1
  <2>3. Builds(PlanTo(Goal), Bottom, Top)
    BY <2>2 DEF Goal
  <2>4. Builds(PlanTo(Goal), Bottom, {})
    BY <1>t, <2>3, BuildsMore
  <2> QED BY <1>3, <2>1, <2>2, <2>4
<1>6. CASE ExhaustBudget
  <2>1. hs # NoSearch
    BY <1>6 DEF ExhaustBudget, MaySearch
  <2>2. PICK P \in Nearest :
          EndWith("budget", IF topDown THEN CompletionTopDown(P) \o PlanTo(P) ELSE PlanTo(P) \o Completion(P))
    BY <1>6 DEF ExhaustBudget
  <2>3. P \in DOMAIN known
    BY DEF Nearest
  <2> DEFINE up == PlanTo(P) \o Completion(P)
             down == CompletionTopDown(P) \o PlanTo(P)
  <2>4. /\ PlanTo(P) \in Seq(JoinedSplits)
        /\ IF topDown THEN Builds(PlanTo(P), P, Top) ELSE Builds(PlanTo(P), Bottom, P)
        /\ Completion(P) \in Seq(JoinedSplits) /\ Builds(Completion(P), P, Top)
        /\ CompletionTopDown(P) \in Seq(JoinedSplits) /\ Builds(CompletionTopDown(P), Bottom, P)
    BY <1>4, <2>1, <2>3
  <2>5. up \in Seq(JoinedSplits) /\ down \in Seq(JoinedSplits)
    BY <2>4, ConcatProperties
  <2>b. IF topDown THEN Builds(down, Bottom, Top) ELSE Builds(up, Bottom, Top)
    <3>1. CASE topDown
      <4>1. Builds(PlanTo(P), P, Top)
        BY <2>4, <3>1
      <4>2. Builds(down, Bottom, Top)
        BY <2>4, <4>1, BuildsThen
      <4> QED BY <3>1, <4>2
    <3>2. CASE ~topDown
      <4>1. Builds(PlanTo(P), Bottom, P)
        BY <2>4, <3>2
      <4>2. Builds(up, Bottom, Top)
        BY <2>4, <4>1, BuildsThen
      <4> QED BY <3>2, <4>2
    <3> QED BY <3>1, <3>2
  <2> HIDE DEF up, down
  <2>6. EndWith("budget", IF topDown THEN down ELSE up)
    BY <2>2 DEF up, down
  <2>7. (IF topDown THEN down ELSE up) \in Seq(JoinedSplits)
    BY <2>5
  <2>8. Builds(IF topDown THEN down ELSE up, Bottom, Top)
    BY <2>b
  <2>9. Builds(IF topDown THEN down ELSE up, Bottom, {})
    BY <1>t, <2>8, BuildsMore
  <2> QED BY <1>3, <2>1, <2>6, <2>7, <2>9
<1>7. CASE FallBack
  <2>1. hs # NoSearch /\ EndWith("fallback", IF hs.config.upperBound THEN GOO ELSE DPccp)
    BY <1>7 DEF FallBack, MaySearch
  <2>2. (IF hs.config.upperBound THEN GOO ELSE DPccp) \in Seq(JoinedSplits)
    BY GOOFacts, DPccpFacts
  <2>3. Builds(IF hs.config.upperBound THEN GOO ELSE DPccp, Bottom, {})
    BY GOOFromBottom, DPccpBuilds
  <2> QED BY <1>3, <2>1, <2>2, <2>3
<1> QED BY <1>1, <1>2, <1>5, <1>6, <1>7 DEF HeuristicNext

-----------------------------------------------------------------------------
(* Top down: what takes the place of a subproblem to be solved.            *)

LEMMA FlattenClosed ==
  ASSUME NEW T, NEW Good \in SUBSET Seq(T), <<>> \in Good,
         \A s, t \in Good : s \o t \in Good, NEW rows \in Seq(Good)
  PROVE  Flatten(rows) \in Good
<1>0. rows \in Seq(Seq(T)) /\ Len(rows) \in Nat /\ \A i \in 1..Len(rows) : rows[i] \in Good
  BY SeqMonotonic
<1>1. CASE Len(rows) = 0
  <2>1. Flatten(rows) = <<>>
    BY <1>1, EmptySeq DEF Flatten, FlattenSeq
  <2> QED BY <2>1
<1>2. CASE Len(rows) # 0
  <2>1. PICK f \in [1..Len(rows) -> Seq(T)] : FlattenStep(rows, f) /\ Flatten(rows) = f[Len(rows)]
    BY <1>0, <1>2, FlattenEquation
  <2> DEFINE So == {k \in 0..Len(rows) : k # 0 => f[k] \in Good}
  <2>2. 0 \in So
    BY <1>0
  <2>3. ASSUME NEW k \in 1..Len(rows), k - 1 \in So PROVE k \in So
    <3>1. f[k] = IF k = 1 THEN rows[k] ELSE f[k - 1] \o rows[k]
      BY <2>1 DEF FlattenStep
    <3>2. k # 1 => f[k - 1] \in Good
      BY <1>0, <2>3
    <3>3. k # 1 => f[k - 1] \o rows[k] \in Good
      BY <1>0, <3>2
    <3>4. f[k] \in Good /\ k \in 0..Len(rows)
      BY <1>0, <3>1, <3>3
    <3> QED BY <3>4
  <2> HIDE DEF So
  <2>4. Inductive(Len(rows), So)
    BY <2>2, <2>3 DEF Inductive
  <2>5. \A k \in 0..Len(rows) : k \in So
    BY <1>0, <2>4, UpTo
  <2>6. Len(rows) \in So
    BY <1>0, <2>5
  <2> QED BY <1>2, <2>1, <2>6 DEF So
<1> QED BY <1>1, <1>2

LEMMA MinDiffer ==
  ASSUME NEW p \in Splits
  PROVE  Min(p[1]) < Min(p[2]) \/ Min(p[2]) < Min(p[1])
<1>1. p[1] \in SUBSET Relations /\ p[1] # {} /\ p[2] \in SUBSET Relations /\ p[2] # {} /\ p[1] \cap p[2] = {}
  BY DEF Splits, Subproblems
<1>2. Min(p[1]) \in p[1] /\ Min(p[2]) \in p[2]
  BY <1>1, MinFacts
<1>3. Min(p[1]) \in Nat /\ Min(p[2]) \in Nat /\ Min(p[1]) # Min(p[2])
  BY <1>1, <1>2, NFacts
<1> QED BY <1>3

LEMMA PartitionCuts ==
  ASSUME NEW S \in LinkedSets, ~Singleton(S)
  PROVE  Partition(S) \in Seq(LinkedCuts(S)) /\ Len(Partition(S)) # 0
<1>0. S \in Subproblems /\ Linked(S)
  BY DEF LinkedSets
<1>1. Partition(S) \in Seq(LinkedCuts(S))
  BY PartitionFacts
<1>2. MinCuts(S) \in Seq(LinkedCuts(S)) /\ Len(MinCuts(S)) # 0
  BY <1>0, MinCutsFacts
<1>3. CASE algo = "TDbasic"
  <2> DEFINE F == {q \in ToSet(Dissect(S)) : Min(q[1]) < Min(q[2]) /\ Connected(q[1]) /\ Connected(q[2])}
             d == Dissect(S)
  <2>1. Partition(S) = Within(d, F)
    BY <1>3 DEF Partition
  <2>2. PICK p : p \in LinkedCuts(S)
    <3>1. MinCuts(S)[1] \in LinkedCuts(S)
      BY <1>2
    <3> QED BY <3>1
  <2>3. /\ p \in Splits /\ p[1] \cup p[2] = S /\ Linked(p[1]) /\ Linked(p[2])
        /\ p[1] \in Subproblems /\ p[2] \in Subproblems
    BY <2>2 DEF LinkedCuts, SplitsOf, Splits
  <2> DEFINE q == <<p[2], p[1]>>
  <2>4. q \in SplitsOf(S) /\ p \in SplitsOf(S)
    BY <2>2, <2>3, SplitsTyped, SplitPair DEF SplitsOf, LinkedCuts
  <2>5. Connected(p[1]) /\ Connected(p[2])
    BY <2>3, ConnectedMeansLinked
  <2>6. p \in ToSet(d) /\ q \in ToSet(d)
    BY <1>0, <2>4, DissectFull
  <2>7. q[1] = p[2] /\ q[2] = p[1]
    OBVIOUS
  <2>8. p \in F \/ q \in F
    <3>1. Min(p[1]) < Min(p[2]) \/ Min(p[2]) < Min(p[1])
      BY <2>3, MinDiffer
    <3>2. p \in F <=> Min(p[1]) < Min(p[2])
      BY <2>5, <2>6
    <3>3. q \in F <=> Min(p[2]) < Min(p[1])
      <4> HIDE DEF q
      <4> QED BY <2>5, <2>6, <2>7
    <3> HIDE DEF F
    <3> QED BY <3>1, <3>2, <3>3
  <2>9. d \in Seq(SplitsOf(S)) /\ F \subseteq ToSet(d)
    BY <1>0, DissectFacts
  <2> HIDE DEF F, d, q
  <2>10. ToSet(Within(d, F)) = ToSet(d) \cap F
    BY <2>9, WithinFacts
  <2>11. ToSet(Within(d, F)) # {}
    BY <2>6, <2>8, <2>10
  <2>12. ToSet(Partition(S)) = {Partition(S)[i] : i \in 1..Len(Partition(S))}
    BY <1>1, ToSetFacts
  <2>13. \E i \in 1..Len(Partition(S)) : TRUE
    BY <2>1, <2>11, <2>12
  <2> QED BY <1>1, <2>13
<1>4. CASE algo # "TDbasic"
  BY <1>2, <1>4 DEF Partition
<1> QED BY <1>1, <1>3, <1>4

(* The parts of a cut are solved right before they are joined, and the     *)
(* joins are of the subproblem that was to be solved.                      *)
LEMMA SubTasksSupported ==
  ASSUME NEW S \in LinkedSets, ~Singleton(S)
  PROVE  /\ SubTasks(S) \in Seq(PlainTasks) /\ Supported(SubTasks(S), {})
         /\ S \in Scopes(SubTasks(S), Len(SubTasks(S)))
<1> DEFINE ps == Partition(S)
           row(i) == <<Solve(ps[i][1]), Solve(ps[i][2]), Join(ps[i])>>
           rows == [i \in 1..Len(ps) |-> row(i)]
           Good == {s \in Seq(PlainTasks) : Supported(s, {})}
<1>1. ps \in Seq(LinkedCuts(S)) /\ Len(ps) # 0
  BY PartitionCuts
<1>2. SubTasks(S) = Flatten(rows)
  BY Zenon DEF SubTasks
<1> HIDE DEF ps
<1>3. ASSUME NEW i \in 1..Len(ps)
      PROVE  /\ row(i) \in Seq(PlainTasks) /\ Supported(row(i), {})
             /\ Join(ps[i]) \in ToSet(row(i)) /\ Scope(Join(ps[i])) = S
  <2>1. ps[i] \in LinkedCuts(S)
    BY <1>1
  <2>2. ps[i] \in SplitsOf(S) /\ ps[i][1] \in LinkedSets /\ ps[i][2] \in LinkedSets
    BY <2>1 DEF LinkedCuts, LinkedSets, SplitsOf, Splits
  <2>3. ps[i] \in Allowed
    BY <2>2, LinkedSplits, AllowedFacts DEF LinkedSets
  <2>4. Solve(ps[i][1]) \in PlainTasks /\ Solve(ps[i][2]) \in PlainTasks /\ Join(ps[i]) \in PlainTasks
    BY <2>2, <2>3 DEF PlainTasks
  <2> PICK a, b, c : a = Solve(ps[i][1]) /\ b = Solve(ps[i][2]) /\ c = Join(ps[i])
    OBVIOUS
  <2> PICK r : r = <<a, b, c>>
    OBVIOUS
  <2>5. r = row(i)
    OBVIOUS
  <2>6. r \in Seq(PlainTasks) /\ Len(r) = 3 /\ r[1] = a /\ r[2] = b /\ r[3] = c
    BY <2>4
  <2>7. /\ a[1] = "solve" /\ b[1] = "solve" /\ c[1] = "join"
        /\ Scope(a) = ps[i][1] /\ Scope(b) = ps[i][2] /\ c[2] = ps[i][1] /\ c[3] = ps[i][2]
        /\ Scope(c) = ps[i][1] \cup ps[i][2]
    BY DEF Solve, Join, Scope, UnionOf
  <2>8. Supported(r, {})
    <3> SUFFICES ASSUME NEW k \in 1..3, r[k][1] \in {"join", "visit"}
                 PROVE  r[k][2] \in Scopes(r, k - 1) /\ r[k][3] \in Scopes(r, k - 1)
      BY <2>6 DEF Supported
    <3>1. k = 3
      <4>1. k = 1 \/ k = 2 \/ k = 3
        OBVIOUS
      <4> QED BY <2>6, <2>7, <4>1
    <3>2. 1 \in 1..(k - 1) /\ 2 \in 1..(k - 1)
      BY <3>1
    <3>3. Scope(r[1]) \in Scopes(r, k - 1) /\ Scope(r[2]) \in Scopes(r, k - 1)
      BY <3>2 DEF Scopes
    <3> QED BY <2>6, <2>7, <3>1, <3>3
  <2>9. c \in ToSet(r)
    <3>1. 3 \in DOMAIN r /\ r[3] = c
      BY <2>6
    <3> QED BY <3>1 DEF ToSet
  <2>10. ps[i][1] \cup ps[i][2] = S
    BY <2>2 DEF SplitsOf
  <2> QED BY <2>5, <2>6, <2>7, <2>8, <2>9, <2>10
<1> HIDE DEF row
<1>4. rows \in Seq(Good) /\ rows \in Seq(Seq(PlainTasks)) /\ Len(rows) = Len(ps)
  <2>1. \A i \in 1..Len(ps) : row(i) \in Good
    BY <1>3
  <2> HIDE DEF Good
  <2>2. rows \in Seq(Good) /\ Len(rows) = Len(ps)
    BY <1>1, <2>1, IsASeq
  <2>3. rows \in Seq(Seq(PlainTasks))
    BY <1>1, <1>3, IsASeq
  <2> QED BY <2>2, <2>3
<1>5. <<>> \in Good
  BY DEF Supported
<1>6. ASSUME NEW s \in Good, NEW t \in Good PROVE s \o t \in Good
  <2>1. s \in Seq(PlainTasks) /\ t \in Seq(PlainTasks) /\ Supported(s, {}) /\ Supported(t, {})
    OBVIOUS
  <2>2. s \o t \in Seq(PlainTasks)
    BY <2>1, ConcatProperties
  <2> PICK none : none = {}
    OBVIOUS
  <2>3. Supported(s, none) /\ Supported(t, none) /\ none \subseteq none \cup Scopes(s, Len(s))
    BY <2>1
  <2>4. Supported(s \o t, none)
    BY <2>1, <2>3, SupportedThen
  <2> QED BY <2>2, <2>4
<1>7. Flatten(rows) \in Good
  <2>1. Good \in SUBSET Seq(PlainTasks)
    OBVIOUS
  <2> HIDE DEF Good, rows
  <2> QED BY <1>4, <1>5, <1>6, <2>1, FlattenClosed
<1>8. S \in Scopes(Flatten(rows), Len(Flatten(rows)))
  <2>1. 1 \in 1..Len(ps)
    BY <1>1
  <2>2. rows[1] = row(1)
    BY <2>1
  <2>3. Join(ps[1]) \in ToSet(rows[1]) /\ Scope(Join(ps[1])) = S
    BY <1>3, <2>1, <2>2
  <2>4. ToSet(Flatten(rows)) = UNION {ToSet(rows[j]) : j \in 1..Len(rows)}
    <3> HIDE DEF rows
    <3> QED BY <1>4, FlattenElements
  <2> HIDE DEF rows
  <2>5. Join(ps[1]) \in ToSet(Flatten(rows))
    BY <1>4, <2>1, <2>3, <2>4
  <2>6. ToSet(Flatten(rows)) = {Flatten(rows)[j] : j \in 1..Len(Flatten(rows))}
    BY <1>7, ToSetFacts
  <2>7. PICK j \in 1..Len(Flatten(rows)) : Flatten(rows)[j] = Join(ps[1])
    BY <2>5, <2>6
  <2> QED BY <2>3, <2>7 DEF Scopes
<1> QED BY <1>2, <1>7, <1>8

-----------------------------------------------------------------------------
(* The invariant of join ordering.                                         *)

OrderingInv ==
  /\ TypeOK /\ SidesHavePlans
  /\ GraphOK /\ TasksOK /\ SearchOK /\ HsOK
  /\ NoCrossProducts

LEMMA SameTasks ==
  ASSUME UNCHANGED <<graph, algo>>
  PROVE  PlainTasks' = PlainTasks /\ Allowed' = Allowed
<1>1. Allowed' = Allowed
  BY SameGraph DEF Allowed
<1>2. LinkedSets' = LinkedSets
  BY SameGraph
<1> QED BY <1>1, <1>2 DEF PlainTasks

LEMMA SameOrder ==
  ASSUME UNCHANGED <<card, table, graph, algo, tasks>>
  PROVE  TasksOK => TasksOK'
<1>1. PlainTasks' = PlainTasks
  BY SameTasks
<1>2. Planned' = Planned
  BY DEF Planned, HasPlan
<1> PICK planned : planned = Planned
  OBVIOUS
<1>3. Supported(tasks, planned) => Supported(tasks', planned)
  OBVIOUS
<1>4. Supported(tasks, Planned) => Supported(tasks, Planned)'
  BY <1>2, <1>3 DEF Supported, Scopes, Scope, UnionOf
<1> QED BY <1>1, <1>4 DEF TasksOK, TasksTyped

LEMMA SameTable ==
  ASSUME UNCHANGED <<card, table, graph, algo>>
  PROVE  /\ TypeOK => TypeOK'
         /\ SidesHavePlans => SidesHavePlans'
         /\ NoCrossProducts => NoCrossProducts'
         /\ GraphOK => GraphOK'
         /\ Planned' = Planned
<1>1. \A S : HasPlan(S)' <=> HasPlan(S)
  BY DEF HasPlan
<1>2. \A L, R : Joined(L, R)' <=> Joined(L, R)
  BY SameGraph
<1> QED BY <1>1, <1>2 DEF TypeOK, SidesHavePlans, NoCrossProducts, GraphOK, Planned

LEMMA SameSearches ==
  ASSUME UNCHANGED <<graph, search, hs>>
  PROVE  (SearchOK => SearchOK') /\ (HsOK => HsOK')
<1>1. SearchOK => SearchOK'
  BY DEF SearchOK
<1>2. known' = known /\ topDown' = topDown
  BY DEF known, topDown
<1>3. \A Q : ParentOK(Q)' <=> ParentOK(Q)
  <2>1. Start' = Start /\ \A P1, P2 : OneStep(P1, P2)' <=> OneStep(P1, P2)
    BY <1>2, SameStep
  <2> QED BY <1>2, <2>1 DEF ParentOK
<1>4. HsOK => HsOK'
  BY <1>2, <1>3, SameGraph DEF HsOK
<1> QED BY <1>1, <1>4

LEMMA OrderingBegins == OrderingInit => OrderingInv
<1> SUFFICES ASSUME OrderingInit PROVE OrderingInv
  OBVIOUS
<1>0. Init /\ graph \in Graphs /\ tasks = <<<<"enumerate">>>> /\ SearchInit /\ hs = NoSearch
  BY DEF OrderingInit, EnumInit
<1>1. TypeOK
  BY <1>0, InitTyped
<1>2. \A S \in Subproblems : table[S].left = {}
  BY <1>0 DEF Init, InitTable
<1>3. SidesHavePlans /\ NoCrossProducts
  BY <1>2 DEF SidesHavePlans, NoCrossProducts
<1>4. TasksOK
  <2>1. <<"enumerate">> \in PlainTasks
    BY DEF PlainTasks
  <2>2. <<<<"enumerate">>>> \in Seq(PlainTasks)
    BY <2>1
  <2>3. tasks[1] = <<"enumerate">> /\ \A i \in 1..Len(tasks) : i = 1
    BY <1>0
  <2>4. Supported(tasks, Planned)
    BY <2>3 DEF Supported
  <2> QED BY <1>0, <2>2, <2>4 DEF TasksOK, TasksTyped
<1> QED BY <1>0, <1>1, <1>3, <1>4, SearchBegins DEF OrderingInv, GraphOK, HsOK

LEMMA SolveFacts ==
  ASSUME TasksOK, ~Finished, tasks[Next1][1] = "solve"
  PROVE  /\ tasks \in Seq(PlainTasks)
         /\ tasks[Next1][2] \in LinkedSets /\ ~Singleton(tasks[Next1][2])
<1>1. tasks \in Seq(PlainTasks)
  <2>1. CASE algo = "TwoPhaseOptimizer" /\ tasks \in Seq(VisitTasks)
    <3>1. tasks \in Seq(VisitTasks)
      BY <2>1
    <3>2. tasks[Next1] \in VisitTasks
      BY <3>1, FirstApplies
    <3>3. tasks[Next1][1] = "visit"
      BY <3>2, TaskKinds DEF Visit
    <3> QED BY <3>3
  <2> QED BY <2>1 DEF TasksOK, TasksTyped
<1> DEFINE t == tasks[Next1]
<1>2. t \in PlainTasks /\ Applies(t) /\ t[1] = "solve"
  BY <1>1, FirstApplies
<1> HIDE DEF t
<1>3. PICK S \in LinkedSets : t = Solve(S)
  BY <1>2, TaskKinds DEF Join
<1>4. t[2] = S
  BY <1>3 DEF Solve
<1>5. ~HasPlan(S)
  BY <1>2, <1>4 DEF Applies
<1> QED BY <1>1, <1>4, <1>5 DEF HasPlan, t

(* What takes the place of the tasks is in order for the plans there are.  *)
LEMMA NewTasks ==
  ASSUME UNCHANGED <<card, table, graph, algo>>,
         tasks' \in Seq(PlainTasks) \/ (algo = "TwoPhaseOptimizer" /\ tasks' \in Seq(VisitTasks)),
         algo \notin TestsPlans => Supported(tasks', Planned)
  PROVE  TasksOK'
<1>1. PlainTasks' = PlainTasks
  BY SameTasks
<1>2. Planned' = Planned
  BY DEF Planned, HasPlan
<1> PICK planned : planned = Planned
  OBVIOUS
<1>3. algo \notin TestsPlans => Supported(tasks', planned)
  OBVIOUS
<1>4. (algo \notin TestsPlans => Supported(tasks, Planned))'
  BY <1>2, <1>3 DEF Supported, Scopes, Scope, UnionOf, TestsPlans
<1>5. VisitTasks' = VisitTasks
  BY DEF VisitTasks, Visit, Splits, Subproblems
<1> QED BY <1>1, <1>4, <1>5 DEF TasksOK, TasksTyped

LEMMA EnumSteps ==
  ASSUME OrderingInv, EnumNext, UNCHANGED <<search, hs>>
  PROVE  OrderingInv' /\ [Next]_vars
<1>0. /\ TypeOK /\ SidesHavePlans /\ GraphOK /\ TasksOK /\ TasksTyped /\ SearchOK /\ HsOK
      /\ NoCrossProducts /\ CardOK
  BY DEF OrderingInv, TypeOK, CardOK, TasksOK
<1>1. ASSUME UNCHANGED <<card, table, graph, algo>>, tasks' \in Seq(PlainTasks),
             algo \notin TestsPlans => Supported(tasks', Planned)
      PROVE  OrderingInv' /\ [Next]_vars
  <2>1. TasksOK'
    BY <1>1, NewTasks
  <2>2. SearchOK' /\ HsOK'
    BY <1>0, <1>1, SameSearches
  <2>3. TypeOK' /\ SidesHavePlans' /\ NoCrossProducts' /\ GraphOK'
    BY <1>0, <1>1, SameTable
  <2>4. UNCHANGED vars
    BY <1>1 DEF vars
  <2> QED BY <2>1, <2>2, <2>3, <2>4 DEF OrderingInv
<1>2. CASE Enumerate
  <2>1. tasks' \in FirstTasks /\ UNCHANGED <<card, table, graph, algo>>
    BY <1>2 DEF Enumerate
  <2>2. tasks' \in Seq(PlainTasks)
    BY <1>0, <2>1, FirstTasksFacts
  <2>3. algo \notin TestsPlans => Supported(tasks', Planned)
    BY <1>0, <2>1, FirstTasksSupported, BottomPlanned
  <2> QED BY <1>1, <2>1, <2>2, <2>3
<1>3. CASE SolveSubproblem
  <2>1. /\ ~Finished /\ tasks[Next1][1] = "solve" /\ tasks' = SubTasks(tasks[Next1][2]) \o Rest
        /\ UNCHANGED <<card, table, graph, algo>>
    BY <1>3 DEF SolveSubproblem
  <2> PICK S : S = tasks[Next1][2]
    OBVIOUS
  <2>2. tasks \in Seq(PlainTasks) /\ S \in LinkedSets /\ ~Singleton(S) /\ Scope(tasks[Next1]) = S
    BY <1>0, <2>1, SolveFacts DEF Scope
  <2> PICK sub : sub = SubTasks(S)
    OBVIOUS
  <2>3. sub \in Seq(PlainTasks) /\ Supported(sub, {}) /\ S \in Scopes(sub, Len(sub))
    BY <2>2, SubTasksSupported
  <2>4. Rest \in Seq(PlainTasks)
    BY <2>1, <2>2, FirstApplies
  <2>5. tasks' \in Seq(PlainTasks) /\ tasks' = sub \o Rest
    BY <2>1, <2>3, <2>4, ConcatProperties
  <2>6. ASSUME algo \notin TestsPlans PROVE Supported(tasks', Planned)
    <3> PICK planned : planned = Planned
      OBVIOUS
    <3> PICK more : more = planned \cup {S}
      OBVIOUS
    <3>1. Supported(Rest, more)
      BY <1>0, <2>1, <2>2, <2>6, SupportedRest
    <3>2. Supported(sub, planned)
      BY <2>3 DEF Supported
    <3>3. more \subseteq planned \cup Scopes(sub, Len(sub))
      BY <2>3
    <3>4. Supported(sub \o Rest, planned)
      BY <2>3, <2>4, <3>1, <3>2, <3>3, SupportedThen
    <3> QED BY <2>5, <3>4
  <2> QED BY <1>1, <2>1, <2>5, <2>6
<1>4. CASE ConsiderJoin
  <2> DEFINE L == tasks[Next1][2]
             R == tasks[Next1][3]
  <2>1. /\ ~Finished /\ tasks[Next1][1] \in {"join", "visit"} /\ Update(L, R)
        /\ tasks' = Rest /\ UNCHANGED <<graph, algo>>
    BY <1>4 DEF ConsiderJoin
  <2>2. <<L, R>> \in Allowed /\ May(L, R)
    BY <1>0, <2>1, ConsideredJoin
  <2>r. Scope(tasks[Next1]) = L \cup R
    BY <2>1 DEF Scope, UnionOf
  <2> HIDE DEF L, R
  <2>3. L \in Subproblems /\ R \in Subproblems
    BY <2>2, AllowedFacts DEF Splits
  <2>4. TypeOK' /\ SidesHavePlans'
    BY <1>0, <2>1, <2>2, <2>3, UpdateChanges, SidesKept
  <2>5. Planned \cup {L \cup R} \subseteq Planned'
    BY <1>0, <2>1, <2>3, UpdatePlans
  <2>6. TasksOK'
    <3>1. TasksTyped'
      <4>1. PICK T : tasks \in Seq(T) /\ (T = PlainTasks \/ (algo = "TwoPhaseOptimizer" /\ T = VisitTasks))
        BY <1>0 DEF TasksTyped
      <4>2. Rest \in Seq(T)
        BY <2>1, <4>1, FirstApplies
      <4>3. PlainTasks' = PlainTasks /\ VisitTasks' = VisitTasks
        BY <2>1, SameTasks DEF VisitTasks, Visit, Splits, Subproblems
      <4> QED BY <2>1, <4>1, <4>2, <4>3 DEF TasksTyped
    <3>2. ASSUME algo \notin TestsPlans PROVE Supported(tasks, Planned)'
      <4> PICK planned : planned = Planned'
        OBVIOUS
      <4>1. Planned \cup {Scope(tasks[Next1])} \subseteq planned
        BY <2>5, <2>r
      <4>2. Supported(Rest, planned)
        BY <1>0, <2>1, <3>2, <4>1, SupportedRest
      <4>3. Supported(tasks', planned)
        BY <2>1, <4>2
      <4> QED BY <4>3 DEF Supported, Scopes, Scope, UnionOf
    <3> QED BY <2>1, <3>1, <3>2 DEF TasksOK, TestsPlans
  <2>7. NoCrossProducts'
    <3> SUFFICES ASSUME algo \notin Loose, NEW S \in Subproblems, table'[S].left # {}
                 PROVE  Joined(table'[S].left, table'[S].right)
      BY <2>1, SameGraph DEF NoCrossProducts, Loose
    <3>1. CASE S = L \cup R /\ Better(L, R)
      <4>1. table'[S] = Entry(L, R)
        BY <1>0, <2>1, <2>3, <3>1, UpdateChanges
      <4>2. <<L, R>> \in JoinedSplits
        BY <2>2 DEF Allowed
      <4> QED BY <4>1, <4>2 DEF Entry, JoinedSplits
    <3>2. CASE ~(S = L \cup R /\ Better(L, R))
      <4>1. table'[S] = table[S]
        BY <1>0, <2>1, <2>3, <3>2, UpdateChanges
      <4> QED BY <1>0, <4>1 DEF NoCrossProducts, Loose
    <3> QED BY <3>1, <3>2
  <2>8. GraphOK' /\ SearchOK' /\ HsOK'
    BY <1>0, <2>1, SameSearches DEF GraphOK
  <2>9. Next
    BY <2>1, <2>2, <2>3 DEF Next, May
  <2> QED BY <2>4, <2>6, <2>7, <2>8, <2>9 DEF OrderingInv
<1> QED BY <1>2, <1>3, <1>4 DEF EnumNext

LEMMA SearchingSteps ==
  ASSUME OrderingInv, (SearchNext /\ UNCHANGED hs) \/ (HeuristicNext /\ UNCHANGED search)
  PROVE  OrderingInv' /\ [Next]_vars
<1>0. /\ TypeOK /\ SidesHavePlans /\ GraphOK /\ TasksOK /\ SearchOK /\ HsOK
      /\ NoCrossProducts /\ CardOK
  BY DEF OrderingInv, TypeOK, CardOK
<1>1. ASSUME UNCHANGED <<card, table, graph, algo>>, SearchOK', HsOK',
             \/ tasks' = tasks
             \/ /\ tasks' \in Seq(PlainTasks) \/ (algo = "TwoPhaseOptimizer" /\ tasks' \in Seq(VisitTasks))
                /\ algo \notin TestsPlans => Supported(tasks', Planned)
      PROVE  OrderingInv' /\ [Next]_vars
  <2>2. TasksOK'
    BY <1>0, <1>1, NewTasks, SameOrder
  <2>3. TypeOK' /\ SidesHavePlans' /\ NoCrossProducts' /\ GraphOK'
    BY <1>0, <1>1, SameTable
  <2>4. UNCHANGED vars
    BY <1>1 DEF vars
  <2> QED BY <1>1, <2>2, <2>3, <2>4 DEF OrderingInv
<1>2. CASE SearchNext /\ UNCHANGED hs
  <2>1. /\ SearchOK' /\ UNCHANGED <<card, table, graph, algo>>
        /\ tasks' = tasks \/ (algo = "TwoPhaseOptimizer" /\ SearchTasks(tasks'))
    BY <1>0, <1>2, SearchSteps
  <2>2. known' = known /\ topDown' = topDown
    BY <1>2 DEF known, topDown
  <2>3. HsOK'
    <3>0. Start' = Start /\ \A P1, P2 : OneStep(P1, P2)' <=> OneStep(P1, P2)
      BY <2>1, <2>2, SameStep
    <3>1. \A Q : ParentOK(Q)' <=> ParentOK(Q)
      BY <2>2, <3>0 DEF ParentOK
    <3> QED BY <1>0, <1>2, <2>1, <2>2, <3>1, SameGraph DEF HsOK
  <2>4. CASE algo = "TwoPhaseOptimizer" /\ SearchTasks(tasks')
    <3>1. PICK s \in LineStates : tasks' = Visits(s) \/ tasks' = Joins(s)
      BY <2>4 DEF SearchTasks
    <3>2. s \in Seq(Splits) /\ Line(s)
      BY DEF LineStates
    <3>3. Joins(s) \in Seq(PlainTasks)
      <4>1. s \in Seq(Allowed)
        BY <2>4, <3>2 DEF Allowed, Loose
      <4> QED BY <4>1, JoinsFacts
    <3>4. Builds(s, Bottom, Top) /\ Bottom \subseteq Planned
      BY LineBuilds, BottomPlanned
    <3>5. Supported(Joins(s), Planned)
      BY <3>4, JoinsSupported
    <3>6. Visits(s) \in Seq(VisitTasks) /\ Supported(Visits(s), Planned)
      BY <3>4, VisitsSupported
    <3> QED BY <1>1, <2>1, <2>3, <2>4, <3>1, <3>3, <3>5, <3>6
  <2> QED BY <1>1, <2>1, <2>3, <2>4
<1>3. CASE HeuristicNext /\ UNCHANGED search
  <2>1. /\ HsOK' /\ UNCHANGED <<card, table, graph, algo>>
        /\ \/ tasks' = tasks
           \/ \E joins \in Seq(JoinedSplits) : Builds(joins, Bottom, {}) /\ tasks' = Joins(joins)
    BY <1>0, <1>3, HeuristicSteps
  <2>2. SearchOK'
    BY <1>0, <1>3 DEF SearchOK
  <2>3. ASSUME NEW joins \in Seq(JoinedSplits), Builds(joins, Bottom, {}), tasks' = Joins(joins)
        PROVE  tasks' \in Seq(PlainTasks) /\ Supported(tasks', Planned)
    <3>1. Joins(joins) \in Seq(PlainTasks)
      BY JoinsOfJoined
    <3>2. Supported(Joins(joins), Planned)
      BY <2>3, BottomPlanned, JoinsSupported
    <3> QED BY <2>3, <3>1, <3>2
  <2> QED BY <1>1, <2>1, <2>2, <2>3
<1> QED BY <1>2, <1>3

LEMMA OrderingStep == OrderingInv /\ [OrderingNext]_orderingVars => OrderingInv' /\ [Next]_vars
<1> SUFFICES ASSUME OrderingInv, [OrderingNext]_orderingVars PROVE OrderingInv' /\ [Next]_vars
  OBVIOUS
<1>1. CASE OrderingNext
  <2>0. \/ EnumNext /\ UNCHANGED <<search, hs>>
        \/ (SearchNext /\ UNCHANGED hs) \/ (HeuristicNext /\ UNCHANGED search)
    BY <1>1, Zenon DEF OrderingNext
  <2>1. CASE EnumNext /\ UNCHANGED <<search, hs>>
    BY <2>1, EnumSteps
  <2>2. CASE (SearchNext /\ UNCHANGED hs) \/ (HeuristicNext /\ UNCHANGED search)
    BY <2>2, SearchingSteps
  <2> QED BY <2>0, <2>1, <2>2
<1>2. CASE UNCHANGED orderingVars
  <2>1. UNCHANGED <<card, table, graph, algo, tasks, search, hs>> /\ UNCHANGED vars
    BY <1>2 DEF orderingVars, vars
  <2>3. TasksOK => TasksOK'
    BY <2>1, SameOrder
  <2> QED BY <2>1, <2>3, SameTable, SameSearches DEF OrderingInv
<1> QED BY <1>1, <1>2

(* Whatever enumerator runs, and however it searches: what is still to do  *)
(* are joins that PlanTable::update() may be called with, in an order in   *)
(* which their sides have plans; states of the searches divide the query.  *)
THEOREM OrderingInvariant == OrderingSpec => []OrderingInv
BY OrderingBegins, OrderingStep, PTL DEF OrderingSpec

(* No enumerator but PEall and the randomised one joins subproblems that   *)
(* no condition connects: has_plan() is all that DPsub asks, and enough.   *)
THEOREM NoneIsCrossProduct == OrderingSpec => []NoCrossProducts
<1>1. OrderingInv => NoCrossProducts
  BY DEF OrderingInv
<1> QED BY OrderingInvariant, <1>1, PTL

(* All enumerators call update() as it asserts: for disjoint subproblems   *)
(* that have plans.  What is proved of the plan table holds for all.       *)
THEOREM EveryEnumeratorKeepsTable == OrderingSpec => ImplementsPlanTable
<1>1. OrderingInit => Table!Init
  BY DEF OrderingInit, EnumInit, Init, Table!Init, InitTable, Table!InitTable, Singleton, Table!Singleton,
         Subproblems, Table!Subproblems
<1>2. OrderingInv /\ [OrderingNext]_orderingVars => [Table!Next]_Table!vars
  <2>1. Next => Table!Next
    BY DEF Next, Table!Next, HasPlan, Table!HasPlan, Update, Table!Update, Better, Table!Better,
           Entry, Table!Entry, JoinCost, Table!JoinCost, Singleton, Table!Singleton,
           Subproblems, Table!Subproblems
  <2>2. UNCHANGED vars => UNCHANGED Table!vars
    BY DEF vars, Table!vars
  <2> QED BY <2>1, <2>2, OrderingStep
<1> QED BY OrderingInvariant, <1>1, <1>2, PTL DEF OrderingSpec, ImplementsPlanTable, Table!Spec

-----------------------------------------------------------------------------
(* construct_join_order() *)

Calls   == Subproblems \X SUBSET graph
Results == [joins : SUBSET (Subproblems \X SUBSET graph), left : SUBSET graph]
CallRank == [call \in Calls |-> SizeOf[call[1]]]

ConstructBody(call, f) ==
  LET S == call[1]
      a == f[<<table[S].left, call[2]>>]
      b == f[<<table[S].right, a.left>>]
      taken == Taken(S, b.left)
  IN  IF table[S].left = {} THEN [joins |-> {}, left |-> call[2]]
      ELSE [joins |-> a.joins \cup b.joins \cup {<<S, taken>>}, left |-> b.left \ taken]
ConstructStep(f) == \A call \in Calls : f[call] = ConstructBody(call, f)

LEMMA TakenFacts ==
  ASSUME NEW S, NEW left \in SUBSET graph
  PROVE  Taken(S, left) \in SUBSET graph
BY DEF Taken

LEMMA SidesFacts ==
  ASSUME SidesHavePlans, NEW S \in Subproblems, table[S].left # {}
  PROVE  LET L == table[S].left  R == table[S].right IN
         /\ <<L, R>> \in SplitsOf(S) /\ L \in Subproblems /\ R \in Subproblems
         /\ L \cup R = S /\ L \cap R = {} /\ HasPlan(L) /\ HasPlan(R)
         /\ SizeOf[L] < SizeOf[S] /\ SizeOf[R] < SizeOf[S]
<1> DEFINE L == table[S].left
           R == table[S].right
<1>1. L \in Subproblems /\ R \in Subproblems /\ L \cup R = S /\ L \cap R = {} /\ HasPlan(L) /\ HasPlan(R)
  BY DEF SidesHavePlans
<1> HIDE DEF L, R
<1>2. <<L, R>> \in SplitsOf(S)
  BY <1>1 DEF SplitsOf, Splits
<1>3. SizeOf[L] < SizeOf[S] /\ SizeOf[R] < SizeOf[S]
  BY <1>2, SidesAreSmaller
<1> QED BY <1>1, <1>2, <1>3 DEF L, R

LEMMA ConstructTyped ==
  ASSUME SidesHavePlans, NEW f \in [Calls -> Results], NEW call \in Calls
  PROVE  ConstructBody(call, f) \in Results
<1> DEFINE S == call[1]
           F == call[2]
           a == f[<<table[S].left, F>>]
           b == f[<<table[S].right, a.left>>]
           taken == Taken(S, b.left)
<1>0. S \in Subproblems /\ F \in SUBSET graph
  BY DEF Calls
<1>1. CASE table[S].left = {}
  <2>1. ConstructBody(call, f) = [joins |-> {}, left |-> F]
    BY <1>1 DEF ConstructBody
  <2> QED BY <1>0, <2>1 DEF Results
<1>2. CASE table[S].left # {}
  <2>1. table[S].left \in Subproblems /\ table[S].right \in Subproblems
    BY <1>0, <1>2, SidesFacts
  <2>2. ConstructBody(call, f) = [joins |-> a.joins \cup b.joins \cup {<<S, taken>>}, left |-> b.left \ taken]
    BY <1>2, Zenon DEF ConstructBody
  <2>3. <<table[S].left, F>> \in Calls
    BY <1>0, <2>1 DEF Calls
  <2>4. a \in Results
    BY <2>3
  <2> HIDE DEF a
  <2>5. <<table[S].right, a.left>> \in Calls
    BY <2>1, <2>4 DEF Calls, Results
  <2>6. b \in Results
    BY <2>5
  <2> HIDE DEF b
  <2>7. taken \in SUBSET graph
    BY <2>6, TakenFacts DEF Results
  <2> HIDE DEF taken
  <2>8. <<S, taken>> \in Subproblems \X SUBSET graph
    BY <1>0, <2>7
  <2>9. b.left \ taken \in SUBSET graph
    BY <2>6 DEF Results
  <2>10. a.joins \cup b.joins \cup {<<S, taken>>} \in SUBSET (Subproblems \X SUBSET graph)
    BY <2>4, <2>6, <2>8 DEF Results
  <2> QED BY <2>2, <2>9, <2>10 DEF Results
<1> QED BY <1>1, <1>2

LEMMA ConstructEquation ==
  ASSUME SidesHavePlans
  PROVE  \E f : ConstructStep(f) /\ Construct = f[<<All, graph>>]
<1> DEFINE D == Calls
           V == Results
           G == [call \in D |-> [f \in [D -> V] |-> ConstructBody(call, f)]]
<1>1. CallRank \in [D -> Nat] /\ V # {}
  <2>1. \A call \in D : SizeOf[call[1]] \in Nat
    BY SizeTyped DEF Calls
  <2>2. CallRank \in [D -> Nat]
    BY <2>1 DEF CallRank
  <2>3. [joins |-> {}, left |-> {}] \in V
    BY DEF Results
  <2> QED BY <2>2, <2>3
<1>2. G \in [D -> [[D -> V] -> V]]
  <2> HIDE DEF D, V
  <2>1. ASSUME NEW call \in D, NEW f \in [D -> V] PROVE ConstructBody(call, f) \in V
    BY ConstructTyped DEF D, V
  <2> QED BY <2>1
<1>3. LooksBelow(G, D, V, CallRank)
  <2> SUFFICES ASSUME NEW call \in D, NEW f \in [D -> V], NEW g \in [D -> V],
                      \A e \in D : CallRank[e] < CallRank[call] => f[e] = g[e]
               PROVE  G[call][f] = G[call][g]
    BY DEF LooksBelow
  <2> DEFINE S == call[1]
             F == call[2]
  <2>0. S \in Subproblems /\ F \in SUBSET graph
    BY DEF Calls
  <2>1. ASSUME table[S].left # {}
        PROVE  /\ f[<<table[S].left, F>>] = g[<<table[S].left, F>>]
               /\ f[<<table[S].right, f[<<table[S].left, F>>].left>>] = g[<<table[S].right, f[<<table[S].left, F>>].left>>]
    <3>1. /\ table[S].left \in Subproblems /\ table[S].right \in Subproblems
          /\ SizeOf[table[S].left] < SizeOf[S] /\ SizeOf[table[S].right] < SizeOf[S]
      BY <2>0, <2>1, SidesFacts
    <3>2. CallRank[call] = SizeOf[S] /\ \A T \in Subproblems, H \in SUBSET graph :
            <<T, H>> \in D /\ CallRank[<<T, H>>] = SizeOf[T]
      BY DEF CallRank, Calls
    <3> DEFINE x == <<table[S].left, F>>
    <3>3. x \in D /\ CallRank[x] < CallRank[call]
      BY <2>0, <3>1, <3>2
    <3> HIDE DEF x, D
    <3>4. f[x] = g[x] /\ f[x] \in V
      BY <3>3
    <3> DEFINE y == <<table[S].right, f[x].left>>
    <3>5. y \in D /\ CallRank[y] < CallRank[call]
      BY <3>1, <3>2, <3>4 DEF Results
    <3> HIDE DEF y
    <3>6. f[y] = g[y]
      BY <3>5
    <3> QED BY <3>4, <3>6 DEF x, y
  <2>2. ConstructBody(call, f) = ConstructBody(call, g)
    BY <2>1 DEF ConstructBody
  <2> HIDE DEF D, V
  <2> QED BY <2>2
<1>4. Solvable(G, D, V)
  <2>1. Recursion(G, D, V, CallRank)
    BY <1>1, <1>2, <1>3 DEF Recursion
  <2> HIDE DEF G, D, V
  <2> QED BY <2>1, RecursiveFunction
<1>5. PICK h \in [D -> V] : \A call \in D : h[call] = G[call][h]
  BY <1>4 DEF Solvable
<1> DEFINE P(f) == f = [call \in Subproblems \X SUBSET graph |->
        LET S == call[1]
            a == f[<<table[S].left, call[2]>>]
            b == f[<<table[S].right, a.left>>]
            taken == Taken(S, b.left)
        IN  IF table[S].left = {} THEN [joins |-> {}, left |-> call[2]]
            ELSE [joins |-> a.joins \cup b.joins \cup {<<S, taken>>}, left |-> b.left \ taken]]
           c == CHOOSE f : P(f)
<1>6. ASSUME NEW f PROVE P(f) <=> f = [call \in Calls |-> ConstructBody(call, f)]
  BY Zenon DEF ConstructBody, Calls
<1>7. Construct = c[<<All, graph>>]
  BY Zenon DEF Construct
<1> HIDE DEF P
<1>8. P(h)
  <2>1. \A call \in D : h[call] = ConstructBody(call, h)
    BY <1>5
  <2>2. h = [call \in Calls |-> ConstructBody(call, h)]
    BY <2>1
  <2> QED BY <1>6, <2>2
<1>9. P(c)
  BY <1>8
<1> HIDE DEF c
<1>10. c = [call \in Calls |-> ConstructBody(call, c)]
  BY <1>6, <1>9
<1>11. ConstructStep(c)
  BY <1>10 DEF ConstructStep
<1> QED BY <1>7, <1>11

(* The conditions between the sides of the plan for S, and those within S. *)
Across(S) == {e \in graph : e \cap table[S].left # {} /\ e \cap table[S].right # {}}
Inside(S) == {e \in graph : e \subseteq S}

JoinsOK(S, F, joins) ==
  \A j \in joins : /\ j[1] \in Subproblems /\ j[1] \subseteq S /\ table[j[1]].left # {}
                   /\ j[2] = Across(j[1]) \cap F
CallOK(f, S, F) ==
  HasPlan(S) => f[<<S, F>>].left = F \ Inside(S) /\ JoinsOK(S, F, f[<<S, F>>].joins)
GoodCalls(f) == {call \in Calls : CallOK(f, call[1], call[2])}

LEMMA EdgesSplit ==
  ASSUME GraphOK, NEW e \in graph, NEW L, NEW R, L \cap R = {}
  PROVE  (e \cap L # {} /\ e \cap R # {}) <=> (e \subseteq L \cup R /\ ~(e \subseteq L) /\ ~(e \subseteq R))
<1>1. PICK u, v \in Relations : u # v /\ e = {u, v}
  BY EdgeFacts
<1> QED BY <1>1

LEMMA AcrossFacts ==
  ASSUME GraphOK, SidesHavePlans, NEW S \in Subproblems, table[S].left # {}
  PROVE  /\ Across(S) = Inside(S) \ (Inside(table[S].left) \cup Inside(table[S].right))
         /\ Inside(table[S].left) \subseteq Inside(S) /\ Inside(table[S].right) \subseteq Inside(S)
         /\ Across(S) \subseteq Inside(S)
<1> DEFINE L == table[S].left
           R == table[S].right
<1>1. L \cup R = S /\ L \cap R = {}
  BY SidesFacts
<1> HIDE DEF L, R
<1>2. Across(S) = {e \in graph : e \cap L # {} /\ e \cap R # {}}
  BY DEF Across, L, R
<1>3. \A e \in graph : (e \cap L # {} /\ e \cap R # {}) <=> (e \subseteq S /\ ~(e \subseteq L) /\ ~(e \subseteq R))
  <2>1. \A e \in graph : (e \cap L # {} /\ e \cap R # {})
                          <=> (e \subseteq L \cup R /\ ~(e \subseteq L) /\ ~(e \subseteq R))
    BY <1>1, EdgesSplit, Zenon
  <2> QED BY <1>1, <2>1
<1>4. Across(S) = Inside(S) \ (Inside(L) \cup Inside(R))
  BY <1>2, <1>3 DEF Inside
<1>5. Inside(L) \subseteq Inside(S) /\ Inside(R) \subseteq Inside(S)
  BY <1>1 DEF Inside
<1> QED BY <1>4, <1>5 DEF L, R

(* Disjoint sets of relations have no conditions in common. *)
LEMMA InsideDisjoint ==
  ASSUME GraphOK, NEW L, NEW R, L \cap R = {}
  PROVE  Inside(L) \cap Inside(R) = {}
<1>1. \A e \in graph : e # {}
  BY EdgeFacts
<1> QED BY <1>1 DEF Inside

LEMMA CallGood ==
  ASSUME GraphOK, SidesHavePlans, NEW f, ConstructStep(f), NEW call \in Calls,
         \A e \in Calls : CallRank[e] < CallRank[call] => e \in GoodCalls(f)
  PROVE  call \in GoodCalls(f)
<1> DEFINE S == call[1]
           F == call[2]
<1>0. S \in Subproblems /\ F \in SUBSET graph /\ call = <<S, F>>
  BY DEF Calls
<1> SUFFICES ASSUME HasPlan(S)
             PROVE  f[<<S, F>>].left = F \ Inside(S) /\ JoinsOK(S, F, f[<<S, F>>].joins)
  BY <1>0 DEF GoodCalls, CallOK
<1>1. f[call] = ConstructBody(call, f)
  BY DEF ConstructStep
<1>2. CASE table[S].left = {}
  <2>1. f[call] = [joins |-> {}, left |-> F]
    BY <1>1, <1>2 DEF ConstructBody
  <2>2. Singleton(S)
    BY <1>2 DEF HasPlan
  <2>3. Inside(S) = {}
    <3>1. \A e \in graph : \E u, v \in Relations : u # v /\ e = {u, v}
      BY EdgeFacts
    <3> QED BY <2>2, <3>1 DEF Inside, Singleton
  <2> HIDE DEF S, F
  <2>4. f[<<S, F>>] = [joins |-> {}, left |-> F]
    BY <1>0, <2>1
  <2> QED BY <2>3, <2>4 DEF JoinsOK
<1>3. CASE table[S].left # {}
  <2> DEFINE L == table[S].left
             R == table[S].right
             a == f[<<L, F>>]
             b == f[<<R, a.left>>]
             taken == Taken(S, b.left)
  <2>1. /\ L \in Subproblems /\ R \in Subproblems /\ L \cup R = S /\ L \cap R = {}
        /\ HasPlan(L) /\ HasPlan(R) /\ SizeOf[L] < SizeOf[S] /\ SizeOf[R] < SizeOf[S]
    BY <1>0, <1>3, SidesFacts
  <2>2. f[call] = [joins |-> a.joins \cup b.joins \cup {<<S, taken>>}, left |-> b.left \ taken]
    BY <1>1, <1>3, Zenon DEF ConstructBody
  <2>3. ASSUME NEW T \in Subproblems, NEW H \in SUBSET graph, SizeOf[T] < SizeOf[S], HasPlan(T)
        PROVE  f[<<T, H>>].left = H \ Inside(T) /\ JoinsOK(T, H, f[<<T, H>>].joins)
    <3> DEFINE x == <<T, H>>
    <3>1. x \in Calls /\ CallRank[x] = SizeOf[T] /\ CallRank[call] = SizeOf[S] /\ x[1] = T /\ x[2] = H
      BY <1>0 DEF Calls, CallRank
    <3> HIDE DEF x
    <3>2. CallOK(f, T, H)
      BY <2>3, <3>1 DEF GoodCalls
    <3> QED BY <2>3, <3>2 DEF CallOK
  <2>4. a.left = F \ Inside(L) /\ JoinsOK(L, F, a.joins)
    BY <1>0, <2>1, <2>3
  <2> HIDE DEF a
  <2>5. a.left \in SUBSET graph
    BY <1>0, <2>4
  <2>6. b.left = a.left \ Inside(R) /\ JoinsOK(R, a.left, b.joins)
    BY <2>1, <2>3, <2>5
  <2> HIDE DEF b
  <2>7. /\ Across(S) = Inside(S) \ (Inside(L) \cup Inside(R))
        /\ Inside(L) \subseteq Inside(S) /\ Inside(R) \subseteq Inside(S)
    BY <1>0, <1>3, AcrossFacts
  <2>8. taken = b.left \cap Inside(S)
    <3>1. b.left \in SUBSET graph
      BY <2>5, <2>6
    <3> QED BY <3>1 DEF Taken, Inside
  <2>9. taken = Across(S) \cap F
    BY <2>4, <2>6, <2>7, <2>8
  <2>10. b.left \ taken = F \ Inside(S)
    BY <2>4, <2>6, <2>7, <2>8
  <2> HIDE DEF taken
  <2>11. JoinsOK(S, F, a.joins)
    BY <2>1, <2>4 DEF JoinsOK
  <2>12. JoinsOK(S, F, b.joins)
    <3> SUFFICES ASSUME NEW j \in b.joins
                 PROVE  /\ j[1] \in Subproblems /\ j[1] \subseteq S /\ table[j[1]].left # {}
                        /\ j[2] = Across(j[1]) \cap F
      BY DEF JoinsOK
    <3> DEFINE T == j[1]
    <3>1. T \in Subproblems /\ T \subseteq R /\ table[T].left # {} /\ j[2] = Across(T) \cap a.left
      BY <2>6 DEF JoinsOK
    <3> HIDE DEF T
    <3>2. Across(T) \subseteq Inside(T)
      BY <3>1, AcrossFacts
    <3>3. T \cap L = {}
      BY <2>1, <3>1
    <3>4. Inside(T) \cap Inside(L) = {}
      BY <3>3, InsideDisjoint
    <3>5. Across(T) \cap a.left = Across(T) \cap F
      BY <2>4, <3>2, <3>4
    <3> QED BY <2>1, <3>1, <3>5 DEF T
  <2>13. JoinsOK(S, F, {<<S, taken>>})
    BY <1>0, <1>3, <2>9 DEF JoinsOK
  <2>14. JoinsOK(S, F, a.joins \cup b.joins \cup {<<S, taken>>})
    BY <2>11, <2>12, <2>13 DEF JoinsOK
  <2> DEFINE joins == a.joins \cup b.joins \cup {<<S, taken>>}
  <2>15. f[call].joins = joins /\ f[call].left = b.left \ taken
    BY <2>2
  <2> HIDE DEF joins, S, F
  <2>16. f[<<S, F>>].joins = joins /\ f[<<S, F>>].left = b.left \ taken
    BY <1>0, <2>15
  <2> QED BY <2>10, <2>14, <2>16 DEF joins
<1> QED BY <1>2, <1>3

LEMMA ConditionsApplied ==
  ASSUME GraphOK, SidesHavePlans
  PROVE  ConditionsAppliedOnce
<1> SUFFICES ASSUME HasPlan(All)
             PROVE  /\ Construct.left = {}
                    /\ \A j \in Construct.joins :
                         j[2] = {e \in graph : e \cap table[j[1]].left # {} /\ e \cap table[j[1]].right # {}}
  BY DEF ConditionsAppliedOnce
<1>1. PICK f : ConstructStep(f) /\ Construct = f[<<All, graph>>]
  BY ConstructEquation
<1> DEFINE Good == GoodCalls(f)
<1>2. ASSUME NEW call \in Calls, \A e \in Calls : CallRank[e] < CallRank[call] => e \in Good
      PROVE  call \in Good
  BY <1>1, <1>2, CallGood
<1> HIDE DEF Good
<1>3. Hereditary(Calls, CallRank, Good)
  BY <1>2 DEF Hereditary
<1>4. CallRank \in [Calls -> Nat]
  <2>1. \A call \in Calls : SizeOf[call[1]] \in Nat
    BY SizeTyped DEF Calls
  <2> QED BY <2>1 DEF CallRank
<1>5. \A call \in Calls : call \in Good
  BY <1>3, <1>4, RankInduction
<1> DEFINE first == <<All, graph>>
<1>6. first \in Calls /\ first[1] = All /\ first[2] = graph
  BY SubproblemsFacts DEF Calls
<1> HIDE DEF first
<1>7. CallOK(f, All, graph)
  BY <1>5, <1>6 DEF Good, GoodCalls
<1>8. Construct.left = graph \ Inside(All) /\ JoinsOK(All, graph, Construct.joins)
  BY <1>1, <1>7 DEF CallOK
<1>9. Inside(All) = graph
  BY EdgeFacts DEF Inside, All
<1>10. \A j \in Construct.joins : j[2] = Across(j[1])
  BY <1>8 DEF JoinsOK, Across
<1> QED BY <1>8, <1>9, <1>10 DEF Across

(* construct_join_order() applies every condition of the query exactly     *)
(* once, at the join that brings its sources together, for every plan that *)
(* any enumerator leaves in the table, and leaves none over.               *)
THEOREM EachConditionOnce == OrderingSpec => []ConditionsAppliedOnce
<1>1. OrderingInv => ConditionsAppliedOnce
  BY ConditionsApplied DEF OrderingInv
<1> QED BY OrderingInvariant, <1>1, PTL
===============================================================================
