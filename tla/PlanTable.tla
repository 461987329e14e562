------------------------------- MODULE PlanTable -------------------------------
(***************************************************************************)
(* The plan table of include/mutable/IR/PlanTable.hpp: for each set of     *)
(* relations (a subproblem) the cheapest plan found so far, as the two     *)
(* sides of its topmost join.  The cost of a join is C_out.                *)
(*                                                                         *)
(* Spec is what every plan enumerator may do with the table: join disjoint *)
(* subproblems that have plans.  The model of a subproblem's result, which *)
(* update() computes at the first join, is its cardinality card[S].        *)
(***************************************************************************)
EXTENDS Integers, FiniteSets

CONSTANTS
  Relations,      \* the sources of the query
  Cardinalities,  \* the estimates considered: functions from subproblems
  SourceCosts     \* what sources may cost: 0 a base table, more a nested query

Subproblems  == (SUBSET Relations) \ {{}}
Singleton(S) == \E r \in Relations : S = {r}

ASSUME RelationsAssumption == IsFiniteSet(Relations) /\ Relations # {}
ASSUME CostsAssumption ==
  /\ SourceCosts \subseteq Nat
  /\ Cardinalities \subseteq [Subproblems -> Nat]

VARIABLES
  card,   \* what the cardinality estimator predicts
  table   \* table[S]: the PlanTableEntry of S; no sides if S has no plan

Entries == [cost : Nat, left : SUBSET Relations, right : SUBSET Relations]

(* optimize_source_plans() enters the sources only. *)
InitTable(source) ==
  [S \in Subproblems |->
    [cost  |-> IF Singleton(S) THEN source[CHOOSE r \in S : TRUE] ELSE 0,
     left  |-> {}, right |-> {}]]

Init ==
  /\ card \in Cardinalities
  /\ \E source \in [Relations -> SourceCosts] : table = InitTable(source)

HasPlan(S) == Singleton(S) \/ table[S].left # {}

(* CostFunctionCout *)
JoinCost(L, R) == card[L \cup R] + table[L].cost + table[R].cost

(* update(): the join becomes the plan of L \cup R if it is cheaper.  C_out *)
(* is commutative, so that the other orientation never is.                 *)
Better(L, R) == ~HasPlan(L \cup R) \/ JoinCost(L, R) < table[L \cup R].cost

EntryMutant(L, R) == [cost |-> card[L \cup R], left |-> L, right |-> R]
Entry(L, R)       == [cost |-> JoinCost(L, R), left |-> L, right |-> R]

Update(L, R) ==
  /\ table' = IF Better(L, R) THEN [table EXCEPT ![L \cup R] = Entry(L, R)] ELSE table
  /\ UNCHANGED card

Next ==
  \E L, R \in Subproblems :
    /\ L \cap R = {} /\ HasPlan(L) /\ HasPlan(R)
    /\ Update(L, R)

vars == <<card, table>>
Spec == Init /\ [][Next]_vars

-----------------------------------------------------------------------------
TypeOK ==
  /\ card \in [Subproblems -> Nat]
  /\ table \in [Subproblems -> Entries]

(* The sides of an entry are plans for the two parts of the subproblem:    *)
(* construct_join_order() finds a complete plan below every entry.         *)
SidesHavePlans ==
  \A S \in Subproblems : table[S].left # {} =>
    LET L == table[S].left  R == table[S].right IN
    /\ L \in Subproblems /\ R \in Subproblems
    /\ L \cup R = S /\ L \cap R = {}
    /\ HasPlan(L) /\ HasPlan(R)

(* No entry promises less than its plan costs now.  It may promise more: a *)
(* side may have become cheaper after the join was priced.                 *)
CostsHonest ==
  \A S \in Subproblems : table[S].left # {} =>
    table[S].cost >= JoinCost(table[S].left, table[S].right)

(* A plan gives way to cheaper plans only, and never to none. *)
CostsFall ==
  [][\A S \in Subproblems : HasPlan(S) => HasPlan(S)' /\ table'[S].cost <= table[S].cost]_vars
=============================================================================
