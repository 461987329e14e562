---------------------------- MODULE BestPlansProofs ----------------------------
(* Proofs about JoinOrdering: that the searches leave the plans that they  *)
(* chose, and which enumerators find the best plans, for every number of   *)
(* relations, every connected query graph and any estimates.  They come in *)
(* this order: a pledge of costs; the plan that the randomised search      *)
(* commits; the paths of the heuristic search and the plan it finds; the   *)
(* cuts that each enumerator considers, and that it considers a cut only   *)
(* after those of its sides; the definition of the best cost; dynamic      *)
(* programming, bottom up and top down, with its invariant, and the        *)
(* theorems; the slices of a linearization, and the last theorem.          *)
EXTENDS JoinOrderingProofs

-----------------------------------------------------------------------------
(* A pledge: the joins that are left to consider lead from subproblems     *)
(* that have plans to the whole query, within a bound.  It holds whatever  *)
(* else the plan table contains.                                           *)

CostOfPlan == [S \in Subproblems |-> table[S].cost]
Costs(P) == SumFunctionOnSet(CostOfPlan, P)

Pledged(bound) ==
  \E s, P : \E w \in Nat :
    /\ tasks = Joins(s) /\ Leads(s, P, Top, w, card)
    /\ \A S \in P : HasPlan(S)
    /\ Costs(P) + w <= bound

LEMMA CostsTyped ==
  ASSUME TypeOK, NEW P \in Partitions
  PROVE  Numbers(CostOfPlan, P) /\ Costs(P) \in Nat
<1>1. IsFiniteSet(P) /\ P \in SUBSET Subproblems
  BY PartitionsFinite
<1>2. \A S \in P : CostOfPlan[S] \in Nat
  BY <1>1 DEF TypeOK, Entries, CostOfPlan
<1>3. Numbers(CostOfPlan, P)
  BY <1>1, <1>2 DEF Numbers
<1> QED BY <1>3, SumTyped DEF Costs

LEMMA CostsTypedThen ==
  ASSUME TypeOK', NEW P \in Partitions
  PROVE  Costs(P)' \in Nat
<1>1. IsFiniteSet(P) /\ P \in SUBSET Subproblems
  BY PartitionsFinite
<1>2. \A S \in P : CostOfPlan'[S] \in Nat
  BY <1>1 DEF TypeOK, Entries, CostOfPlan
<1>3. Numbers(CostOfPlan', P)
  BY <1>1, <1>2 DEF Numbers
<1> QED BY <1>3, SumTyped DEF Costs

(* update() makes the join's result no more expensive than the join, and   *)
(* nothing else more expensive.                                            *)
LEMMA JoinPays ==
  ASSUME TypeOK, NEW P \in Partitions, NEW p, NEW Q, JoinsTo(P, p, Q),
         \A S \in P : HasPlan(S), Update(p[1], p[2])
  PROVE  /\ \A S \in Q : HasPlan(S)'
         /\ Costs(Q)' <= Costs(P) + card[Both(p)]
<1>1. /\ p \in Splits /\ p[1] \in P /\ p[2] \in P /\ Q = (P \ {p[1], p[2]}) \cup {Both(p)}
      /\ p[1] \in Subproblems /\ p[2] \in Subproblems /\ Both(p) \in Subproblems /\ Both(p) = p[1] \cup p[2]
      /\ p[1] # p[2]
  BY BothTyped DEF JoinsTo, Both
<1>2. P \in SUBSET Subproblems /\ IsFiniteSet(P)
  BY PartitionsFinite
<1>3. Q \in Partitions /\ Q \ {Both(p)} = (P \ {p[1]}) \ {p[2]} /\ Both(p) \in Q
  BY JoinsPartition
<1>4. \A S \in Subproblems : HasPlan(S) => HasPlan(S)' /\ table'[S].cost <= table[S].cost
  BY <1>1, UpdateImproves
<1>5. TypeOK' /\ \A S \in Subproblems : table'[S] = IF S = Both(p) /\ Better(p[1], p[2]) THEN Entry(p[1], p[2]) ELSE table[S]
  BY <1>1, UpdateChanges
<1> DEFINE cost == table[p[1]].cost + table[p[2]].cost
<1>6. HasPlan(Both(p))' /\ table'[Both(p)].cost <= card[Both(p)] + cost /\ cost \in Nat
      /\ table'[Both(p)].cost \in Nat /\ card[Both(p)] \in Nat
  <2>1. table[p[1]].cost \in Nat /\ table[p[2]].cost \in Nat /\ card[Both(p)] \in Nat /\ table'[Both(p)].cost \in Nat
        /\ table[Both(p)].cost \in Nat
    BY <1>1, <1>5 DEF TypeOK, Entries
  <2>2. JoinCost(p[1], p[2]) = card[Both(p)] + cost
    BY <1>1, <2>1 DEF JoinCost
  <2>3. CASE Better(p[1], p[2])
    <3>1. table'[Both(p)] = Entry(p[1], p[2])
      BY <1>1, <1>5, <2>3
    <3>2. table'[Both(p)].cost = JoinCost(p[1], p[2]) /\ table'[Both(p)].left = p[1]
      BY <3>1 DEF Entry
    <3>3. p[1] # {}
      BY <1>1 DEF Subproblems
    <3> QED BY <2>1, <2>2, <3>2, <3>3 DEF HasPlan
  <2>4. CASE ~Better(p[1], p[2])
    <3>1. HasPlan(Both(p)) /\ ~(JoinCost(p[1], p[2]) < table[Both(p)].cost)
      BY <1>1, <2>4 DEF Better
    <3>2. HasPlan(Both(p))' /\ table'[Both(p)].cost <= table[Both(p)].cost
      BY <1>1, <1>4, <3>1
    <3> QED BY <2>1, <2>2, <3>1, <3>2
  <2> QED BY <2>1, <2>3, <2>4
<1>7. \A S \in Q : HasPlan(S)'
  BY <1>1, <1>2, <1>4, <1>6
<1> DEFINE O == (P \ {p[1]}) \ {p[2]}
           f == CostOfPlan
           k == CostOfPlan'
<1>8. Numbers(f, P) /\ Numbers(k, Q)
  <2>1. IsFiniteSet(Q) /\ Q \in SUBSET Subproblems
    BY <1>3, PartitionsFinite
  <2>2. \A S \in Subproblems : table'[S].cost \in Nat
    BY <1>5 DEF TypeOK, Entries
  <2>3. \A S \in Q : k[S] \in Nat
    BY <2>1, <2>2 DEF CostOfPlan
  <2> QED BY <2>1, <2>3, CostsTyped DEF Numbers
<1>9. /\ \A S \in Subproblems : f[S] = table[S].cost /\ k[S] = table'[S].cost
      /\ Costs(P) = SumFunctionOnSet(f, P) /\ Costs(Q)' = SumFunctionOnSet(k, Q)
  BY DEF CostOfPlan, Costs
<1> HIDE DEF f, k, cost
<1>10. Numbers(f, P \ {p[1]}) /\ Numbers(f, O) /\ Numbers(k, O)
  <2>1. O \in SUBSET Q
    BY <1>3
  <2> QED BY <1>8, <2>1, FS_Subset DEF Numbers
<1>11. SumFunctionOnSet(k, O) <= SumFunctionOnSet(f, O)
  <2>1. \A S \in O : k[S] <= f[S]
    BY <1>2, <1>4, <1>9
  <2> QED BY <1>10, <2>1, SumLess
<1>12. SumFunctionOnSet(k, Q) = k[Both(p)] + SumFunctionOnSet(k, O)
  BY <1>3, <1>8, SumOf
<1>13. SumFunctionOnSet(f, P) = f[p[1]] + SumFunctionOnSet(f, P \ {p[1]})
  BY <1>1, <1>8, SumOf
<1>14. SumFunctionOnSet(f, P \ {p[1]}) = f[p[2]] + SumFunctionOnSet(f, O)
  <2>1. p[2] \in P \ {p[1]}
    BY <1>1
  <2> QED BY <1>10, <2>1, SumOf
<1>15. SumFunctionOnSet(k, O) \in Nat /\ SumFunctionOnSet(f, O) \in Nat
  BY <1>10, SumTyped
<1>16. f[p[1]] + f[p[2]] = cost /\ k[Both(p)] <= card[Both(p)] + cost /\ f[p[1]] \in Nat /\ f[p[2]] \in Nat
       /\ k[Both(p)] \in Nat
  <2>1. f[p[1]] = table[p[1]].cost /\ f[p[2]] = table[p[2]].cost /\ k[Both(p)] = table'[Both(p)].cost
    BY <1>1, <1>9
  <2>2. f[p[1]] \in Nat /\ f[p[2]] \in Nat
    BY <1>1, <1>8 DEF Numbers
  <2> QED BY <1>6, <2>1, <2>2 DEF cost
<1>17. SumFunctionOnSet(k, Q) <= SumFunctionOnSet(f, P) + card[Both(p)]
  <2> DEFINE x == SumFunctionOnSet(k, Q)  y == SumFunctionOnSet(f, P)  z == SumFunctionOnSet(k, O)
             v == SumFunctionOnSet(f, O)  u == SumFunctionOnSet(f, P \ {p[1]})
  <2>1. x = k[Both(p)] + z /\ y = f[p[1]] + u /\ u = f[p[2]] + v /\ z <= v /\ z \in Nat /\ v \in Nat
    BY <1>11, <1>12, <1>13, <1>14, <1>15
  <2> HIDE DEF x, y, z, u, v, O
  <2>2. x <= y + card[Both(p)]
    BY <1>6, <1>16, <2>1
  <2> QED BY <2>2 DEF x, y
<1> QED BY <1>7, <1>9, <1>17

(* Considering the first of the joins keeps the pledge. *)
LEMMA PledgeKept ==
  ASSUME TypeOK, NEW bound \in Nat, Pledged(bound), ~Finished, EnumNext
  PROVE  Pledged(bound)' /\ ConsiderJoin
<1>1. PICK s, P : \E w \in Nat :
        /\ tasks = Joins(s) /\ Leads(s, P, Top, w, card)
        /\ \A S \in P : HasPlan(S)
        /\ Costs(P) + w <= bound
  BY DEF Pledged
<1>2. PICK w \in Nat : /\ tasks = Joins(s) /\ Leads(s, P, Top, w, card)
                       /\ \A S \in P : HasPlan(S)
                       /\ Costs(P) + w <= bound
  BY <1>1
<1>3. card \in Weights
  BY DEF TypeOK, Weights
<1>4. s # <<>>
  <2> SUFFICES ASSUME s = <<>> PROVE FALSE
    OBVIOUS
  <2>1. Len(s) = 0 /\ Len(tasks) = 0
    BY <1>2 DEF Joins
  <2>2. 1..Len(tasks) = {}
    BY <2>1
  <2> QED BY <2>2 DEF Finished
<1>5. s \in Seq(Splits) /\ P \in Partitions
  BY <1>2, <1>3, <1>4, LeadsAfter
<1>6. PICK O \in Partitions, c \in Nat :
        JoinsTo(P, s[1], O) /\ card[Both(s[1])] + c <= w /\ Leads(Tail(s), O, Top, c, card)
  BY <1>2, <1>3, <1>4, LeadsAfter
<1> DEFINE p == s[1]
<1>7. 1 \in 1..Len(s) /\ Len(s) \in Nat /\ Len(tasks) = Len(s) /\ tasks[1] = Join(p)
      /\ \A i \in 1..Len(s) : tasks[i] = Join(s[i])
  BY <1>2, <1>4, <1>5 DEF Joins
<1>8. p \in Splits /\ p[1] \in P /\ p[2] \in P /\ Both(p) \in Subproblems
  BY <1>6, BothTyped DEF JoinsTo
<1> HIDE DEF p
<1>9. tasks[1][1] = "join" /\ tasks[1][2] = p[1] /\ tasks[1][3] = p[2]
  BY <1>7 DEF Join
<1>10. Applies(tasks[1])
  BY <1>2, <1>8, <1>9 DEF Applies
<1>11. Next1 = 1 /\ Rest = Joins(Tail(s))
  <2>1. tasks \in Seq({Join(q) : q \in Splits})
    <3>1. \A i \in 1..Len(s) : Join(s[i]) \in {Join(q) : q \in Splits}
      BY <1>5
    <3>2. tasks = [i \in 1..Len(s) |-> Join(s[i])]
      BY <1>2 DEF Joins
    <3> DEFINE J == {Join(q) : q \in Splits}
               at(i) == Join(s[i])
    <3>3. (\A i \in 1..Len(s) : at(i) \in J) /\ tasks = [i \in 1..Len(s) |-> at(i)]
      BY <3>1, <3>2
    <3> HIDE DEF J, at
    <3>4. tasks \in Seq(J)
      BY <1>7, <3>3, IsASeq
    <3> QED BY <3>4 DEF J
  <2>2. Next1 \in 1..Len(tasks) /\ \A j \in 1..(Next1 - 1) : ~Applies(tasks[j])
    BY <2>1, FirstApplies
  <2>3. Next1 = 1
    <3> SUFFICES ASSUME Next1 # 1 PROVE FALSE
      OBVIOUS
    <3>1. 1 \in 1..(Next1 - 1)
      BY <1>7, <2>2
    <3> QED BY <1>10, <2>2, <3>1
  <2>4. Rest = SubSeq(tasks, 2, Len(tasks))
    BY <2>3 DEF Rest
  <2>5. Rest = [i \in 1..(Len(s) - 1) |-> tasks[i + 1]]
    BY <1>7, <2>1, <2>4
  <2> DEFINE t == Tail(s)
  <2>6. \A i \in 1..(Len(s) - 1) : tasks[i + 1] = Join(t[i])
    BY <1>4, <1>5, <1>7
  <2>7. Len(t) = Len(s) - 1
    BY <1>4, <1>5
  <2> HIDE DEF t
  <2>8. Rest = [i \in 1..Len(t) |-> Join(t[i])]
    BY <2>5, <2>6, <2>7
  <2> QED BY <2>3, <2>8 DEF Joins, t
<1>12. ConsiderJoin
  <2>1. tasks[Next1][1] = "join"
    BY <1>9, <1>11
  <2> QED BY <2>1 DEF EnumNext, Enumerate, SolveSubproblem
<1>13. Update(p[1], p[2]) /\ tasks' = Joins(Tail(s)) /\ card' = card
  <2>1. Update(tasks[Next1][2], tasks[Next1][3]) /\ tasks' = Rest
    BY <1>12 DEF ConsiderJoin
  <2> QED BY <1>9, <1>11, <2>1 DEF Update
<1>14. (\A S \in O : HasPlan(S)') /\ Costs(O)' <= Costs(P) + card[Both(p)] /\ TypeOK'
  <2>1. JoinsTo(P, p, O)
    BY <1>6 DEF p
  <2>2. TypeOK'
    BY <1>8, <1>13, BothTyped, UpdateChanges
  <2> QED BY <1>2, <1>5, <1>13, <2>1, <2>2, JoinPays
<1>15. Costs(P) \in Nat /\ Costs(O)' \in Nat /\ card[Both(p)] \in Nat
  <2>1. Costs(O)' \in Nat
    BY <1>14, CostsTypedThen
  <2> QED BY <1>3, <1>5, <1>8, <2>1, CostsTyped DEF Weights
<1>16. Costs(O)' + c <= bound
  <2>1. card[Both(p)] + c <= w
    BY <1>6 DEF p
  <2> DEFINE x == Costs(O)'  y == Costs(P)
  <2>2. x <= y + card[Both(p)] /\ y + w <= bound /\ x \in Nat /\ y \in Nat
    BY <1>2, <1>14, <1>15
  <2> HIDE DEF x, y
  <2>3. x + c <= bound
    BY <1>15, <2>1, <2>2
  <2> QED BY <2>3 DEF x
<1>17. Leads(Tail(s), O, Top', c, card')
  BY <1>6, <1>13 DEF Top, All
<1>18. tasks' = Joins(Tail(s)) /\ (\A S \in O : HasPlan(S)')
  BY <1>13, <1>14
<1>19. Pledged(bound)'
  BY <1>16, <1>17, <1>18 DEF Pledged
<1> QED BY <1>12, <1>19

(* When nothing is left to do, the pledge is the cost of the final plan. *)
LEMMA PledgePaid ==
  ASSUME TypeOK, NEW bound \in Nat, Pledged(bound), Finished
  PROVE  table[All].cost <= bound
<1>1. PICK s, P : \E w \in Nat :
        /\ tasks = Joins(s) /\ Leads(s, P, Top, w, card)
        /\ \A S \in P : HasPlan(S)
        /\ Costs(P) + w <= bound
  BY DEF Pledged
<1>2. PICK w \in Nat : /\ tasks = Joins(s) /\ Leads(s, P, Top, w, card)
                       /\ \A S \in P : HasPlan(S)
                       /\ Costs(P) + w <= bound
  BY <1>1
<1>3. card \in Weights
  BY DEF TypeOK, Weights
<1>4. s = <<>>
  <2> SUFFICES ASSUME s # <<>> PROVE FALSE
    OBVIOUS
  <2>1. s \in Seq(Splits) /\ \E O : JoinsTo(P, s[1], O)
    BY <1>2, <1>3, LeadsAfter
  <2>2. 1 \in 1..Len(tasks) /\ tasks[1] = Join(s[1])
    BY <1>2, <2>1 DEF Joins
  <2>3. HasPlan(s[1][1]) /\ HasPlan(s[1][2])
    BY <1>2, <2>1 DEF JoinsTo
  <2>4. Applies(tasks[1])
    BY <2>2, <2>3 DEF Applies, Join
  <2> QED BY <2>2, <2>4 DEF Finished
<1>5. P = Top
  BY <1>2, <1>4, LeadsEnd
<1>6. Numbers(CostOfPlan, Top) /\ All \in Top /\ Top \ {All} = {} /\ All \in Subproblems
  BY TopFacts, CostsTyped, SubproblemsFacts DEF Top
<1>7. Costs(Top) = CostOfPlan[All] + SumFunctionOnSet(CostOfPlan, {})
  BY <1>6, SumOf DEF Costs
<1>8. CostOfPlan[All] = table[All].cost /\ SumFunctionOnSet(CostOfPlan, {}) = 0
  BY <1>6, SumEmpty DEF CostOfPlan
<1>9. table[All].cost \in Nat
  BY <1>6 DEF TypeOK, Entries
<1> QED BY <1>2, <1>5, <1>7, <1>8, <1>9

(* What comes before and costs the same keeps a pledge. *)
LEMMA PledgeSame ==
  ASSUME NEW bound, Pledged(bound), UNCHANGED <<card, table, tasks>>
  PROVE  Pledged(bound)'
BY DEF Pledged, HasPlan, Costs, CostOfPlan, Top, All

LEMMA PledgeMore ==
  ASSUME TypeOK, NEW b \in Nat, NEW c \in Nat, b <= c, Pledged(b)
  PROVE  Pledged(c)
<1>1. PICK s, P : \E w \in Nat :
        /\ tasks = Joins(s) /\ Leads(s, P, Top, w, card)
        /\ \A S \in P : HasPlan(S)
        /\ Costs(P) + w <= b
  BY DEF Pledged
<1>2. Costs(P) \in Nat
  <2>1. PICK between, left : Route(s, between, left, card) /\ between[0] = P
    BY <1>1 DEF Leads
  <2>2. between \in [0..Len(s) -> Partitions] /\ 0 \in 0..Len(s)
    BY <2>1 DEF Route
  <2>3. P \in Partitions
    BY <2>1, <2>2
  <2> QED BY <2>3, CostsTyped
<1>3. \A w \in Nat : Costs(P) + w <= b => Costs(P) + w <= c
  BY <1>2
<1> QED BY <1>1, <1>3 DEF Pledged

LEMMA SourceCostFacts ==
  ASSUME TypeOK
  PROVE  SourceCost = Costs(Bottom) /\ SourceCost \in Nat
<1> DEFINE f == CostOfPlan
           g == [S \in Bottom |-> table[S].cost]
<1>1. Numbers(f, Bottom) /\ Costs(Bottom) = SumFunctionOnSet(f, Bottom) /\ Costs(Bottom) \in Nat
  BY TopFacts, CostsTyped DEF Costs
<1>2. \A S \in Bottom : f[S] = g[S]
  <2>1. Bottom \in SUBSET Subproblems
    BY TopFacts, PartitionsFinite
  <2> QED BY <2>1 DEF CostOfPlan
<1>3. SourceCost = SumFunctionOnSet(g, Bottom)
  <2>1. SourceCost = SumFunction(g)
    BY DEF SourceCost, Bottom
  <2>2. DOMAIN g = Bottom
    OBVIOUS
  <2> HIDE DEF g
  <2> QED BY <2>1, <2>2 DEF SumFunction
<1> HIDE DEF f, g
<1>4. SumFunctionOnSet(f, Bottom) = SumFunctionOnSet(g, Bottom)
  BY <1>1, <1>2, SumSame
<1> QED BY <1>1, <1>3, <1>4

(* No join has a single relation as its result. *)
LEMMA SourceCostKept ==
  ASSUME TypeOK, [Next]_vars
  PROVE  SourceCost' = SourceCost /\ card' = card
<1>1. CASE Next
  <2>1. PICK L \in Subproblems, R \in Subproblems : L \cap R = {} /\ Update(L, R)
    BY <1>1 DEF Next
  <2>2. card' = card
    BY <2>1 DEF Update
  <2>3. \A S \in Subproblems : table'[S] = IF S = L \cup R /\ Better(L, R) THEN Entry(L, R) ELSE table[S]
    BY <2>1, UpdateChanges
  <2>4. \A r \in Relations : {r} # L \cup R /\ {r} \in Subproblems
    BY <2>1 DEF Subproblems
  <2>5. \A S \in {{r} : r \in Relations} : table'[S] = table[S]
    BY <2>3, <2>4
  <2>6. [S \in {{r} : r \in Relations} |-> table'[S].cost] = [S \in {{r} : r \in Relations} |-> table[S].cost]
    BY <2>5
  <2> QED BY <2>2, <2>6 DEF SourceCost
<1>2. CASE UNCHANGED vars
  BY <1>2 DEF vars, SourceCost
<1> QED BY <1>1, <1>2

LEMMA TreeCostFacts ==
  ASSUME TypeOK, NEW s \in Seq(Splits)
  PROVE  TreeCost(s) = SourceCost + JoinSum(s, card) /\ TreeCost(s) \in Nat
<1>1. card \in Weights
  BY DEF TypeOK, Weights
<1>2. TreeCost(s) = SourceCost + JoinSum(s, card)
  BY DEF TreeCost, JoinSum, Both
<1>3. JoinSum(s, card) \in Nat
  BY <1>1, JoinSumTyped
<1> QED BY <1>2, <1>3, SourceCostFacts

(* All sources have plans to begin with. *)
LEMMA SourcesPledge ==
  ASSUME TypeOK, NEW s, NEW w \in Nat, Leads(s, Bottom, Top, w, card),
         tasks' = Joins(s), UNCHANGED <<card, table>>
  PROVE  Pledged(SourceCost + w)'
<1>1. Leads(s, Bottom, Top', w, card')
  BY DEF Top, All
<1>2. \A S \in Bottom : HasPlan(S)'
  BY DEF Bottom, HasPlan, Singleton
<1>3. TypeOK'
  BY DEF TypeOK
<1>4. Costs(Bottom)' = Costs(Bottom) /\ SourceCost' = SourceCost
  BY DEF Costs, CostOfPlan, SourceCost, Bottom
<1>5. Costs(Bottom)' + w <= SourceCost' + w
  <2>1. PICK x \in Nat : Costs(Bottom)' = x /\ SourceCost' = x
    BY <1>4, SourceCostFacts
  <2>2. x + w <= x + w
    OBVIOUS
  <2> QED BY <2>1, <2>2
<1> QED BY <1>1, <1>2, <1>5 DEF Pledged

LEMMA PledgeStays ==
  ASSUME TypeOK, NEW bound \in Nat, Pledged(bound),
         EnumNext \/ UNCHANGED <<card, table, tasks>>
  PROVE  Pledged(bound)'
<1>1. CASE EnumNext
  <2>1. ~Finished
    BY <1>1 DEF EnumNext, Enumerate, SolveSubproblem, ConsiderJoin
  <2> QED BY <1>1, <2>1, PledgeKept
<1>2. CASE UNCHANGED <<card, table, tasks>>
  BY <1>2, PledgeSame
<1> QED BY <1>1, <1>2

(* Once the randomised search has committed a plan, it pledges its cost.   *)
CommitInv ==
  /\ search.phase # "seed" => algo = "TwoPhaseOptimizer"
  /\ hs # NoSearch => algo \in {"AStar", "HeuristicSearch"}
  /\ search.phase = "committed" => Pledged(TreeCost(search.best))

LEMMA CommitStep ==
  ASSUME OrderingInv, CommitInv, [OrderingNext]_orderingVars
  PROVE  CommitInv'
<1>0. TypeOK /\ SearchOK /\ TypeOK' /\ [Next]_vars
  BY OrderingStep DEF OrderingInv
<1>1. SourceCost' = SourceCost /\ card' = card
  BY <1>0, SourceCostKept
<1>2. ASSUME search' = search, UNCHANGED algo, hs' = hs, EnumNext \/ UNCHANGED <<card, table, tasks>>
      PROVE  CommitInv'
  <2> SUFFICES ASSUME search'.phase = "committed" PROVE Pledged(TreeCost(search.best))'
    BY <1>2 DEF CommitInv, NoSearch
  <2>1. PICK b \in Nat : b = TreeCost(search.best)
    <3>1. search.best \in Seq(Splits)
      BY <1>0, <1>2 DEF SearchOK, LineStates
    <3> QED BY <1>0, <3>1, TreeCostFacts
  <2>2. Pledged(b)
    BY <1>2, <2>1 DEF CommitInv
  <2>3. TreeCost(search.best)' = b
    BY <1>1, <1>2, <2>1 DEF TreeCost
  <2>4. Pledged(b)'
    BY <1>0, <1>2, <2>1, <2>2, PledgeStays
  <2> QED BY <2>3, <2>4 DEF Pledged
<1>3. CASE EnumNext /\ UNCHANGED <<search, hs>>
  <2>1. algo' = algo
    BY <1>3 DEF EnumNext, Enumerate, SolveSubproblem, ConsiderJoin
  <2> QED BY <1>2, <1>3, <2>1
<1>4. CASE SearchNext /\ UNCHANGED hs
  <2>0. search \in SearchStates
    BY <1>0 DEF SearchOK
  <2>1. algo = "TwoPhaseOptimizer" /\ algo' = algo /\ search.phase # "committed"
    BY <1>4 DEF SearchNext, Idle, Evaluate,
       Seed, Restart, Iterate, Try, Climb, EndClimb, Anneal, Propose, Accept, Commit
  <2>2. CASE Commit
    <3>1. tasks' = Joins(search.best) /\ search' = [search EXCEPT !.phase = "committed"] /\ UNCHANGED <<card, table>>
          /\ search.phase = "anneal"
      BY <2>2 DEF Commit, CommitTasks, Idle
    <3>2. search.best \in LineStates /\ search'.best = search.best
      BY <2>0, <3>1 DEF SearchOK, SearchStates, OrderingInv
    <3> DEFINE s == search.best
               w == JoinSum(s, card)
    <3>3. s \in Seq(Splits) /\ card \in Weights
      BY <1>0, <3>2 DEF LineStates, TypeOK, Weights
    <3>4. w \in Nat /\ Leads(s, Bottom, Top, w, card)
      BY <3>2, <3>3, JoinSumTyped, LineLeads
    <3>5. TreeCost(search.best)' = (SourceCost + w)'
      <4>1. TreeCost(s) = SourceCost + w
        BY <1>0, <3>3, TreeCostFacts
      <4>2. TreeCost(search.best)' = TreeCost(s)
        BY <1>1, <3>2 DEF TreeCost
      <4> QED BY <1>1, <4>1, <4>2, <3>2 DEF JoinSum
    <3>6. w' = w
      BY <1>1, <3>2 DEF JoinSum
    <3> HIDE DEF w, s
    <3>7. Pledged(SourceCost + w)'
      <4>1. PICK v \in Nat : v = w
        BY <3>4
      <4>2. Pledged(SourceCost + v)'
        BY <1>0, <3>1, <3>4, <4>1, SourcesPledge DEF s
      <4> QED BY <3>6, <4>1, <4>2 DEF Pledged
    <3>8. Pledged(TreeCost(search.best))'
      BY <3>5, <3>7 DEF Pledged
    <3> QED BY <1>4, <2>1, <3>8 DEF CommitInv
  <2>3. CASE ~Commit
    <3>1. Seed \/ Restart \/ Anneal \/ Propose => search'.phase # "committed"
      BY <2>0 DEF SearchStates, Seed, Restart, Anneal, Propose
    <3>2. Iterate \/ Try => search'.phase # "committed"
      BY <2>0 DEF SearchStates, Iterate, Try, Idle
    <3>3. Climb \/ EndClimb \/ Accept => search'.phase # "committed"
      BY <2>0 DEF SearchStates, Climb, EndClimb, Accept
    <3>4. search'.phase # "committed"
      BY <1>4, <2>3, <3>1, <3>2, <3>3 DEF SearchNext
    <3> QED BY <1>4, <2>1, <3>4 DEF CommitInv
  <2> QED BY <2>2, <2>3
<1>5. CASE HeuristicNext /\ UNCHANGED search
  <2>1. algo \in {"AStar", "HeuristicSearch"} /\ algo' = algo
    BY <1>5 DEF HeuristicNext, MaySearch, EndWith, CommitInv,
       StartSearch, Explore, ReachGoal, ExhaustBudget, FallBack
  <2> QED BY <1>5, <2>1 DEF CommitInv
<1>6. CASE UNCHANGED orderingVars
  BY <1>2, <1>6 DEF orderingVars, vars
<1> QED BY <1>3, <1>4, <1>5, <1>6, Zenon DEF OrderingNext

(* update_plan_table() makes up for the shortcut of compute_state_cost():  *)
(* committing the chosen join order to a table that holds the first plan   *)
(* visited of every subproblem yields a plan no more expensive than it.    *)
THEOREM CommittedPlanKept == OrderingSpec => []CommittedPlan
<1>1. OrderingInit => CommitInv
  BY DEF OrderingInit, SearchInit, CommitInv
<1>2. OrderingInv /\ CommitInv /\ [OrderingNext]_orderingVars => CommitInv'
  BY CommitStep
<1>3. OrderingInv /\ CommitInv => CommittedPlan
  <2> SUFFICES ASSUME OrderingInv, CommitInv, search.phase = "committed", Finished
               PROVE  table[All].cost <= TreeCost(search.best)
    BY DEF CommittedPlan
  <2>1. TypeOK /\ search.best \in Seq(Splits) /\ Pledged(TreeCost(search.best))
    BY DEF OrderingInv, CommitInv, SearchOK, LineStates
  <2>2. TreeCost(search.best) \in Nat
    BY <2>1, TreeCostFacts
  <2> QED BY <2>1, <2>2, PledgePaid
<1> QED BY OrderingInvariant, <1>1, <1>2, <1>3, PTL DEF OrderingSpec

-----------------------------------------------------------------------------
(* The heuristic search counts all joins but the last.                     *)

(* With the last join, which makes All, everything is counted.             *)
LEMMA LastJoinCounts ==
  ASSUME CardOK, NEW s, NEW P, NEW w \in Nat, Leads(s, P, Top, w, ActionWeights)
  PROVE  Leads(s, P, Top, w + card[All], card)
<1>1. PICK between, left : /\ Route(s, between, left, ActionWeights)
                           /\ between[0] = P /\ between[Len(s)] = Top /\ left[0] <= w
  BY DEF Leads
<1> DEFINE n == Len(s)
           c == card[All]
           extra(k) == IF between[k] # Top THEN c ELSE 0
           rest == [k \in 0..n |-> left[k] + extra(k)]
<1>2. /\ s \in Seq(Splits) /\ n \in Nat /\ c \in Nat
      /\ between \in [0..n -> Partitions] /\ left \in [0..n -> Nat]
      /\ \A i \in 1..n : JoinsTo(between[i - 1], s[i], between[i]) /\ left[i - 1] = ActionWeights[Both(s[i])] + left[i]
  BY <1>1, ActionWeightsFacts DEF Route
<1> HIDE DEF n, c
<1>3. ASSUME NEW k \in 0..n PROVE extra(k) \in Nat /\ left[k] \in Nat /\ extra(k) <= c
  BY <1>2
<1>4. rest \in [0..n -> Nat]
  <2>1. \A k \in 0..n : left[k] + extra(k) \in Nat
    BY <1>3
  <2> QED BY <2>1
<1>5. ASSUME NEW i \in 1..n PROVE rest[i - 1] = card[Both(s[i])] + rest[i]
  <2>1. i - 1 \in 0..n /\ i \in 0..n
    BY <1>2
  <2>2. rest[i - 1] = left[i - 1] + extra(i - 1) /\ rest[i] = left[i] + extra(i)
    BY <2>1
  <2>3. s[i] \in Splits
    BY <1>2 DEF n
  <2>4. JoinsTo(between[i - 1], s[i], between[i]) /\ between[i - 1] \in Partitions
    BY <1>2, <2>1
  <2>5. between[i] \in Partitions /\ Both(s[i]) \in between[i] /\ Both(s[i]) \in Subproblems
    BY <2>3, <2>4, JoinsPartition, BothTyped
  <2>6. between[i - 1] # Top
    <3>1. s[i][1] \in between[i - 1] /\ s[i][2] \in between[i - 1] /\ s[i][1] # s[i][2]
      BY <2>3, <2>4, BothTyped DEF JoinsTo
    <3> QED BY <3>1 DEF Top
  <2>7. between[i] = Top <=> Both(s[i]) = All
    <3>1. \A A \in between[i] : A \in Subproblems /\ A # {} /\ A \subseteq All
      BY <2>5 DEF Partitions, Subproblems, All
    <3>2. Both(s[i]) = All => \A A \in between[i] : A = All
      BY <2>5, <3>1 DEF Partitions
    <3> QED BY <2>5, <3>2 DEF Top
  <2>8. ActionWeights[Both(s[i])] = IF Both(s[i]) = All THEN 0 ELSE card[Both(s[i])]
    BY <2>5, ActionWeightsFacts
  <2>9. card[Both(s[i])] \in Nat
    BY <2>5 DEF CardOK
  <2>10. left[i - 1] = ActionWeights[Both(s[i])] + left[i] /\ left[i] \in Nat
    BY <1>2, <2>1
  <2>11. extra(i - 1) = c
    BY <2>6
  <2>12. CASE Both(s[i]) = All
    <3>1. extra(i) = 0 /\ card[Both(s[i])] = c /\ left[i - 1] = left[i]
      BY <2>7, <2>8, <2>10, <2>12 DEF c
    <3> HIDE DEF extra, rest
    <3> QED BY <1>2, <2>2, <2>10, <2>11, <3>1
  <2>13. CASE Both(s[i]) # All
    <3>1. extra(i) = c /\ left[i - 1] = card[Both(s[i])] + left[i]
      BY <2>7, <2>8, <2>10, <2>13
    <3> HIDE DEF extra, rest
    <3> QED BY <1>2, <2>2, <2>9, <2>10, <2>11, <3>1
  <2> QED BY <2>12, <2>13
<1>6. rest[0] <= w + c
  <2>1. 0 \in 0..n
    BY <1>2
  <2>2. rest[0] = left[0] + extra(0) /\ extra(0) \in Nat /\ extra(0) <= c /\ left[0] \in Nat /\ left[0] <= w
    BY <1>1, <1>3, <2>1
  <2> HIDE DEF rest, extra
  <2> QED BY <1>2, <2>2
<1> HIDE DEF rest
<1>7. Route(s, between, rest, card)
  BY <1>2, <1>4, <1>5 DEF Route, n
<1> QED BY <1>1, <1>6, <1>7 DEF Leads, c

(* The estimates and the query do not change, and neither does GOO's plan. *)
LEMMA SamePair ==
  ASSUME UNCHANGED <<card, graph>>
  PROVE  \A nodes : BestPair(nodes)' = BestPair(nodes)
<1>1. \A s : Disjoint(s)' = Disjoint(s)
  <2> SUFFICES ASSUME NEW s PROVE Disjoint(s)' = Disjoint(s)
    OBVIOUS
  <2>1. {p \in ToSet(s) : p[1] \cap p[2] = {} /\ Joined(p[1], p[2])}' = {p \in ToSet(s) : p[1] \cap p[2] = {} /\ Joined(p[1], p[2])}
    BY SameGraph
  <2> QED BY <2>1 DEF Disjoint
<1> SUFFICES ASSUME NEW nodes PROVE BestPair(nodes)' = BestPair(nodes)
  OBVIOUS
<1> DEFINE may == Disjoint(Flatten([i \in 1..Len(nodes) |-> [j \in 1..(Len(nodes) - i) |-> <<nodes[i], nodes[i + j]>>]]))
           v == [i \in 1..Len(may) |-> card[may[i][1] \cup may[i][2]]]
<1>2. BestPair(nodes) = may[FirstLeast(v)] /\ BestPair(nodes)' = (may[FirstLeast(v)])'
  BY DEF BestPair
<1>3. may' = may
  BY <1>1
<1>4. v' = v
  BY <1>3
<1> HIDE DEF may, v
<1> QED BY <1>2, <1>3, <1>4 DEF FirstLeast

LEMMA SameMerged ==
  ASSUME UNCHANGED <<card, graph>>
  PROVE  \A nodes : Merged(nodes)' = Merged(nodes)
<1> SUFFICES ASSUME NEW nodes PROVE Merged(nodes)' = Merged(nodes)
  OBVIOUS
<1> DEFINE best == BestPair(nodes)
           k    == Len(nodes)
           m == [i \in 1..(k - 1) |->
                  CASE nodes[i] = best[1] -> best[1] \cup best[2]
                    [] nodes[i] = best[2] -> nodes[k]
                    [] OTHER -> nodes[i]]
<1>1. Merged(nodes) = m /\ Merged(nodes)' = m'
  BY DEF Merged
<1>2. best' = best
  BY SamePair
<1> HIDE DEF best
<1>3. m' = m
  BY <1>2
<1> QED BY <1>1, <1>3

LEMMA SameGOO ==
  ASSUME UNCHANGED <<card, graph>>
  PROVE  GOO' = GOO
<1> DEFINE nodes == [i \in 1..N |-> {i - 1}]
           P(f) == f = [i \in 0..(Len(nodes) - 1) |-> IF i = 0 THEN nodes ELSE Merged(f[i - 1])]
           c == CHOOSE f : P(f)
<1>1. GOO = [i \in 1..(Len(nodes) - 1) |-> BestPair(c[i - 1])]
  BY Zenon DEF GOO, GOOFrom
<1>2. GOO' = ([i \in 1..(Len(nodes) - 1) |-> BestPair(c[i - 1])])'
  BY Zenon DEF GOO, GOOFrom
<1>3. \A f : P(f)' <=> P(f)
  BY SameMerged
<1>4. c' = c
  <2> HIDE DEF P
  <2> QED BY <1>3
<1> HIDE DEF c
<1> QED BY <1>1, <1>2, <1>4, SamePair

LEMMA SameGOOCost ==
  ASSUME UNCHANGED <<card, graph>>
  PROVE  GOOCost' = GOOCost
<1> DEFINE s == GOO
           f == [i \in 1..Len(s) |-> ActionCost(s[i][1] \cup s[i][2])]
<1>1. s' = s
  BY SameGOO
<1>2. \A S : ActionCost(S)' = ActionCost(S)
  BY DEF ActionCost, All
<1>3. GOOCost = SumFunction(f) /\ GOOCost' = SumFunction(f')
  BY DEF GOOCost, SumFunction
<1> HIDE DEF s
<1>4. f' = f
  BY <1>1, <1>2
<1> QED BY <1>3, <1>4

-----------------------------------------------------------------------------
(* What the heuristic search knows of the costs.  A path costs at least    *)
(* what its last step adds to the path of the state before, as it is known *)
(* now: states are rewired, but only to become cheaper, except for those   *)
(* that the beam has kept out so far, and these are nobody's parents.      *)

MadeBy(P, Q) == UNION (IF topDown THEN P \ Q ELSE Q \ P)

After(Q) ==
  LET P == known[Q].parent
  IN  /\ MadeBy(P, Q) \in Subproblems
      /\ known[P].g + ActionCost(MadeBy(P, Q)) <= known[Q].g
      /\ usesBeam => known[P].queue # "regular"
EntryOK(Q) ==
  /\ {"g", "h", "parent", "queue"} \subseteq DOMAIN known[Q]
  /\ known[Q].g \in Nat
  /\ Admissible(hs.config) => known[Q].h \in Nat
  /\ known[Q].parent = {} => Q = Start
  /\ known[Q].parent # {} => After(Q)
BoundOK ==
  hs.config.upperBound =>
    /\ hs.leastPathCost \in Int /\ hs.leastPathCost <= GOOCost + 1
    /\ Goal \in DOMAIN known => known[Goal].g <= GOOCost
CostsOK ==
  hs # NoSearch =>
    /\ hs.config \in Configurations
    /\ hs.phase \in {"search", "goal", "budget", "fallback"}
    /\ \A Q \in DOMAIN known : EntryOK(Q)
    /\ BoundOK

LEMMA ConfigFacts ==
  ASSUME NEW c \in Configurations
  PROVE  /\ c.topDown \in BOOLEAN /\ c.heuristic \in {"zero", "sum", "GOO"} /\ c.lazy \in BOOLEAN
         /\ c.weight \in Nat /\ c.weight > 0
         /\ c.upperBound => c.pruning
BY ConfigurationsAssumption

LEMMA HeuristicTyped ==
  ASSUME CardOK, hs.config \in Configurations, Admissible(hs.config), NEW P \in Divisions
  PROVE  Heuristic(P) \in Nat
<1>1. CASE hs.config.heuristic = "zero" \/ P = Top
  <2>1. hs.config.heuristic \in {"zero", "sum"}
    BY DEF Admissible
  <2>2. hs.config.heuristic = "zero" \/ (hs.config.heuristic = "sum" /\ P = Top)
    BY <1>1, <2>1
  <2>3. Heuristic(P) = 0
    BY <2>2 DEF Heuristic
  <2> QED BY <2>3
<1>2. CASE hs.config.heuristic # "zero" /\ P # Top
  <2>1. hs.config.heuristic = "sum" /\ hs.config.topDown
    BY <1>2 DEF Admissible
  <2>2. Heuristic(P) = Sizes(P \ Bottom)
    BY <1>2, <2>1 DEF Heuristic, topDown
  <2>3. P \in Partitions
    BY DivisionsPartition
  <2>4. IsFiniteSet(P \ Bottom) /\ P \ Bottom \in SUBSET Subproblems
    BY <2>3, PartitionsFinite, FS_Subset
  <2>5. Numbers(card, P \ Bottom)
    BY <2>4 DEF Numbers, CardOK
  <2> QED BY <2>2, <2>5, SumTyped DEF Sizes
<1> QED BY <1>1, <1>2

LEMMA SuccessorMakes ==
  ASSUME HsOK, hs # NoSearch, NEW P \in DOMAIN known, P # Goal, NEW s \in Successors(P)
  PROVE  /\ s = [state |-> s.state, marked |-> s.marked, parent |-> P,
                 g |-> known[P].g + ActionCost(s.marked), h |-> SuccessorH(P, s.state)]
         /\ s.marked = MadeBy(P, s.state) /\ s.marked \in Subproblems
<1>0. P \in Divisions /\ topDown \in BOOLEAN
  BY DEF HsOK
<1>1. PICK ss \in IF topDown THEN Cuttings(P) ELSE Joinings(P, known[P].marked) :
        s = [state |-> ss.state, marked |-> ss.marked, parent |-> P,
             g |-> known[P].g + ActionCost(ss.marked), h |-> SuccessorH(P, ss.state)]
  BY DEF Successors
<1>2. s.state = ss.state /\ s.marked = ss.marked
  BY <1>1
<1>3. s = [state |-> s.state, marked |-> s.marked, parent |-> P,
           g |-> known[P].g + ActionCost(s.marked), h |-> SuccessorH(P, s.state)]
  BY <1>1, <1>2
<1>4. CASE topDown
  <2> DEFINE S == ByValue({Q \in P : ~Singleton(Q)})[1]
  <2>1. P # Bottom
    BY <1>4 DEF Goal
  <2>2. S \in P /\ ~Singleton(S)
    BY <1>0, <2>1, CanCut
  <2>3. Cuttings(P) = {[state |-> (P \ {S}) \cup {c[1], c[2]}, marked |-> S] : c \in ToSet(MinCuts(S))}
    BY DEF Cuttings
  <2> HIDE DEF S
  <2>4. PICK c \in ToSet(MinCuts(S)) : s.state = (P \ {S}) \cup {c[1], c[2]} /\ s.marked = S
    BY <1>1, <1>2, <1>4, <2>3
  <2>5. S \in Subproblems /\ Linked(S)
    BY <1>0, <2>2, DivisionFacts
  <2>6. c \in LinkedCuts(S)
    <3>1. MinCuts(S) \in Seq(LinkedCuts(S))
      BY <2>2, <2>5, MinCutsFacts
    <3>2. ToSet(MinCuts(S)) \in SUBSET LinkedCuts(S)
      BY <3>1, ToSetFacts
    <3> QED BY <3>2
  <2>7. S # c[1] /\ S # c[2]
    BY <2>6 DEF LinkedCuts, SplitsOf, Splits, Subproblems
  <2>8. P \ s.state = {S}
    BY <2>2, <2>4, <2>7
  <2> QED BY <1>3, <1>4, <2>4, <2>5, <2>8 DEF MadeBy
<1>5. CASE ~topDown
  <2>1. PICK p \in P \X P : /\ Lesser(p[1], p[2])
                            /\ s.state = (P \ {p[1], p[2]}) \cup {p[1] \cup p[2]}
                            /\ s.marked = p[1] \cup p[2]
    BY <1>1, <1>2, <1>5 DEF Joinings, JoinPairs
  <2>2. p[1] \in P /\ p[2] \in P /\ p[1] # p[2]
    BY <2>1 DEF Lesser
  <2>3. p[1] \cup p[2] \in Subproblems /\ p[1] \cup p[2] \notin P
    <3>1. p[1] \in Subproblems /\ p[2] \in Subproblems /\ p[1] # {} /\ p[2] # {} /\ p[1] \cap p[2] = {}
      BY <1>0, <2>2, DivisionFacts
    <3>2. p[1] \cup p[2] \notin P
      BY <1>0, <2>2, <3>1, DivisionFacts
    <3> QED BY <3>1, <3>2 DEF Subproblems
  <2>4. s.state \ P = {p[1] \cup p[2]}
    BY <2>1, <2>3
  <2> QED BY <1>3, <1>5, <2>1, <2>3, <2>4 DEF MadeBy
<1> QED BY <1>0, <1>4, <1>5

LEMMA SuccessorCosts ==
  ASSUME CardOK, HsOK, CostsOK, hs # NoSearch, NEW P \in DOMAIN known, P # Goal, NEW s \in Successors(P)
  PROVE  /\ s.state \in Divisions /\ s.parent = P /\ s.g \in Nat
         /\ MadeBy(P, s.state) \in Subproblems
         /\ known[P].g + ActionCost(MadeBy(P, s.state)) <= s.g
         /\ Admissible(hs.config) => s.h \in Nat
<1>1. /\ s = [state |-> s.state, marked |-> s.marked, parent |-> P,
              g |-> known[P].g + ActionCost(s.marked), h |-> SuccessorH(P, s.state)]
      /\ s.marked = MadeBy(P, s.state) /\ s.marked \in Subproblems
  BY SuccessorMakes
<1>2. s.g = known[P].g + ActionCost(s.marked) /\ s.h = SuccessorH(P, s.state) /\ s.parent = P
  BY <1>1
<1>3. s.state \in Divisions
  BY SuccessorFacts
<1>4. ActionCost(s.marked) \in Nat
  BY <1>1, ActionWeightsFacts DEF ActionCost, CardOK
<1>5. hs.config \in Configurations /\ \A Q \in DOMAIN known : EntryOK(Q)
  BY DEF CostsOK
<1>6. known[P].g \in Nat
  BY <1>5 DEF EntryOK
<1>7. ASSUME Admissible(hs.config) PROVE SuccessorH(P, s.state) \in Nat
  <2>1. Heuristic(s.state) \in Nat /\ hs.config.weight \in Nat
    BY <1>3, <1>5, <1>7, HeuristicTyped, ConfigFacts
  <2>2. hs.config.weight * Heuristic(s.state) \in Nat
    BY <2>1
  <2>3. \A Q \in DOMAIN known : known[Q].h \in Nat
    BY <1>5, <1>7 DEF EntryOK
  <2> QED BY <2>2, <2>3 DEF SuccessorH
<1> QED BY <1>1, <1>2, <1>3, <1>4, <1>6, <1>7

LEMMA SuccessorsFinite ==
  ASSUME HsOK, hs # NoSearch, NEW P \in DOMAIN known, P # Goal
  PROVE  IsFiniteSet(Successors(P))
<1> DEFINE C == Successors(P)
           D == {<<s.state, s.marked>> : s \in C}
           f == [d \in D |-> [state |-> d[1], marked |-> d[2], parent |-> P,
                              g |-> known[P].g + ActionCost(d[2]), h |-> SuccessorH(P, d[1])]]
<1>1. IsFiniteSet(SUBSET (SUBSET Relations)) /\ IsFiniteSet(SUBSET Relations)
  BY RelationsAssumption, FS_SUBSET
<1>2. IsFiniteSet((SUBSET (SUBSET Relations)) \X (SUBSET Relations))
  BY <1>1, FS_Product
<1>3. ASSUME NEW s \in C
      PROVE  /\ s = [state |-> s.state, marked |-> s.marked, parent |-> P,
                     g |-> known[P].g + ActionCost(s.marked), h |-> SuccessorH(P, s.state)]
             /\ <<s.state, s.marked>> \in (SUBSET (SUBSET Relations)) \X (SUBSET Relations)
  <2>1. s.state \in SUBSET (SUBSET Relations) /\ s.marked \in SUBSET Relations
    BY SuccessorFacts, SuccessorMakes, DivisionFacts DEF Subproblems
  <2> QED BY <2>1, SuccessorMakes
<1> HIDE DEF C
<1>4. D \in SUBSET ((SUBSET (SUBSET Relations)) \X (SUBSET Relations))
  BY <1>3
<1>5. IsFiniteSet(D)
  BY <1>2, <1>4, FS_Subset
<1>6. \A s \in C : <<s.state, s.marked>> \in D /\ f[<<s.state, s.marked>>] = s
  BY <1>3
<1>7. ASSUME NEW d \in D PROVE f[d] \in C
  <2>1. PICK s \in C : d = <<s.state, s.marked>>
    OBVIOUS
  <2> QED BY <1>6, <2>1
<1>8. f \in [D -> C]
  BY <1>7
<1> HIDE DEF f, D
<1>9. f \in Surjection(D, C)
  BY <1>6, <1>8 DEF Surjection
<1> QED BY <1>5, <1>9, FS_Surjection DEF C

(* Without a beam, no successor is in it. *)
LEMMA NoBeam ==
  ASSUME HsOK, hs # NoSearch, NEW P \in DOMAIN known, P # Goal, ~usesBeam, NEW B \in Beams(Successors(P))
  PROVE  B = {}
<1> DEFINE C == Successors(P)
<1>1. BeamWidth(Cardinality(C)) = 0
  BY DEF usesBeam, BeamWidth
<1>2. B \in SUBSET C /\ Cardinality(B) = BeamWidth(Cardinality(C))
  BY DEF Beams, kSubset
<1>3. IsFiniteSet(C)
  BY SuccessorsFinite
<1> HIDE DEF C
<1>4. IsFiniteSet(B)
  BY <1>2, <1>3, FS_Subset
<1> QED BY <1>1, <1>2, <1>4, FS_EmptySet

LEMMA LeastFacts ==
  ASSUME NEW S \in SUBSET Nat, S # {}
  PROVE  Min(S) \in S
<1>1. \E x \in S : \A y \in S : x <= y
  BY LeastNat
<1> QED BY <1>1 DEF Min

FieldsOK(e) ==
  /\ {"g", "h", "parent", "queue"} \subseteq DOMAIN e
  /\ e.g \in Nat
  /\ Admissible(hs.config) => e.h \in Nat

Priced(s) == s.g \in Nat /\ (Admissible(hs.config) => s.h \in Nat)

(* push() makes nothing that may be a parent more expensive. *)
Cheapens(e, old) ==
  (usesBeam => old.queue # "regular") => e.g <= old.g /\ (usesBeam => e.queue # "regular")

LEMMA PushedCosts ==
  ASSUME CostsOK, hs # NoSearch, NEW s, NEW b \in BOOLEAN, Priced(s), ~usesBeam => ~b
  PROVE  LET e == Pushed(s, b)  old == known[s.state] IN
         /\ FieldsOK(e)
         /\ \/ e.g = s.g /\ e.parent = s.parent
            \/ s.state \in DOMAIN known /\ e.g = old.g /\ e.parent = old.parent
         /\ s.state \in DOMAIN known => Cheapens(e, old)
<1> DEFINE old == known[s.state]
           e == Pushed(s, b)
           queue == IF b = usesBeam THEN Queue ELSE old.queue
<1>1. CASE s.state \notin DOMAIN known
  <2>1. PICK q : e = Remembered(s, q)
    BY <1>1 DEF Pushed
  <2> HIDE DEF e
  <2>2. FieldsOK(e) /\ e.g = s.g /\ e.parent = s.parent
    BY <2>1 DEF Remembered, FieldsOK, Priced
  <2> QED BY <1>1, <2>2 DEF e
<1>2. CASE s.state \in DOMAIN known
  <2>1. FieldsOK(old)
    BY <1>2 DEF CostsOK, EntryOK, FieldsOK
  <2>2. e = IF s.g < old.g \/ (b /\ old.queue = "regular") THEN Decreased(old, s, queue) ELSE old
    BY <1>2 DEF Pushed
  <2>3. queue \in {Queue, old.queue} /\ (usesBeam => Queue = "beam")
    BY DEF Queue
  <2> HIDE DEF e, old, queue
  <2>4. CASE ~(s.g < old.g \/ (b /\ old.queue = "regular"))
    <3>1. e = old
      BY <2>2, <2>4
    <3>2. Cheapens(e, old)
      BY <2>1, <3>1 DEF Cheapens, FieldsOK
    <3> QED BY <1>2, <2>1, <3>1, <3>2 DEF e, old
  <2>5. CASE s.g < old.g \/ (b /\ old.queue = "regular")
    <3>1. e = [old EXCEPT !.g = s.g, !.parent = s.parent, !.queue = queue]
      BY <2>2, <2>5 DEF Decreased
    <3>2. e.g = s.g /\ e.parent = s.parent /\ e.queue = queue /\ e.h = old.h /\ DOMAIN e = DOMAIN old
      BY <2>1, <3>1 DEF FieldsOK
    <3>3. FieldsOK(e)
      BY <2>1, <3>2 DEF FieldsOK, Priced
    <3>4. ASSUME usesBeam => old.queue # "regular" PROVE e.g <= old.g /\ (usesBeam => e.queue # "regular")
      <4>1. s.g < old.g
        BY <2>5, <3>4
      <4>2. s.g \in Nat /\ old.g \in Nat
        BY <2>1 DEF FieldsOK, Priced
      <4>3. e.g <= old.g
        BY <3>2, <4>1, <4>2
      <4>4. usesBeam => e.queue # "regular"
        BY <2>3, <3>2, <3>4
      <4> QED BY <4>3, <4>4
    <3>5. Cheapens(e, old)
      BY <3>4 DEF Cheapens
    <3> QED BY <3>2, <3>3, <3>5 DEF e, old
  <2> QED BY <2>4, <2>5
<1> QED BY <1>1, <1>2

-----------------------------------------------------------------------------
(* explore_state() *)

NewEntry(P, Q, e) ==
  \E s \in Successors(P) : \E b \in BOOLEAN :
    s.state = Q /\ ~PrunedByCost(s) /\ (~usesBeam => ~b) /\ e = Pushed(s, b)
OldEntry(Q, e) == Q \in DOMAIN known /\ (e = known[Q] \/ e = [known[Q] EXCEPT !.queue = "none"])
NewBound(P, bound) ==
  \/ bound = hs.leastPathCost
  \/ \E s \in Successors(P) : s.state = Goal /\ ~PrunedByCost(s) /\ bound = s.g

LEMMA ExploreShape ==
  ASSUME CardOK, HsOK, CostsOK, Explore
  PROVE  \E P \in Tops \ {Goal} :
           /\ DOMAIN known \subseteq DOMAIN known'
           /\ \A Q \in DOMAIN known' : NewEntry(P, Q, known'[Q]) \/ OldEntry(Q, known'[Q])
           /\ NewBound(P, hs'.leastPathCost)
           /\ hs'.config = hs.config /\ hs'.phase = hs.phase
<1>0. hs # NoSearch
  BY DEF Explore, MaySearch
<1>1. PICK P \in Tops \ {Goal} :
        LET C == Successors(P)
            kept == {s \in C : ~PrunedByCost(s)}
            goals == {s \in kept : s.state = Goal}
            pushed == {s.state : s \in kept}
            after(Q, B) ==
              IF Q \in pushed THEN LET s == CHOOSE s \in kept : s.state = Q IN Pushed(s, s \in B)
              ELSE IF Q = P THEN [known[P] EXCEPT !.queue = "none"] ELSE known[Q]
        IN  \E B \in Beams(C) :
              hs' = [hs EXCEPT
                !.budget = Spent,
                !.leastPathCost = IF hs.config.pruning /\ goals # {} THEN Min({s.g : s \in goals}) ELSE @,
                !.known = [Q \in DOMAIN known \cup pushed |-> after(Q, B)]]
  BY Zenon DEF Explore
<1> DEFINE C == Successors(P)
           kept == {s \in C : ~PrunedByCost(s)}
           goals == {s \in kept : s.state = Goal}
           pushed == {s.state : s \in kept}
           after(Q, B) ==
             IF Q \in pushed THEN LET s == CHOOSE s \in kept : s.state = Q IN Pushed(s, s \in B)
             ELSE IF Q = P THEN [known[P] EXCEPT !.queue = "none"] ELSE known[Q]
<1>2. PICK B \in Beams(C) :
        hs' = [hs EXCEPT
          !.budget = Spent,
          !.leastPathCost = IF hs.config.pruning /\ goals # {} THEN Min({s.g : s \in goals}) ELSE @,
          !.known = [Q \in DOMAIN known \cup pushed |-> after(Q, B)]]
  BY <1>1, Zenon
<1>3. DOMAIN hs = {"config", "phase", "budget", "leastPathCost", "known"}
  BY <1>0 DEF HsOK
<1>4. P \in DOMAIN known /\ P # Goal
  BY DEF Tops, Queued
<1>5. ASSUME NEW s PROVE (s \in B) \in BOOLEAN /\ (~usesBeam => ~(s \in B))
  BY <1>0, <1>4, NoBeam
<1>6. ASSUME NEW Q \in DOMAIN known \cup pushed PROVE NewEntry(P, Q, after(Q, B)) \/ OldEntry(Q, after(Q, B))
  <2>1. CASE Q \in pushed
    <3> DEFINE s == CHOOSE s \in kept : s.state = Q
    <3>1. \E q \in kept : q.state = Q
      BY <2>1
    <3>2. s \in kept /\ s.state = Q
      BY <3>1, Zenon
    <3>3. after(Q, B) = Pushed(s, s \in B)
      BY <2>1
    <3> HIDE DEF s, after
    <3>4. NewEntry(P, Q, after(Q, B))
      <4>1. s \in Successors(P) /\ s.state = Q /\ ~PrunedByCost(s)
        BY <3>2
      <4> QED BY <1>5, <3>3, <4>1 DEF NewEntry
    <3> QED BY <3>4
  <2>2. CASE Q \notin pushed
    <3>1. after(Q, B) = IF Q = P THEN [known[P] EXCEPT !.queue = "none"] ELSE known[Q]
      BY <2>2
    <3>2. Q \in DOMAIN known
      BY <2>2
    <3> HIDE DEF after, pushed
    <3> QED BY <3>1, <3>2 DEF OldEntry
  <2> QED BY <2>1, <2>2
<1> DEFINE bound == IF hs.config.pruning /\ goals # {} THEN Min({s.g : s \in goals}) ELSE hs.leastPathCost
           next == [Q \in DOMAIN known \cup pushed |-> after(Q, B)]
<1>7. NewBound(P, bound)
  <2>1. CASE goals # {}
    <3> DEFINE G == {s.g : s \in goals}
    <3>1. G \in SUBSET Nat /\ G # {}
      BY <1>0, <1>4, <2>1, SuccessorCosts
    <3>2. Min(G) \in G
      <4> HIDE DEF G
      <4> QED BY <3>1, LeastFacts
    <3>3. PICK s \in goals : Min(G) = s.g
      BY <3>2
    <3>4. bound \in {Min(G), hs.leastPathCost}
      OBVIOUS
    <3> HIDE DEF bound, G
    <3> QED BY <3>3, <3>4 DEF NewBound
  <2>2. CASE goals = {}
    BY <2>2 DEF NewBound
  <2> QED BY <2>1, <2>2
<1>8. hs' = [hs EXCEPT !.budget = Spent, !.leastPathCost = bound, !.known = next]
  BY <1>2
<1> HIDE DEF bound, next, after, pushed, goals, kept
<1>9. /\ hs'.config = hs.config /\ hs'.phase = hs.phase
      /\ hs'.leastPathCost = bound /\ hs'.known = next
  BY <1>3, <1>8
<1>10. known' = next
  BY <1>9 DEF known
<1>11. DOMAIN known' = DOMAIN known \cup pushed /\ \A Q \in DOMAIN known' : known'[Q] = after(Q, B)
  BY <1>10 DEF next
<1>12. \A Q \in DOMAIN known' : NewEntry(P, Q, known'[Q]) \/ OldEntry(Q, known'[Q])
  BY <1>6, <1>11
<1> QED BY <1>7, <1>9, <1>11, <1>12

LEMMA SameCosts ==
  ASSUME UNCHANGED <<card, graph>>, hs'.config = hs.config
  PROVE  /\ topDown' = topDown /\ usesBeam' = usesBeam /\ Start' = Start /\ Goal' = Goal /\ GOOCost' = GOOCost
         /\ Admissible(hs.config)' = Admissible(hs.config)
         /\ \A S : ActionCost(S)' = ActionCost(S)
         /\ \A P, Q : MadeBy(P, Q)' = MadeBy(P, Q)
<1>1. topDown' = topDown /\ usesBeam' = usesBeam
  BY DEF topDown, usesBeam
<1>2. Start' = Start /\ Goal' = Goal
  BY <1>1 DEF Start, Goal, Top, Bottom, All
<1>3. \A S : ActionCost(S)' = ActionCost(S)
  BY DEF ActionCost, All
<1>4. \A P, Q : MadeBy(P, Q)' = MadeBy(P, Q)
  BY <1>1 DEF MadeBy
<1>5. Admissible(hs.config)' = Admissible(hs.config)
  BY DEF Admissible
<1> QED BY <1>1, <1>2, <1>3, <1>4, <1>5, SameGOOCost

(* What a state is reached from: nothing, the explored state, or what it   *)
(* was reached from before.                                                *)
LEMMA EntryKept ==
  ASSUME GraphOK, CardOK, HsOK, CostsOK, hs # NoSearch, NEW P \in DOMAIN known, P # Goal,
         usesBeam => known[P].queue # "regular",
         NEW Q, NEW e, NewEntry(P, Q, e) \/ OldEntry(Q, e)
  PROVE  /\ FieldsOK(e)
         /\ Q \in DOMAIN known => Cheapens(e, known[Q])
         /\ e.parent = {} => Q = Start
         /\ e.parent # {} =>
              /\ e.parent \in DOMAIN known /\ (usesBeam => known[e.parent].queue # "regular")
              /\ MadeBy(e.parent, Q) \in Subproblems
              /\ known[e.parent].g + ActionCost(MadeBy(e.parent, Q)) <= e.g
         /\ NewEntry(P, Q, e) =>
              \/ Q \in DOMAIN known /\ e.g = known[Q].g
              \/ \E s \in Successors(P) : s.state = Q /\ ~PrunedByCost(s) /\ e.g = s.g
         /\ OldEntry(Q, e) => e.g = known[Q].g
<1>0. /\ \A O \in DOMAIN known : EntryOK(O) /\ ParentOK(O)
      /\ P \in Divisions
  BY DEF HsOK, CostsOK
<1>1. ASSUME Q \in DOMAIN known, NEW g, g = known[Q].g, NEW parent, parent = known[Q].parent
      PROVE  /\ parent = {} => Q = Start
             /\ parent # {} => /\ parent \in DOMAIN known /\ (usesBeam => known[parent].queue # "regular")
                               /\ MadeBy(parent, Q) \in Subproblems
                               /\ known[parent].g + ActionCost(MadeBy(parent, Q)) <= g
  BY <1>0, <1>1 DEF EntryOK, After, ParentOK
<1>2. CASE OldEntry(Q, e) /\ ~NewEntry(P, Q, e)
  <2>1. Q \in DOMAIN known /\ (e = known[Q] \/ e = [known[Q] EXCEPT !.queue = "none"])
    BY <1>2 DEF OldEntry
  <2>2. EntryOK(Q)
    BY <1>0, <2>1
  <2>3. /\ e.g = known[Q].g /\ e.h = known[Q].h /\ e.parent = known[Q].parent /\ DOMAIN e = DOMAIN known[Q]
        /\ e.queue = known[Q].queue \/ e.queue = "none"
    BY <2>1, <2>2 DEF EntryOK
  <2>4. FieldsOK(e)
    BY <2>2, <2>3 DEF EntryOK, FieldsOK
  <2>5. Cheapens(e, known[Q])
    <3>1. known[Q].g \in Nat
      BY <2>2 DEF EntryOK
    <3>2. e.g <= known[Q].g
      BY <2>3, <3>1
    <3> QED BY <2>3, <3>2 DEF Cheapens
  <2> QED BY <1>1, <1>2, <2>1, <2>3, <2>4, <2>5
<1>3. CASE NewEntry(P, Q, e)
  <2>1. PICK s \in Successors(P) : \E b \in BOOLEAN :
          s.state = Q /\ ~PrunedByCost(s) /\ (~usesBeam => ~b) /\ e = Pushed(s, b)
    BY <1>3 DEF NewEntry
  <2>2. PICK b \in BOOLEAN : s.state = Q /\ ~PrunedByCost(s) /\ (~usesBeam => ~b) /\ e = Pushed(s, b)
    BY <2>1
  <2>3. /\ s.parent = P /\ Priced(s)
        /\ MadeBy(P, Q) \in Subproblems
        /\ known[P].g + ActionCost(MadeBy(P, Q)) <= s.g
    BY <2>2, SuccessorCosts DEF Priced
  <2>4. /\ FieldsOK(e)
        /\ \/ e.g = s.g /\ e.parent = s.parent
           \/ Q \in DOMAIN known /\ e.g = known[Q].g /\ e.parent = known[Q].parent
        /\ Q \in DOMAIN known => Cheapens(e, known[Q])
    BY <2>2, <2>3, PushedCosts
  <2>5. P # {}
    BY <1>0, RelationsAssumption DEF Divisions
  <2>6. CASE e.g = s.g /\ e.parent = s.parent
    <3>1. e.parent # {} /\ e.parent = P
      BY <2>3, <2>5, <2>6
    <3>2. MadeBy(e.parent, Q) \in Subproblems /\ known[e.parent].g + ActionCost(MadeBy(e.parent, Q)) <= e.g
      BY <2>3, <2>6, <3>1
    <3>3. OldEntry(Q, e) => e.g = known[Q].g
      BY <1>0 DEF OldEntry, EntryOK
    <3> QED BY <2>1, <2>2, <2>4, <2>6, <3>1, <3>2, <3>3
  <2>7. CASE Q \in DOMAIN known /\ e.g = known[Q].g /\ e.parent = known[Q].parent
    BY <1>1, <2>4, <2>7
  <2> QED BY <2>4, <2>6, <2>7
<1> QED BY <1>2, <1>3

LEMMA MinPathFacts ==
  ASSUME hs.config \in Configurations, NEW s, Priced(s)
  PROVE  MinPathCost(s) \in Int /\ s.g <= MinPathCost(s)
<1>1. hs.config.weight \in Nat /\ hs.config.weight > 0
  BY ConfigFacts
<1>2. CASE Admissible(hs.config)
  <2>1. s.h \in Nat /\ s.g \in Nat
    BY <1>2 DEF Priced
  <2>2. PICK h \in Nat, w \in Nat : h = s.h /\ w = hs.config.weight /\ w > 0
    BY <1>1, <2>1
  <2>3. h \div w \in Int /\ 0 <= h \div w
    BY <2>2
  <2>4. MinPathCost(s) = s.g + (h \div w)
    BY <1>2, <2>2 DEF MinPathCost
  <2> QED BY <2>1, <2>3, <2>4
<1>3. CASE ~Admissible(hs.config)
  BY <1>3 DEF MinPathCost, Priced
<1> QED BY <1>2, <1>3

(* What is not pruned costs less than what is known to be possible. *)
LEMMA NotPruned ==
  ASSUME CostsOK, hs # NoSearch, hs.config.upperBound, NEW s, Priced(s), ~PrunedByCost(s), GOOCost \in Nat
  PROVE  s.g <= GOOCost
<1>1. hs.config \in Configurations /\ hs.leastPathCost \in Int /\ hs.leastPathCost <= GOOCost + 1
  BY DEF CostsOK, BoundOK
<1>2. MinPathCost(s) \in Int /\ s.g <= MinPathCost(s)
  BY <1>1, MinPathFacts
<1>3. ~(MinPathCost(s) >= hs.leastPathCost)
  BY <1>1, ConfigFacts DEF PrunedByCost
<1>4. s.g \in Nat
  BY DEF Priced
<1> DEFINE m == MinPathCost(s)  l == hs.leastPathCost
<1>5. m \in Int /\ l \in Int /\ ~(m >= l) /\ l <= GOOCost + 1 /\ s.g <= m
  BY <1>1, <1>2, <1>3
<1> HIDE DEF m, l
<1> QED BY <1>4, <1>5

LEMMA ExploreCosts ==
  ASSUME GraphOK, CardOK, HsOK, CostsOK, Explore
  PROVE  CostsOK'
<1>0. hs # NoSearch /\ UNCHANGED <<card, graph>>
  BY DEF Explore, MaySearch
<1>1. PICK P \in Tops \ {Goal} :
           /\ DOMAIN known \subseteq DOMAIN known'
           /\ \A Q \in DOMAIN known' : NewEntry(P, Q, known'[Q]) \/ OldEntry(Q, known'[Q])
           /\ NewBound(P, hs'.leastPathCost)
           /\ hs'.config = hs.config /\ hs'.phase = hs.phase
  BY ExploreShape
<1>2. P \in DOMAIN known /\ P # Goal /\ (usesBeam => known[P].queue # "regular")
  BY <1>1 DEF Tops, Queued, Queue
<1>3. /\ usesBeam' = usesBeam /\ Start' = Start /\ Goal' = Goal /\ GOOCost' = GOOCost
      /\ Admissible(hs.config)' = Admissible(hs.config)
      /\ \A S : ActionCost(S)' = ActionCost(S)
      /\ \A O, Q : MadeBy(O, Q)' = MadeBy(O, Q)
  BY <1>0, <1>1, SameCosts
<1>4. GOOCost \in Nat
  BY GOOLeads
<1>5. ASSUME NEW Q \in DOMAIN known, usesBeam => known[Q].queue # "regular"
      PROVE  known'[Q].g <= known[Q].g /\ (usesBeam => known'[Q].queue # "regular")
  <2> DEFINE e == known'[Q]
  <2>1. NewEntry(P, Q, e) \/ OldEntry(Q, e)
    BY <1>1
  <2> HIDE DEF e
  <2>2. Cheapens(e, known[Q])
    BY <1>0, <1>2, <2>1, EntryKept
  <2> QED BY <1>5, <2>2 DEF Cheapens, e
<1>6. ASSUME NEW Q \in DOMAIN known' PROVE EntryOK(Q)'
  <2> DEFINE e == known'[Q]
  <2>1. NewEntry(P, Q, e) \/ OldEntry(Q, e)
    BY <1>1
  <2> HIDE DEF e
  <2>2. /\ FieldsOK(e)
        /\ e.parent = {} => Q = Start
        /\ e.parent # {} =>
              /\ e.parent \in DOMAIN known /\ (usesBeam => known[e.parent].queue # "regular")
              /\ MadeBy(e.parent, Q) \in Subproblems
              /\ known[e.parent].g + ActionCost(MadeBy(e.parent, Q)) <= e.g
    BY <1>0, <1>2, <2>1, EntryKept
  <2>3. ASSUME e.parent # {} PROVE After(Q)'
    <3>0. PICK O : O = e.parent
      OBVIOUS
    <3> DEFINE a == ActionCost(MadeBy(O, Q))
    <3>1. O \in DOMAIN known /\ (usesBeam => known[O].queue # "regular") /\ known[O].g + a <= e.g
      BY <2>2, <2>3, <3>0
    <3>2. known'[O].g <= known[O].g /\ (usesBeam => known'[O].queue # "regular")
      BY <1>5, <3>1
    <3>3. known'[O].g \in Nat /\ known[O].g \in Nat /\ e.g \in Nat
      <4>1. known[O].g \in Nat
        BY <1>0, <3>1 DEF CostsOK, EntryOK
      <4>2. NewEntry(P, O, known'[O]) \/ OldEntry(O, known'[O])
        BY <1>1, <3>1
      <4>3. FieldsOK(known'[O])
        BY <1>0, <1>2, <4>2, EntryKept
      <4> QED BY <2>2, <4>1, <4>3 DEF FieldsOK
    <3>4. O = known'[Q].parent /\ e.g = known'[Q].g
      BY <3>0 DEF e
    <3>5. a \in Nat
      <4>1. MadeBy(O, Q) \in Subproblems
        BY <2>2, <2>3, <3>0
      <4> QED BY <4>1 DEF ActionCost, CardOK
    <3> DEFINE x == known[O].g  y == known'[O].g  z == e.g
    <3>6. x + a <= z /\ y <= x /\ x \in Nat /\ y \in Nat /\ z \in Nat
      BY <3>1, <3>2, <3>3
    <3>7. y + a <= z
      <4> HIDE DEF x, y, z, a
      <4> QED BY <3>5, <3>6
    <3>8. known'[O].g + ActionCost(MadeBy(O, Q))' <= known'[Q].g
      BY <1>3, <3>4, <3>7
    <3>9. MadeBy(O, Q)' \in Subproblems'
      <4>1. MadeBy(O, Q)' = MadeBy(O, Q) /\ MadeBy(O, Q) \in Subproblems
        BY <1>3, <2>2, <2>3, <3>0
      <4> QED BY <4>1 DEF Subproblems
    <3>10. usesBeam' => known'[O].queue # "regular"
      BY <1>3, <3>2
    <3> HIDE DEF a
    <3> QED BY <3>4, <3>8, <3>9, <3>10 DEF After
  <2>4. FieldsOK(e) => {"g", "h", "parent", "queue"} \subseteq DOMAIN e /\ e.g \in Nat /\ (Admissible(hs.config)' => e.h \in Nat)
    BY <1>3 DEF FieldsOK
  <2> QED BY <1>3, <2>2, <2>3, <2>4 DEF EntryOK, e
<1>7. BoundOK'
  <2> SUFFICES ASSUME hs'.config.upperBound
               PROVE  /\ hs'.leastPathCost \in Int /\ hs'.leastPathCost <= GOOCost + 1
                      /\ Goal \in DOMAIN known' => known'[Goal].g <= GOOCost
    BY <1>3 DEF BoundOK
  <2>1. hs.config.upperBound /\ hs.leastPathCost \in Int /\ hs.leastPathCost <= GOOCost + 1
        /\ (Goal \in DOMAIN known => known[Goal].g <= GOOCost)
    BY <1>0, <1>1 DEF CostsOK, BoundOK
  <2>2. ASSUME NEW s \in Successors(P), ~PrunedByCost(s) PROVE s.g \in Nat /\ s.g <= GOOCost
    <3>1. Priced(s)
      BY <1>0, <1>2, SuccessorCosts DEF Priced
    <3> QED BY <1>0, <1>4, <2>1, <2>2, <3>1, NotPruned DEF Priced
  <2>3. hs'.leastPathCost \in Int /\ hs'.leastPathCost <= GOOCost + 1
    <3>1. CASE hs'.leastPathCost = hs.leastPathCost
      BY <2>1, <3>1
    <3>2. CASE \E s \in Successors(P) : s.state = Goal /\ ~PrunedByCost(s) /\ hs'.leastPathCost = s.g
      <4>1. PICK s \in Successors(P) : ~PrunedByCost(s) /\ hs'.leastPathCost = s.g
        BY <3>2
      <4>2. s.g \in Nat /\ s.g <= GOOCost
        BY <2>2, <4>1
      <4> QED BY <1>4, <4>1, <4>2
    <3> QED BY <1>1, <3>1, <3>2 DEF NewBound
  <2>4. ASSUME Goal \in DOMAIN known' PROVE known'[Goal].g <= GOOCost
    <3> DEFINE e == known'[Goal]
    <3>1. NewEntry(P, Goal, e) \/ OldEntry(Goal, e)
      BY <1>1, <2>4
    <3> HIDE DEF e
    <3>2. \/ Goal \in DOMAIN known /\ e.g = known[Goal].g
          \/ \E s \in Successors(P) : ~PrunedByCost(s) /\ e.g = s.g
      BY <1>0, <1>2, <3>1, EntryKept DEF OldEntry
    <3> QED BY <2>1, <2>2, <3>2 DEF e
  <2> QED BY <2>3, <2>4
<1>8. hs'.config \in Configurations /\ hs'.phase \in {"search", "goal", "budget", "fallback"}
  BY <1>0, <1>1 DEF CostsOK
<1> QED BY <1>6, <1>7, <1>8 DEF CostsOK

LEMMA CostsSame ==
  ASSUME CostsOK, hs # NoSearch, UNCHANGED <<card, graph>>, known' = known, hs'.config = hs.config,
         hs'.leastPathCost = hs.leastPathCost, hs'.phase \in {"search", "goal", "budget", "fallback"}
  PROVE  CostsOK'
<1>1. /\ usesBeam' = usesBeam /\ Start' = Start /\ Goal' = Goal /\ GOOCost' = GOOCost
      /\ Admissible(hs.config)' = Admissible(hs.config)
      /\ \A S : ActionCost(S)' = ActionCost(S)
      /\ \A P, Q : MadeBy(P, Q)' = MadeBy(P, Q)
  BY SameCosts
<1>2. /\ hs.config \in Configurations /\ BoundOK
      /\ \A Q \in DOMAIN known : EntryOK(Q)
  BY DEF CostsOK
<1>3. Subproblems' = Subproblems
  BY DEF Subproblems
<1>4. \A Q \in DOMAIN known : EntryOK(Q)'
  <2> SUFFICES ASSUME NEW Q \in DOMAIN known PROVE EntryOK(Q)'
    OBVIOUS
  <2>1. EntryOK(Q)
    BY <1>2
  <2>2. PICK P : P = known[Q].parent
    OBVIOUS
  <2>3. P = known'[Q].parent
    BY <2>2
  <2>4. ASSUME After(Q) PROVE After(Q)'
    <3>1. /\ MadeBy(P, Q) \in Subproblems /\ known[P].g + ActionCost(MadeBy(P, Q)) <= known[Q].g
          /\ usesBeam => known[P].queue # "regular"
      BY <2>2, <2>4 DEF After
    <3>2. /\ MadeBy(P, Q)' \in Subproblems' /\ known'[P].g + ActionCost(MadeBy(P, Q))' <= known'[Q].g
          /\ usesBeam' => known'[P].queue # "regular"
      BY <1>1, <1>3, <3>1
    <3> QED BY <2>3, <3>2 DEF After
  <2> QED BY <1>1, <2>1, <2>4 DEF EntryOK
<1>5. BoundOK'
  BY <1>1, <1>2 DEF BoundOK
<1> QED BY <1>2, <1>4, <1>5 DEF CostsOK

LEMMA StartCosts ==
  ASSUME GraphOK, CardOK, StartSearch
  PROVE  CostsOK' /\ hs' # NoSearch /\ hs'.phase = "search"
<1>1. PICK config \in Configurations : hs' = Searching(config)
  BY DEF StartSearch
<1> DEFINE start == IF config.topDown THEN Top ELSE Bottom
           entry == [g |-> 0, h |-> 0, parent |-> {}, marked |-> IF config.topDown THEN All ELSE {0},
                     queue |-> IF config.beam # "none" THEN "beam" ELSE "regular"]
           bound == IF config.upperBound THEN GOOCost + 1 ELSE Infinity
<1>2. hs' = [config |-> config, phase |-> "search", budget |-> config.budget,
             leastPathCost |-> bound, known |-> [P \in {start} |-> entry]]
  BY <1>1 DEF Searching
<1>3. GOOCost \in Nat
  BY GOOLeads
<1>4. config.upperBound => bound = GOOCost + 1
  OBVIOUS
<1>5. {"g", "h", "parent", "queue"} \subseteq DOMAIN entry /\ entry.g = 0 /\ entry.h = 0 /\ entry.parent = {}
  OBVIOUS
<1>6. GOOCost' = GOOCost
  BY SameGOOCost DEF StartSearch
<1> HIDE DEF entry, bound
<1>7. hs'.config = config /\ hs'.phase = "search" /\ hs'.leastPathCost = bound /\ known' = [P \in {start} |-> entry]
  BY <1>2 DEF known
<1>8. Start' = start
  BY <1>7 DEF Start, topDown, Top, Bottom, All
<1> HIDE DEF start
<1>9. DOMAIN known' = {start} /\ known'[start] = entry
  BY <1>7
<1>10. \A Q \in DOMAIN known' : EntryOK(Q)'
  <2> SUFFICES ASSUME NEW Q \in DOMAIN known' PROVE EntryOK(Q)'
    OBVIOUS
  <2>1. Q = start /\ known'[Q] = entry
    BY <1>9
  <2> QED BY <1>5, <1>8, <2>1 DEF EntryOK
<1>11. BoundOK'
  <2> SUFFICES ASSUME config.upperBound
               PROVE  /\ hs'.leastPathCost \in Int /\ hs'.leastPathCost <= GOOCost + 1
                      /\ Goal' \in DOMAIN known' => known'[Goal'].g <= GOOCost
    BY <1>6, <1>7 DEF BoundOK
  <2>1. \A Q \in DOMAIN known' : known'[Q].g <= GOOCost
    BY <1>3, <1>5, <1>9
  <2> QED BY <1>3, <1>4, <1>7, <2>1
<1>12. hs' # NoSearch
  <2>1. NoSearch.phase = "none"
    BY DEF NoSearch
  <2> QED BY <1>7, <2>1
<1> QED BY <1>7, <1>10, <1>11, <1>12 DEF CostsOK

-----------------------------------------------------------------------------
(* The path that is reconstructed costs no more than is known.             *)

ToGoal(s, Q) ==
  IF topDown THEN Leads(s, Q, Top, known[Q].g, ActionWeights)
             ELSE Leads(s, Bottom, Q, known[Q].g, ActionWeights)

LEMMA PathLeads ==
  ASSUME GraphOK, CardOK, HsOK, CostsOK, hs # NoSearch, NEW Q \in DOMAIN known, NEW f,
         known[Q].parent # {} => ToGoal(f[known[Q].parent], known[Q].parent)
  PROVE  ToGoal(PathBody(Q, f), Q)
<1> DEFINE P == known[Q].parent
<1>0. /\ Q \in Divisions /\ ParentOK(Q) /\ DOMAIN known \in SUBSET Divisions /\ topDown \in BOOLEAN
      /\ \A O \in DOMAIN known : EntryOK(O)
  BY DEF HsOK, CostsOK
<1>1. ActionWeights \in Weights /\ Q \in Partitions /\ known[Q].g \in Nat
  BY <1>0, ActionWeightsFacts, DivisionsPartition DEF EntryOK
<1>2. CASE P = {}
  <2>1. PathBody(Q, f) = <<>> /\ Q = Start
    BY <1>0, <1>2 DEF PathBody, EntryOK
  <2>2. Leads(<<>>, Q, Q, 0, ActionWeights)
    BY <1>1, LeadsNowhere
  <2>3. Leads(<<>>, Q, Q, known[Q].g, ActionWeights)
    BY <1>1, <2>2, LeadsMore
  <2> QED BY <1>0, <2>1, <2>3 DEF ToGoal, Start
<1>3. CASE P # {}
  <2>1. P \in DOMAIN known /\ OneStep(P, Q) /\ P \in Divisions /\ After(Q)
    BY <1>0, <1>3 DEF ParentOK, EntryOK
  <2>2. MadeBy(P, Q) \in Subproblems /\ known[P].g + ActionCost(MadeBy(P, Q)) <= known[Q].g /\ known[P].g \in Nat
    BY <1>0, <2>1 DEF After, EntryOK
  <2>3. ActionWeights[MadeBy(P, Q)] = ActionCost(MadeBy(P, Q)) /\ ActionCost(MadeBy(P, Q)) \in Nat
    BY <1>1, <2>2 DEF ActionWeights, Weights
  <2>4. ToGoal(f[P], P)
    BY <1>3
  <2> DEFINE b == known[P].g + ActionCost(MadeBy(P, Q))
  <2>5. b \in Nat /\ b <= known[Q].g
    BY <2>2, <2>3
  <2>6. CASE topDown
    <3> DEFINE d == Delta(Q, P)
    <3>1. OneJoin(Q, P)
      BY <2>1, <2>6 DEF OneStep
    <3> HIDE DEF P
    <3>2. JoinsTo(Q, d, P) /\ Both(d) = UNION (P \ Q)
      BY <1>0, <2>1, <3>1, DeltaJoins
    <3>3. Both(d) = MadeBy(P, Q)
      BY <2>6, <3>2 DEF MadeBy
    <3>4. Leads(f[P], P, Top, known[P].g, ActionWeights)
      BY <2>4, <2>6 DEF ToGoal
    <3>5. PathBody(Q, f) = <<d>> \o f[P]
      BY <1>3, <2>6 DEF PathBody, P
    <3> HIDE DEF d
    <3>6. Leads(<<d>> \o f[P], Q, Top, known[P].g + ActionWeights[Both(d)], ActionWeights)
      BY <1>1, <2>2, <3>2, <3>4, LeadsFrom
    <3>7. Leads(<<d>> \o f[P], Q, Top, b, ActionWeights)
      BY <2>3, <3>3, <3>6
    <3> HIDE DEF b
    <3>8. Leads(<<d>> \o f[P], Q, Top, known[Q].g, ActionWeights)
      BY <1>1, <2>5, <3>7, LeadsMore
    <3> QED BY <2>6, <3>5, <3>8 DEF ToGoal
  <2>7. CASE ~topDown
    <3> DEFINE d == Delta(P, Q)
    <3>1. OneJoin(P, Q)
      BY <2>1, <2>7 DEF OneStep
    <3> HIDE DEF P
    <3>2. JoinsTo(P, d, Q) /\ Both(d) = UNION (Q \ P)
      BY <1>0, <2>1, <3>1, DeltaJoins
    <3>3. Both(d) = MadeBy(P, Q)
      BY <2>7, <3>2 DEF MadeBy
    <3>4. Leads(f[P], Bottom, P, known[P].g, ActionWeights)
      BY <2>4, <2>7 DEF ToGoal
    <3>5. PathBody(Q, f) = f[P] \o <<d>>
      BY <1>3, <2>7 DEF PathBody, P
    <3> HIDE DEF d
    <3>6. Leads(f[P] \o <<d>>, Bottom, Q, known[P].g + ActionWeights[Both(d)], ActionWeights)
      BY <1>1, <2>2, <3>2, <3>4, LeadsOn
    <3>7. Leads(f[P] \o <<d>>, Bottom, Q, b, ActionWeights)
      BY <2>3, <3>3, <3>6
    <3> HIDE DEF b
    <3>8. Leads(f[P] \o <<d>>, Bottom, Q, known[Q].g, ActionWeights)
      BY <1>1, <2>5, <3>7, LeadsMore
    <3> QED BY <2>7, <3>5, <3>8 DEF ToGoal
  <2> QED BY <2>6, <2>7
<1> QED BY <1>2, <1>3

LEMMA PlanToState ==
  ASSUME GraphOK, CardOK, HsOK, CostsOK, hs # NoSearch, NEW P \in DOMAIN known
  PROVE  ToGoal(PlanTo(P), P)
<1>1. PICK f : PathStep(f) /\ PlanTo(P) = f[P]
  BY PathEquation
<1> DEFINE D == DOMAIN known
           Good == {Q \in D : ToGoal(f[Q], Q)}
<1>2. ASSUME NEW Q \in D, \A e \in D : PathRank[e] < PathRank[Q] => e \in Good
      PROVE  Q \in Good
  <2>1. known[Q].parent # {} => ToGoal(f[known[Q].parent], known[Q].parent)
    BY <1>2, PathRankFacts
  <2>2. ToGoal(PathBody(Q, f), Q)
    BY <2>1, PathLeads
  <2> QED BY <1>1, <2>2 DEF PathStep
<1> HIDE DEF Good
<1>3. Hereditary(D, PathRank, Good)
  BY <1>2 DEF Hereditary
<1>4. PathRank \in [D -> Nat]
  BY PathRankFacts
<1> HIDE DEF D
<1>5. \A Q \in D : Q \in Good
  BY <1>3, <1>4, RankInduction
<1> QED BY <1>1, <1>5 DEF D, Good

LEMMA PlanToLeads ==
  ASSUME GraphOK, CardOK, HsOK, CostsOK, hs # NoSearch, Goal \in DOMAIN known
  PROVE  Leads(PlanTo(Goal), Bottom, Top, known[Goal].g, ActionWeights)
BY PlanToState DEF ToGoal, Goal

-----------------------------------------------------------------------------
(* A search that has ended pledges what it has found.                      *)

FoundInv ==
  Sought =>
    /\ hs.phase = "goal" => Goal \in DOMAIN known /\ Pledged(CostOf(known[Goal].g))
    /\ hs.config.upperBound /\ hs.phase # "budget" => Pledged(CostOf(GOOCost))

LEMMA CostOfTyped ==
  ASSUME TypeOK, CardOK, NEW w \in Nat
  PROVE  CostOf(w) \in Nat /\ CostOf(w) = SourceCost + (w + card[All]) /\ w + card[All] \in Nat
<1>1. card[All] \in Nat /\ SourceCost \in Nat
  BY SourceCostFacts, ActionWeightsFacts
<1> QED BY <1>1 DEF CostOf

(* Committing joins pledges what they cost. *)
LEMMA EndPledges ==
  ASSUME TypeOK, CardOK, NEW phase, NEW joins, EndWith(phase, joins),
         NEW w \in Nat, NEW v \in Nat, Leads(joins, Bottom, Top, w, ActionWeights), w <= v
  PROVE  Pledged(CostOf(v))'
<1>1. CostOf(v) = SourceCost + (v + card[All]) /\ v + card[All] \in Nat
  BY CostOfTyped
<1>2. ActionWeights \in Weights
  BY ActionWeightsFacts
<1>3. Leads(joins, Bottom, Top, v, ActionWeights)
  BY LeadsMore
<1>4. Leads(joins, Bottom, Top, v + card[All], card)
  BY <1>3, LastJoinCounts
<1>5. tasks' = Joins(joins) /\ UNCHANGED <<card, table>>
  BY DEF EndWith
<1>6. PICK u \in Nat : u = v + card[All]
  BY <1>1
<1>7. Pledged(SourceCost + u)'
  BY <1>4, <1>5, <1>6, SourcesPledge
<1>8. CostOf(v)' = (SourceCost + u)'
  <2>1. CostOf(v)' = v + card'[All'] + SourceCost'
    BY DEF CostOf
  <2>2. card'[All'] = card[All] /\ SourceCost' = SourceCost
    BY <1>5 DEF All, SourceCost
  <2>3. v + card[All] + SourceCost = SourceCost + u
    BY <1>1, <1>6 DEF CostOf
  <2> QED BY <2>1, <2>2, <2>3
<1> QED BY <1>7, <1>8 DEF Pledged

LEMMA FoundStep ==
  ASSUME OrderingInv, OrderingInv', CommitInv, CostsOK, FoundInv, [OrderingNext]_orderingVars
  PROVE  CostsOK' /\ FoundInv'
<1>0. TypeOK /\ HsOK /\ GraphOK /\ CardOK /\ [Next]_vars
  BY OrderingStep DEF OrderingInv, TypeOK, CardOK
<1>1. SourceCost' = SourceCost /\ card' = card
  BY <1>0, SourceCostKept
<1>2. GOOCost \in Nat
  BY <1>0, GOOLeads
<1>3. ASSUME hs' = hs, UNCHANGED graph, EnumNext \/ UNCHANGED <<card, table, tasks>>
      PROVE  CostsOK' /\ FoundInv'
  <2>1. known' = known /\ topDown' = topDown
    BY <1>3 DEF known, topDown
  <2>2. CASE hs = NoSearch
    BY <1>3, <2>2 DEF CostsOK, FoundInv, Sought, NoSearch
  <2>3. CASE hs # NoSearch
    <3>1. CostsOK'
      <4>1. hs.phase \in {"search", "goal", "budget", "fallback"}
        BY <2>3 DEF CostsOK
      <4> QED BY <1>1, <1>3, <2>1, <2>3, <4>1, CostsSame
    <3>2. Goal' = Goal /\ GOOCost' = GOOCost
      BY <1>1, <1>3, SameCosts
    <3>3. ASSUME NEW w \in Nat, Pledged(CostOf(w)) PROVE Pledged(CostOf(w))'
      <4>1. PICK b \in Nat : b = CostOf(w)
        BY <1>0, CostOfTyped
      <4>2. Pledged(b)'
        BY <1>0, <1>3, <3>3, <4>1, PledgeStays
      <4>3. CostOf(w)' = b
        BY <1>1, <4>1 DEF CostOf, All
      <4> QED BY <4>2, <4>3 DEF Pledged
    <3>4. ASSUME Sought' PROVE /\ hs'.phase = "goal" => Goal' \in DOMAIN known' /\ Pledged(CostOf(known[Goal].g))'
                               /\ hs'.config.upperBound /\ hs'.phase # "budget" => Pledged(CostOf(GOOCost))'
      <4>1. Sought
        BY <1>3, <3>4 DEF Sought, NoSearch
      <4>2. ASSUME hs.phase = "goal" PROVE Goal' \in DOMAIN known' /\ Pledged(CostOf(known[Goal].g))'
        <5>1. Goal \in DOMAIN known /\ Pledged(CostOf(known[Goal].g))
          BY <4>1, <4>2 DEF FoundInv
        <5>2. PICK w \in Nat : w = known[Goal].g
          BY <2>3, <5>1 DEF CostsOK, EntryOK
        <5>3. w' = known'[Goal'].g
          BY <2>1, <3>2, <5>2
        <5>4. Pledged(CostOf(w))'
          BY <3>3, <5>1, <5>2
        <5> QED BY <2>1, <3>2, <5>1, <5>3, <5>4 DEF CostOf, Pledged
      <4>3. ASSUME hs.config.upperBound, hs.phase # "budget" PROVE Pledged(CostOf(GOOCost))'
        <5>1. PICK w \in Nat : w = GOOCost
          BY <1>2
        <5>2. Pledged(CostOf(w))
          BY <4>1, <4>3, <5>1 DEF FoundInv
        <5>3. Pledged(CostOf(w))'
          BY <3>3, <5>2
        <5> QED BY <3>2, <5>1, <5>3 DEF CostOf, Pledged
      <4> QED BY <1>3, <4>2, <4>3
    <3> QED BY <3>1, <3>4 DEF FoundInv
  <2> QED BY <2>2, <2>3
<1>4. CASE EnumNext /\ UNCHANGED <<search, hs>>
  <2>1. graph' = graph
    BY <1>4 DEF EnumNext, Enumerate, SolveSubproblem, ConsiderJoin
  <2> QED BY <1>3, <1>4, <2>1
<1>5. CASE SearchNext /\ UNCHANGED hs
  <2>1. algo = "TwoPhaseOptimizer"
    BY <1>5 DEF SearchNext, Seed, Restart, Iterate, Try, Climb, EndClimb, Anneal, Propose, Accept, Commit,
       Idle, CommitInv
  <2>2. hs = NoSearch
    BY <2>1 DEF CommitInv
  <2> QED BY <1>5, <2>2 DEF CostsOK, FoundInv, Sought, NoSearch
<1>6. CASE HeuristicNext /\ UNCHANGED search
  <2>1. UNCHANGED graph
    BY <1>6 DEF HeuristicNext, EndWith, StartSearch, Explore, ReachGoal, ExhaustBudget, FallBack
  <2>2. CASE StartSearch
    BY <1>0, <2>2, StartCosts DEF FoundInv, Sought
  <2>3. CASE Explore
    <3>1. CostsOK'
      BY <1>0, <2>3, ExploreCosts
    <3>2. hs'.phase = "search"
      BY <1>0, <2>3, ExploreShape DEF Explore, MaySearch
    <3> QED BY <3>1, <3>2 DEF FoundInv, Sought
  <2>4. ASSUME hs # NoSearch, NEW phase \in {"goal", "budget", "fallback"}, NEW joins, EndWith(phase, joins)
        PROVE  CostsOK' /\ hs'.phase = phase /\ known' = known /\ hs'.config = hs.config /\ Goal' = Goal /\ GOOCost' = GOOCost
    <3>1. hs' = [hs EXCEPT !.phase = phase] /\ DOMAIN hs = {"config", "phase", "budget", "leastPathCost", "known"}
      BY <1>0, <2>4 DEF EndWith, HsOK
    <3>2. hs'.phase = phase /\ hs'.config = hs.config /\ hs'.leastPathCost = hs.leastPathCost /\ hs'.known = hs.known
      BY <3>1
    <3>3. known' = known
      BY <3>2 DEF known
    <3>4. CostsOK'
      BY <1>1, <2>1, <2>4, <3>2, <3>3, CostsSame
    <3> QED BY <1>1, <2>1, <3>2, <3>3, <3>4, SameCosts
  <2>5. CASE ReachGoal
    <3>1. hs # NoSearch /\ Goal \in DOMAIN known /\ EndWith("goal", PlanTo(Goal))
      BY <2>5 DEF ReachGoal, MaySearch, Tops, Queued
    <3>2. CostsOK' /\ hs'.phase = "goal" /\ known' = known /\ hs'.config = hs.config /\ Goal' = Goal /\ GOOCost' = GOOCost
      BY <2>4, <3>1
    <3>3. PICK w \in Nat : w = known[Goal].g
      BY <3>1 DEF CostsOK, EntryOK
    <3>4. Leads(PlanTo(Goal), Bottom, Top, w, ActionWeights)
      BY <1>0, <3>1, <3>3, PlanToLeads
    <3>5. ASSUME NEW v \in Nat, w <= v PROVE Pledged(CostOf(v))'
      BY <1>0, <3>1, <3>4, <3>5, EndPledges
    <3>6. Goal' \in DOMAIN known' /\ Pledged(CostOf(known[Goal].g))'
      <4>1. Pledged(CostOf(w))'
        BY <3>5
      <4>2. w = known'[Goal'].g
        BY <3>2, <3>3
      <4> QED BY <3>1, <3>2, <4>1, <4>2 DEF Pledged, CostOf
    <3>7. ASSUME hs.config.upperBound PROVE Pledged(CostOf(GOOCost))'
      <4>1. PICK v \in Nat : v = GOOCost
        BY <1>2
      <4>2. w <= v
        BY <3>1, <3>3, <3>7, <4>1 DEF CostsOK, BoundOK
      <4>3. Pledged(CostOf(v))'
        BY <3>5, <4>2
      <4> QED BY <3>2, <4>1, <4>3 DEF Pledged, CostOf
    <3> QED BY <3>2, <3>6, <3>7 DEF FoundInv
  <2>6. CASE ExhaustBudget
    <3>1. hs # NoSearch /\ \E joins : EndWith("budget", joins)
      BY <2>6 DEF ExhaustBudget, MaySearch
    <3>2. CostsOK' /\ hs'.phase = "budget"
      BY <2>4, <3>1
    <3> QED BY <3>2 DEF FoundInv
  <2>7. CASE FallBack
    <3> DEFINE joins == IF hs.config.upperBound THEN GOO ELSE DPccp
    <3>1. hs # NoSearch /\ EndWith("fallback", joins)
      BY <2>7 DEF FallBack, MaySearch
    <3>2. hs.config.upperBound => joins = GOO
      OBVIOUS
    <3> HIDE DEF joins
    <3>3. CostsOK' /\ hs'.phase = "fallback" /\ hs'.config = hs.config /\ GOOCost' = GOOCost
      BY <2>4, <3>1
    <3>4. ASSUME hs.config.upperBound PROVE Pledged(CostOf(GOOCost))'
      <4>1. PICK v \in Nat : v = GOOCost
        BY <1>2
      <4>2. Leads(joins, Bottom, Top, v, ActionWeights) /\ v <= v
        BY <1>0, <3>2, <3>4, <4>1, GOOLeads
      <4>3. Pledged(CostOf(v))'
        BY <1>0, <3>1, <4>2, EndPledges
      <4> QED BY <3>3, <4>1, <4>3 DEF Pledged, CostOf
    <3> QED BY <3>3, <3>4 DEF FoundInv
  <2> QED BY <1>6, <2>2, <2>3, <2>5, <2>6, <2>7 DEF HeuristicNext
<1>7. CASE UNCHANGED orderingVars
  BY <1>3, <1>7 DEF orderingVars, vars
<1> QED BY <1>4, <1>5, <1>6, <1>7, Zenon DEF OrderingNext

(* However often push() has rewired the parents: the plan that is          *)
(* reconstructed and put into the plan table costs no more than the search *)
(* knows of the goal, and a search that is bounded by the plan of GOO, and *)
(* keeps within its budget, ends with a plan that is as cheap as GOO's.    *)
THEOREM PlanIsAsFound == OrderingSpec => []PlanAsFound
<1>1. OrderingInit => CommitInv /\ CostsOK /\ FoundInv
  BY DEF OrderingInit, SearchInit, CommitInv, CostsOK, FoundInv, Sought
<1>2. OrderingInv /\ OrderingInv' /\ CommitInv /\ CostsOK /\ FoundInv /\ [OrderingNext]_orderingVars
        => CommitInv' /\ CostsOK' /\ FoundInv'
  BY CommitStep, FoundStep
<1>3. OrderingInv /\ CostsOK /\ FoundInv => PlanAsFound
  <2> SUFFICES ASSUME OrderingInv, CostsOK, FoundInv, Sought, Finished
               PROVE  /\ hs.phase = "goal" => table[All].cost <= CostOf(known[Goal].g)
                      /\ hs.config.upperBound /\ hs.phase # "budget" => table[All].cost <= CostOf(GOOCost)
    BY DEF PlanAsFound
  <2>1. TypeOK /\ CardOK /\ GraphOK /\ hs # NoSearch
    BY DEF OrderingInv, Sought, TypeOK, CardOK
  <2>2. ASSUME NEW w \in Nat, Pledged(CostOf(w)) PROVE table[All].cost <= CostOf(w)
    <3>1. CostOf(w) \in Nat
      BY <2>1, CostOfTyped
    <3> QED BY <2>1, <2>2, <3>1, PledgePaid
  <2>3. ASSUME hs.phase = "goal" PROVE table[All].cost <= CostOf(known[Goal].g)
    <3>1. Goal \in DOMAIN known /\ Pledged(CostOf(known[Goal].g))
      BY <2>3 DEF FoundInv
    <3>2. known[Goal].g \in Nat
      BY <2>1, <3>1 DEF CostsOK, EntryOK
    <3> QED BY <2>2, <3>1, <3>2
  <2>4. ASSUME hs.config.upperBound, hs.phase # "budget" PROVE table[All].cost <= CostOf(GOOCost)
    <3>1. GOOCost \in Nat /\ Pledged(CostOf(GOOCost))
      BY <2>1, <2>4, GOOLeads DEF FoundInv
    <3> QED BY <2>2, <3>1
  <2> QED BY <2>3, <2>4
<1> QED BY OrderingInvariant, <1>1, <1>2, <1>3, PTL DEF OrderingSpec

(* Layers by size, each of all joins of two sizes. *)
SizedCuts(a, b) == {p \in JoinedSplits : Cardinality(p[1]) = a /\ Cardinality(p[2]) = b}

LEMMA SizedCutsFacts ==
  ASSUME NEW a, NEW b
  PROVE  LET s == Disjoint(Pairs(OfSize(a), OfSize(b)))
         IN  s \in Seq(Splits) /\ ToSet(s) = SizedCuts(a, b)
<1> DEFINE F == OfSize(a)
           G == OfSize(b)
<1>1. F \in Seq(Subproblems) /\ ToSet(F) = {S \in Subproblems : Cardinality(S) = a}
      /\ G \in Seq(Subproblems) /\ ToSet(G) = {S \in Subproblems : Cardinality(S) = b}
  BY OfSizeFull
<1> HIDE DEF F, G
<1>2. Pairs(F, G) \in Seq(Subproblems \X Subproblems) /\ ToSet(Pairs(F, G)) = ToSet(F) \X ToSet(G)
  BY <1>1, PairsFacts, PairsFull
<1> DEFINE q == Pairs(F, G)
<1>3. q \in Seq(Subproblems \X Subproblems) /\ ToSet(q) = ToSet(F) \X ToSet(G)
  BY <1>2
<1> HIDE DEF q
<1>4. Disjoint(q) \in Seq(JoinedSplits) /\ (\A p \in ToSet(q) : p \in JoinedSplits => p \in ToSet(Disjoint(q)))
      /\ ToSet(Disjoint(q)) \subseteq ToSet(q)
  BY <1>3, DisjointFacts
<1>5. ToSet(Disjoint(q)) \subseteq JoinedSplits
  BY <1>4, ToSetFacts
<1>6. \A p \in JoinedSplits : p \in ToSet(q) <=> Cardinality(p[1]) = a /\ Cardinality(p[2]) = b
  <2>1. \A p \in JoinedSplits : p = <<p[1], p[2]>> /\ p[1] \in Subproblems /\ p[2] \in Subproblems
    BY DEF JoinedSplits, Splits
  <2> QED BY <1>1, <1>3, <2>1
<1>7. ToSet(Disjoint(q)) = SizedCuts(a, b)
  BY <1>4, <1>5, <1>6 DEF SizedCuts
<1>8. Disjoint(q) \in Seq(Splits)
  BY <1>4, SeqOfMore DEF JoinedSplits
<1> QED BY <1>7, <1>8 DEF q, F, G

LEMMA SizesOfCut ==
  ASSUME NEW p \in ConnectedCuts
  PROVE  LET a == Cardinality(p[1])
             b == Cardinality(p[2])
             s == a + b - 1
         IN  /\ a \in 1..s /\ b \in 1..s /\ s \in 1..(N - 1) /\ b = s + 1 - a /\ a = s + 1 - b
             /\ p \in SizedCuts(a, s + 1 - a) /\ Swapped(p) \in SizedCuts(b, s + 1 - b)
<1> DEFINE a == Cardinality(p[1])
           b == Cardinality(p[2])
           s == a + b - 1
<1>1. p \in Splits /\ p \in JoinedSplits /\ Swapped(p) \in JoinedSplits
  BY ConnectedCutsFacts DEF ConnectedCuts
<1>2. a \in Nat \ {0} /\ b \in Nat \ {0} /\ Cardinality(Result(p)) = a + b /\ Result(p) \in SUBSET Relations
  BY <1>1, ResultFacts DEF SizeOfResult, Subproblems
<1>3. a + b <= N /\ N \in Nat
  BY <1>2, NFacts, FS_Subset DEF N
<1>4. Swapped(p)[1] = p[2] /\ Swapped(p)[2] = p[1]
  BY DEF Swapped
<1>5. p \in SizedCuts(a, b) /\ Swapped(p) \in SizedCuts(b, a)
  BY <1>1, <1>4 DEF SizedCuts
<1> HIDE DEF a, b
<1>6. a \in 1..s /\ b \in 1..s /\ s \in 1..(N - 1) /\ b = s + 1 - a /\ a = s + 1 - b
  BY <1>2, <1>3
<1> QED BY <1>5, <1>6 DEF a, b

LEMMA SizedResult ==
  ASSUME NEW a, NEW b, NEW p \in SizedCuts(a, b)
  PROVE  p \in Splits /\ SizeOfResult(p) = a + b
BY ResultFacts DEF SizedCuts, JoinedSplits

LEMMA DPsizeExhausts == Exhausts(DPsize, ConnectedCuts)
<1> DEFINE ps(s, a) == Disjoint(Pairs(OfSize(a), OfSize(s + 1 - a)))
           inner(s) == [a \in 1..s |-> ps(s, a)]
           rows == [s \in 1..(N - 1) |-> Flatten(inner(s))]
<1>0. N - 1 \in Nat
  BY NFacts
<1>1. \A s, a : ps(s, a) \in Seq(Splits) /\ ToSet(ps(s, a)) = SizedCuts(a, s + 1 - a)
  BY SizedCutsFacts
<1>2. DPsize = Flatten(rows)
  BY Zenon DEF DPsize
<1> HIDE DEF ps
<1>3. ASSUME NEW s \in 1..(N - 1)
      PROVE  Flatten(inner(s)) \in Seq(Splits)
             /\ ToSet(Flatten(inner(s))) = UNION {SizedCuts(a, s + 1 - a) : a \in 1..s}
  <2>1. inner(s) \in Seq(Seq(Splits)) /\ Len(inner(s)) = s /\ \A a \in 1..s : inner(s)[a] = ps(s, a)
    <3>1. inner(s) \in Seq(Seq(Splits))
      BY <1>1, IsASeq
    <3> QED BY <3>1
  <2> HIDE DEF inner
  <2>2. ToSet(Flatten(inner(s))) = UNION {ToSet(inner(s)[a]) : a \in 1..Len(inner(s))}
    BY <2>1, FlattenElements
  <2>3. UNION {ToSet(inner(s)[a]) : a \in 1..Len(inner(s))} = UNION {SizedCuts(a, s + 1 - a) : a \in 1..s}
    BY <1>1, <2>1
  <2> QED BY <2>1, <2>2, <2>3, FlattenTyped
<1> HIDE DEF inner
<1>4. rows \in Seq(Seq(Splits)) /\ Len(rows) = N - 1 /\ \A s \in 1..(N - 1) : rows[s] = Flatten(inner(s))
  <2>1. rows \in Seq(Seq(Splits))
    BY <1>0, <1>3, IsASeq
  <2> QED BY <2>1, <1>0
<1> HIDE DEF rows
<1>5. ASSUME NEW s \in 1..Len(rows), NEW p \in ToSet(rows[s]) PROVE SizeOfResult(p) = s + 1
  <2>1. PICK a \in 1..s : p \in SizedCuts(a, s + 1 - a)
    BY <1>3, <1>4
  <2>2. SizeOfResult(p) = a + (s + 1 - a)
    BY <2>1, SizedResult
  <2> QED BY <2>2, <1>0, <1>4
<1>6. DPsize \in Seq(Splits) /\ InOrder(DPsize, Settles)
  BY <1>2, <1>4, <1>5, FlattenTyped, LayersSettle
<1>7. ToSet(DPsize) = UNION {ToSet(rows[s]) : s \in 1..Len(rows)}
  BY <1>2, <1>4, FlattenElements
<1>8. ASSUME NEW p \in ConnectedCuts PROVE p \in ToSet(DPsize)
  <2>1. PICK s \in 1..(N - 1) : \E a \in 1..s : p \in SizedCuts(a, s + 1 - a)
    BY SizesOfCut
  <2>2. p \in ToSet(rows[s])
    BY <1>3, <1>4, <2>1
  <2> QED BY <1>4, <1>7, <2>2
<1> QED BY <1>6, <1>8 DEF Exhausts, Covers

LEMMA DPsizeSubExhausts == Exhausts(DPsizeSub, ConnectedCuts)
<1> DEFINE layer(s) == Within(OfSize(s + 1), ConnectedOnes)
           rows == [s \in 1..(N - 1) |-> DissectAll(layer(s))]
<1>0. N - 1 \in Nat
  BY NFacts
<1>1. DPsizeSub = Flatten(rows)
  BY Zenon DEF DPsizeSub
<1>2. \A s : layer(s) \in Seq(Subproblems)
             /\ ToSet(layer(s)) = {S \in Subproblems : Cardinality(S) = s + 1} \cap ConnectedOnes
  BY OfSizeFull, WithinFacts
<1> HIDE DEF layer
<1>3. \A s : /\ DissectAll(layer(s)) \in Seq(Splits)
             /\ ToSet(DissectAll(layer(s))) = UNION {SplitsOf(S) : S \in ToSet(layer(s))}
  BY <1>2, DissectAllFacts, DissectAllFull
<1>4. rows \in Seq(Seq(Splits)) /\ Len(rows) = N - 1 /\ \A s \in 1..(N - 1) : rows[s] = DissectAll(layer(s))
  <2>1. rows \in Seq(Seq(Splits))
    BY <1>0, <1>3, IsASeq
  <2> QED BY <2>1, <1>0
<1> HIDE DEF rows
<1>5. ASSUME NEW s \in 1..Len(rows), NEW p \in ToSet(rows[s]) PROVE SizeOfResult(p) = s + 1
  <2>1. PICK S \in ToSet(layer(s)) : p \in SplitsOf(S)
    BY <1>3, <1>4
  <2>2. Cardinality(S) = s + 1 /\ Result(p) = S
    BY <1>2, <2>1 DEF SplitsOf, Result
  <2> QED BY <2>2 DEF SizeOfResult
<1>6. DPsizeSub \in Seq(Splits) /\ InOrder(DPsizeSub, Settles)
  BY <1>1, <1>4, <1>5, FlattenTyped, LayersSettle
<1>7. ToSet(DPsizeSub) = UNION {ToSet(rows[s]) : s \in 1..Len(rows)}
  BY <1>1, <1>4, FlattenElements
<1>8. ASSUME NEW p \in ConnectedCuts PROVE p \in ToSet(DPsizeSub)
  <2>1. p \in Splits /\ Result(p) \in ConnectedOnes /\ p \in SplitsOf(Result(p)) /\ Result(p) \in Subproblems
    BY ConnectedCutsFacts, ResultFacts
  <2>2. PICK s \in 1..(N - 1) : Cardinality(Result(p)) = s + 1
    <3>1. LET s == Cardinality(p[1]) + Cardinality(p[2]) - 1 IN s \in 1..(N - 1)
      BY SizesOfCut
    <3>2. /\ Cardinality(p[1]) \in Nat \ {0} /\ Cardinality(p[2]) \in Nat \ {0}
          /\ Cardinality(Result(p)) = Cardinality(p[1]) + Cardinality(p[2])
      BY <2>1, ResultFacts DEF SizeOfResult
    <3> QED BY <3>1, <3>2
  <2>3. Result(p) \in ToSet(layer(s))
    BY <1>2, <2>1, <2>2
  <2>4. p \in ToSet(rows[s])
    BY <1>3, <1>4, <2>1, <2>3
  <2> QED BY <1>4, <1>7, <2>4
<1> QED BY <1>6, <1>8 DEF Exhausts, Covers

HalfCuts(s, a) == {p \in SizedCuts(a, s + 1 - a) : 2 * a = s + 1 => Lesser(p[1], p[2])}

LEMMA HalfCutsFacts ==
  ASSUME NEW s, NEW a
  PROVE  LET ps == Disjoint(Pairs(OfSize(a), OfSize(s + 1 - a)))
             half == IF 2 * a = s + 1 THEN Within(ps, {p \in ToSet(ps) : Lesser(p[1], p[2])}) ELSE ps
         IN  half \in Seq(Splits) /\ ToSet(half) = HalfCuts(s, a)
<1> DEFINE ps == Disjoint(Pairs(OfSize(a), OfSize(s + 1 - a)))
           F == {p \in ToSet(ps) : Lesser(p[1], p[2])}
<1>1. ps \in Seq(Splits) /\ ToSet(ps) = SizedCuts(a, s + 1 - a)
  BY SizedCutsFacts
<1> HIDE DEF ps
<1>2. Within(ps, F) \in Seq(Splits) /\ ToSet(Within(ps, F)) = ToSet(ps) \cap F
  <2> HIDE DEF F
  <2> QED BY <1>1, WithinFacts
<1>3. CASE 2 * a = s + 1
  <2>1. ToSet(Within(ps, F)) = HalfCuts(s, a)
    BY <1>1, <1>2, <1>3 DEF HalfCuts
  <2> QED BY <1>2, <1>3, <2>1 DEF ps
<1>4. CASE 2 * a # s + 1
  <2>1. ToSet(ps) = HalfCuts(s, a)
    BY <1>1, <1>4 DEF HalfCuts
  <2> QED BY <1>1, <1>4, <2>1 DEF ps
<1> QED BY <1>3, <1>4

LEMMA DPsizeOptExhausts == Exhausts(DPsizeOpt, ConnectedCuts)
<1> DEFINE ps(s, a) == Disjoint(Pairs(OfSize(a), OfSize(s + 1 - a)))
           half(s, a) == IF 2 * a = s + 1
                           THEN Within(ps(s, a), {p \in ToSet(ps(s, a)) : Lesser(p[1], p[2])})
                           ELSE ps(s, a)
           inner(s) == [a \in 1..DPsizeOptHalf(s + 1) |-> half(s, a)]
           rows == [s \in 1..(N - 1) |-> Flatten(inner(s))]
<1>0. N - 1 \in Nat
  BY NFacts
<1>1. \A s, a : half(s, a) \in Seq(Splits) /\ ToSet(half(s, a)) = HalfCuts(s, a)
  BY HalfCutsFacts
<1>2. DPsizeOpt = Flatten(rows)
  BY Zenon DEF DPsizeOpt
<1> HIDE DEF half
<1>3. ASSUME NEW s \in 1..(N - 1)
      PROVE  Flatten(inner(s)) \in Seq(Splits)
             /\ ToSet(Flatten(inner(s))) = UNION {HalfCuts(s, a) : a \in 1..DPsizeOptHalf(s + 1)}
  <2> DEFINE h == DPsizeOptHalf(s + 1)
  <2>0. h \in Nat
    BY DEF DPsizeOptHalf
  <2> HIDE DEF h
  <2>1. inner(s) \in Seq(Seq(Splits)) /\ Len(inner(s)) = h /\ \A a \in 1..h : inner(s)[a] = half(s, a)
    <3>0. inner(s) = [a \in 1..h |-> half(s, a)]
      BY DEF h
    <3> HIDE DEF inner
    <3>1. inner(s) \in Seq(Seq(Splits))
      BY <1>1, <2>0, <3>0, IsASeq
    <3> QED BY <3>0, <3>1, <2>0
  <2> HIDE DEF inner
  <2>2. ToSet(Flatten(inner(s))) = UNION {ToSet(inner(s)[a]) : a \in 1..Len(inner(s))}
    BY <2>1, FlattenElements
  <2>3. UNION {ToSet(inner(s)[a]) : a \in 1..Len(inner(s))} = UNION {HalfCuts(s, a) : a \in 1..h}
    BY <1>1, <2>1
  <2> QED BY <2>1, <2>2, <2>3, FlattenTyped DEF h
<1> HIDE DEF inner
<1>4. rows \in Seq(Seq(Splits)) /\ Len(rows) = N - 1 /\ \A s \in 1..(N - 1) : rows[s] = Flatten(inner(s))
  <2>1. rows \in Seq(Seq(Splits))
    BY <1>0, <1>3, IsASeq
  <2> QED BY <2>1, <1>0
<1> HIDE DEF rows
<1>5. ASSUME NEW s \in 1..Len(rows), NEW p \in ToSet(rows[s]) PROVE SizeOfResult(p) = s + 1
  <2>1. PICK a \in 1..DPsizeOptHalf(s + 1) : p \in HalfCuts(s, a)
    BY <1>3, <1>4
  <2>2. SizeOfResult(p) = a + (s + 1 - a)
    BY <2>1, SizedResult DEF HalfCuts
  <2> QED BY <2>2, <1>0, <1>4
<1>6. DPsizeOpt \in Seq(Splits) /\ InOrder(DPsizeOpt, Settles)
  BY <1>2, <1>4, <1>5, FlattenTyped, LayersSettle
<1>7. ToSet(DPsizeOpt) = UNION {ToSet(rows[s]) : s \in 1..Len(rows)}
  BY <1>2, <1>4, FlattenElements
<1>8. ASSUME NEW p \in ConnectedCuts PROVE p \in ToSet(DPsizeOpt) \/ Swapped(p) \in ToSet(DPsizeOpt)
  <2> DEFINE a == Cardinality(p[1])
             b == Cardinality(p[2])
             s == a + b - 1
  <2>1. /\ a \in 1..s /\ b \in 1..s /\ s \in 1..(N - 1) /\ b = s + 1 - a /\ a = s + 1 - b
        /\ p \in SizedCuts(a, s + 1 - a) /\ Swapped(p) \in SizedCuts(b, s + 1 - b)
    BY SizesOfCut
  <2>2. p[1] \in SUBSET Relations /\ p[2] \in SUBSET Relations /\ p[1] # p[2]
    <3>1. p \in Splits
      BY ConnectedCutsFacts
    <3> QED BY <3>1 DEF Splits, Subproblems
  <2>3. Swapped(p)[1] = p[2] /\ Swapped(p)[2] = p[1]
    BY DEF Swapped
  <2>4. Lesser(p[1], p[2]) \/ Lesser(p[2], p[1])
    BY <2>2, LesserTotal
  <2> HIDE DEF a, b
  <2>5. \A c \in 1..s : 2 * c <= s + 1 => c \in 1..DPsizeOptHalf(s + 1)
    BY <2>1 DEF DPsizeOptHalf
  <2>6. ASSUME NEW c \in 1..s, 2 * c <= s + 1, NEW q \in HalfCuts(s, c) PROVE q \in ToSet(DPsizeOpt)
    <3>1. q \in ToSet(rows[s])
      BY <1>3, <1>4, <2>1, <2>5, <2>6
    <3> QED BY <1>4, <1>7, <2>1, <3>1
  <2>7. CASE 2 * a < s + 1
    <3>1. p \in HalfCuts(s, a)
      BY <2>1, <2>7 DEF HalfCuts
    <3> QED BY <2>1, <2>6, <2>7, <3>1
  <2>8. CASE 2 * b < s + 1
    <3>1. Swapped(p) \in HalfCuts(s, b)
      BY <2>1, <2>8 DEF HalfCuts
    <3> QED BY <2>1, <2>6, <2>8, <3>1
  <2>9. CASE 2 * a = s + 1 /\ 2 * b = s + 1
    <3>1. p \in HalfCuts(s, a) \/ Swapped(p) \in HalfCuts(s, b)
      BY <2>1, <2>3, <2>4 DEF HalfCuts
    <3>2. 2 * a <= s + 1 /\ 2 * b <= s + 1
      BY <2>1, <2>9
    <3> QED BY <2>1, <2>6, <3>1, <3>2
  <2>10. 2 * a < s + 1 \/ 2 * b < s + 1 \/ (2 * a = s + 1 /\ 2 * b = s + 1)
    BY <2>1
  <2> QED BY <2>7, <2>8, <2>9, <2>10
<1> QED BY <1>6, <1>8 DEF Exhausts, Covers

-----------------------------------------------------------------------------
(* Dynamic programming over a sequence of joins.  G are the subproblems    *)
(* that may get plans, C the cuts that count for their costs.              *)

JoinTasks == {Join(p) : p \in Splits}
Open(S)    == \E i \in 1..Len(tasks) : tasks[i][1] = "join" /\ UnionOf(tasks[i]) = S
Waiting(p) == \E i \in 1..Len(tasks) : tasks[i] \in {Join(p), Join(Swapped(p))}

Scheme(G, C) ==
  /\ C \in SUBSET Splits
  /\ \A r \in Relations : {r} \in G
  /\ \A p \in C : Result(p) \in G

(* An entry costs what its join costs now, and its sides cost what they    *)
(* will cost.                                                              *)
PricedIn(C) ==
  \A S \in Subproblems : table[S].left # {} =>
    /\ <<table[S].left, table[S].right>> \in C
    /\ table[S].cost = JoinCost(table[S].left, table[S].right)
    /\ ~Open(table[S].left) /\ ~Open(table[S].right)

(* A join that does not wait any more has had its effect, if it has one. *)
Beaten(p) ==
  HasPlan(p[1]) /\ HasPlan(p[2]) =>
    HasPlan(Result(p)) /\ table[Result(p)].cost <= JoinCost(p[1], p[2])
Weighed(C) == \A p \in C : Waiting(p) \/ (Beaten(p) /\ ~Open(p[1]) /\ ~Open(p[2]))

Scan(G, C) ==
  /\ tasks \in Seq(JoinTasks)
  /\ \A i, j \in 1..Len(tasks) : i < j => UnionOf(tasks[j]) \notin {tasks[i][2], tasks[i][3]}
  /\ \A i \in 1..Len(tasks) : tasks[i][2] \in G /\ tasks[i][3] \in G => <<tasks[i][2], tasks[i][3]>> \in C
  /\ PricedIn(C) /\ Weighed(C)

LEMMA JoinTaskFacts ==
  ASSUME NEW t \in JoinTasks
  PROVE  /\ t[1] = "join" /\ t[2] \in Subproblems /\ t[3] \in Subproblems /\ t[2] \cap t[3] = {}
         /\ UnionOf(t) \in Subproblems /\ UnionOf(t) # t[2] /\ UnionOf(t) # t[3]
<1>1. PICK p \in Splits : t = Join(p)
  BY DEF JoinTasks
<1>2. t[1] = "join" /\ t[2] = p[1] /\ t[3] = p[2]
  BY <1>1 DEF Join
<1>3. p[1] \in Subproblems /\ p[2] \in Subproblems /\ p[1] \cap p[2] = {}
  BY DEF Splits
<1> QED BY <1>2, <1>3 DEF UnionOf, Subproblems

LEMMA PlannedIn ==
  ASSUME SidesHavePlans, NEW G, NEW C, Scheme(G, C), PricedIn(C), NEW S \in Subproblems, HasPlan(S)
  PROVE  S \in G
<1>1. CASE Singleton(S)
  BY <1>1 DEF Singleton, Scheme, Subproblems
<1>2. CASE table[S].left # {}
  <2> DEFINE L == table[S].left
             R == table[S].right
  <2>1. <<L, R>> \in C /\ L \cup R = S
    BY <1>2 DEF PricedIn, SidesHavePlans
  <2> HIDE DEF L, R
  <2>2. Result(<<L, R>>) = S
    BY <2>1 DEF Result
  <2> QED BY <2>1, <2>2 DEF Scheme
<1> QED BY <1>1, <1>2 DEF HasPlan

LEMMA CostsCommute ==
  \A L, R : JoinCost(L, R) = card[L \cup R] + table[L].cost + table[R].cost
BY DEF JoinCost

(* The effect of an update on the entries that a join depends on.          *)
LEMMA UpdateFacts ==
  ASSUME TypeOK, NEW L \in Subproblems, NEW R \in Subproblems, Update(L, R)
  PROVE  /\ TypeOK' /\ card' = card
         /\ \A S \in Subproblems : S # L \cup R =>
              table'[S] = table[S] /\ (HasPlan(S)' <=> HasPlan(S))
         /\ \A S \in Subproblems : HasPlan(S) => HasPlan(S)' /\ table'[S].cost <= table[S].cost
         /\ HasPlan(L \cup R)'
         /\ table'[L \cup R].cost <= JoinCost(L, R)
         /\ \/ table'[L \cup R] = Entry(L, R)
            \/ table'[L \cup R] = table[L \cup R]
<1>1. L \cup R \in Subproblems /\ TypeOK' /\ card' = card
  BY UpdateChanges DEF Subproblems, Update
<1>2. ASSUME NEW S \in Subproblems, S # L \cup R
      PROVE  table'[S] = table[S] /\ (HasPlan(S)' <=> HasPlan(S))
  <2>1. table'[S] = table[S]
    BY <1>2, UpdateChanges
  <2> QED BY <2>1 DEF HasPlan
<1>3. ASSUME NEW S \in Subproblems, HasPlan(S) PROVE HasPlan(S)' /\ table'[S].cost <= table[S].cost
  BY <1>3, UpdateImproves
<1>4. HasPlan(L \cup R)'
  BY UpdateGivesPlan
<1>5. table'[L \cup R] = IF Better(L, R) THEN Entry(L, R) ELSE table[L \cup R]
  BY <1>1, UpdateChanges
<1>6. table'[L \cup R].cost <= JoinCost(L, R)
  <2>1. JoinCost(L, R) \in Nat /\ table[L \cup R].cost \in Nat
    BY <1>1, EntryTyped DEF TypeOK, Entries
  <2>2. CASE Better(L, R)
    <3>1. table'[L \cup R].cost = JoinCost(L, R)
      BY <1>5, <2>2 DEF Entry
    <3> QED BY <2>1, <3>1
  <2>3. CASE ~Better(L, R)
    <3>1. table'[L \cup R].cost = table[L \cup R].cost /\ ~(JoinCost(L, R) < table[L \cup R].cost)
      BY <1>5, <2>3 DEF Better
    <3> QED BY <2>1, <3>1
  <2> QED BY <2>2, <2>3
<1> QED BY <1>1, <1>2, <1>3, <1>4, <1>5, <1>6

LEMMA ScanStep ==
  ASSUME TypeOK, SidesHavePlans, TasksOK, NEW G, NEW C, Scheme(G, C), Scan(G, C), ConsiderJoin
  PROVE  Scan(G, C)'
<1> DEFINE n == Next1
<1>a. PICK L, R : L = tasks[n][2] /\ R = tasks[n][3]
  OBVIOUS
<1> DEFINE S == L \cup R
<1>0. tasks \in Seq(JoinTasks) /\ PricedIn(C) /\ Weighed(C) /\ C \in SUBSET Splits
  BY DEF Scan, Scheme
<1>1. ~Finished /\ Update(L, R) /\ tasks' = Rest
  BY <1>a DEF ConsiderJoin
<1>2. /\ n \in 1..Len(tasks) /\ tasks[n] \in JoinTasks /\ Applies(tasks[n])
      /\ \A j \in 1..(n - 1) : ~Applies(tasks[j])
      /\ Rest \in Seq(JoinTasks) /\ Len(Rest) = Len(tasks) - n
      /\ \A i \in 1..Len(Rest) : n + i \in 1..Len(tasks) /\ Rest[i] = tasks[n + i]
  BY <1>0, <1>1, FirstApplies
<1>3. /\ tasks[n][1] = "join" /\ L \in Subproblems /\ R \in Subproblems /\ L \cap R = {}
      /\ UnionOf(tasks[n]) = S /\ S \in Subproblems /\ S # L /\ S # R
  BY <1>a, <1>2, JoinTaskFacts DEF UnionOf
<1>4. HasPlan(L) /\ HasPlan(R)
  BY <1>a, <1>1, <1>3, ConsideredJoin DEF May
<1>5. L \in G /\ R \in G /\ <<L, R>> \in C
  <2>1. L \in G /\ R \in G
    BY <1>0, <1>3, <1>4, PlannedIn
  <2> QED BY <1>a, <1>2, <2>1 DEF Scan
<1>6. /\ TypeOK' /\ card' = card
      /\ \A X \in Subproblems : X # S => table'[X] = table[X] /\ (HasPlan(X)' <=> HasPlan(X))
      /\ \A X \in Subproblems : HasPlan(X) => HasPlan(X)' /\ table'[X].cost <= table[X].cost
      /\ HasPlan(S)' /\ table'[S].cost <= JoinCost(L, R)
      /\ table'[S] = Entry(L, R) \/ table'[S] = table[S]
  BY <1>1, <1>3, UpdateFacts
<1>k. \A i \in 1..Len(Rest) : n + i \in 1..Len(tasks) /\ n < n + i
  BY <1>2
<1>7. Open(S)
  BY <1>2, <1>3 DEF Open
<1> HIDE DEF n, S
<1>8. \A X : Open(X)' => Open(X)
  <2> SUFFICES ASSUME NEW X, Open(X)' PROVE Open(X)
    OBVIOUS
  <2>1. PICK i \in 1..Len(Rest) : Rest[i][1] = "join" /\ UnionOf(Rest[i]) = X
    BY <1>1 DEF Open, UnionOf
  <2>2. n + i \in 1..Len(tasks) /\ tasks[n + i][1] = "join" /\ UnionOf(tasks[n + i]) = X
    BY <1>2, <2>1
  <2> QED BY <2>2 DEF Open
<1>9. ASSUME NEW i \in 1..n, NEW X \in {tasks[i][2], tasks[i][3]} PROVE ~Open(X)'
  <2> SUFFICES ASSUME Open(X)' PROVE FALSE
    OBVIOUS
  <2>1. PICK j \in 1..Len(Rest) : UnionOf(Rest[j]) = X
    BY <1>1 DEF Open, UnionOf
  <2>2. n + j \in 1..Len(tasks) /\ i \in 1..Len(tasks) /\ i < n + j /\ UnionOf(tasks[n + j]) = X
    BY <1>2, <1>k, <2>1
  <2> QED BY <1>9, <2>2 DEF Scan
<1>10. /\ tasks' \in Seq(JoinTasks)
       /\ (\A i, j \in 1..Len(tasks) : i < j => UnionOf(tasks[j]) \notin {tasks[i][2], tasks[i][3]})'
       /\ (\A i \in 1..Len(tasks) : tasks[i][2] \in G /\ tasks[i][3] \in G => <<tasks[i][2], tasks[i][3]>> \in C)'
  <2>1. ASSUME NEW i \in 1..Len(Rest), NEW j \in 1..Len(Rest), i < j
        PROVE  UnionOf(Rest[j]) \notin {Rest[i][2], Rest[i][3]}
    <3>1. n + i \in 1..Len(tasks) /\ n + j \in 1..Len(tasks) /\ n + i < n + j
      BY <1>2, <2>1
    <3> QED BY <1>2, <3>1 DEF Scan
  <2>2. \A i \in 1..Len(Rest) : Rest[i][2] \in G /\ Rest[i][3] \in G => <<Rest[i][2], Rest[i][3]>> \in C
    BY <1>2 DEF Scan
  <2> QED BY <1>1, <1>2, <2>1, <2>2 DEF UnionOf
<1>11. PricedIn(C)'
  <2> SUFFICES ASSUME NEW X \in Subproblems, NEW l, NEW r, l = table'[X].left, r = table'[X].right, l # {}
               PROVE  /\ <<l, r>> \in C /\ table'[X].cost = card'[l \cup r] + table'[l].cost + table'[r].cost
                      /\ ~Open(l)' /\ ~Open(r)'
    BY DEF PricedIn, JoinCost
  <2>1. CASE table'[X] = table[X]
    <3>1. /\ <<l, r>> \in C /\ table[X].cost = card[l \cup r] + table[l].cost + table[r].cost
          /\ ~Open(l) /\ ~Open(r)
      BY <1>0, <2>1 DEF PricedIn, JoinCost
    <3>2. l \in Subproblems /\ r \in Subproblems /\ l # S /\ r # S
      BY <1>0, <1>7, <3>1 DEF Splits
    <3>3. table'[l] = table[l] /\ table'[r] = table[r] /\ card' = card
      BY <1>6, <3>2
    <3> QED BY <1>8, <2>1, <3>1, <3>3
  <2>2. CASE table'[X] # table[X]
    <3>1. X = S /\ table'[S] = Entry(L, R)
      BY <1>6, <2>2
    <3>2. l = L /\ r = R /\ table'[X].cost = card[L \cup R] + table[L].cost + table[R].cost
      BY <3>1 DEF Entry, JoinCost
    <3>3. table'[L] = table[L] /\ table'[R] = table[R] /\ card' = card
      BY <1>3, <1>6
    <3>4. n \in 1..n
      BY <1>2
    <3>5. ~Open(l)' /\ ~Open(r)'
      BY <1>a, <1>9, <3>2, <3>4
    <3> QED BY <1>5, <3>2, <3>3, <3>5
  <2> QED BY <2>1, <2>2
<1>12. Weighed(C)'
  <2> SUFFICES ASSUME NEW p \in C, ~Waiting(p)'
               PROVE  Beaten(p)' /\ ~Open(p[1])' /\ ~Open(p[2])'
    BY DEF Weighed
  <2>0. /\ p \in Splits /\ p[1] \in Subproblems /\ p[2] \in Subproblems /\ Result(p) \in Subproblems
        /\ Swapped(p)[1] = p[2] /\ Swapped(p)[2] = p[1]
    BY <1>0, ResultFacts DEF Swapped
  <2>1. CASE Waiting(p)
    <3>1. PICK k \in 1..Len(tasks) : tasks[k] \in {Join(p), Join(Swapped(p))}
      BY <2>1 DEF Waiting
    <3>2. {tasks[k][2], tasks[k][3]} = {p[1], p[2]} /\ tasks[k][1] = "join"
      BY <2>0, <3>1 DEF Join
    <3>3. k \in 1..n
      <4>1. CASE ~(k <= n)
        <5>1. k - n \in 1..Len(Rest) /\ n + (k - n) = k
          BY <1>2, <4>1
        <5>2. Rest[k - n] = tasks[k]
          BY <1>2, <5>1
        <5>3. Waiting(p)'
          BY <1>1, <3>1, <5>1, <5>2 DEF Waiting, Join, Swapped
        <5> QED BY <5>3
      <4> QED BY <1>2, <4>1
    <3>4. ~Open(p[1])' /\ ~Open(p[2])'
      BY <1>9, <3>2, <3>3
    <3>5. CASE k = n
      <4>1. {L, R} = {p[1], p[2]}
        BY <1>a, <3>2, <3>5
      <4>0. (L = p[1] /\ R = p[2]) \/ (L = p[2] /\ R = p[1])
        BY <4>1
      <4>2. Result(p) = S
        BY <4>0 DEF Result, S
      <4>3. table'[L] = table[L] /\ table'[R] = table[R] /\ card' = card
        BY <1>3, <1>6
      <4>4. JoinCost(L, R) = card'[S] + table'[L].cost + table'[R].cost
        BY <4>3 DEF JoinCost, S
      <4>5. card'[S] \in Nat /\ table'[L].cost \in Nat /\ table'[R].cost \in Nat
        BY <1>3, <1>6 DEF TypeOK, Entries
      <4>6. JoinCost(L, R) = card'[S] + table'[p[1]].cost + table'[p[2]].cost
        BY <4>0, <4>4, <4>5
      <4>7. Beaten(p)'
        BY <1>6, <4>2, <4>6 DEF Beaten, JoinCost, Result
      <4> QED BY <3>4, <4>7
    <3>6. CASE k # n
      <4>1. k \in 1..(n - 1) /\ ~Applies(tasks[k])
        BY <1>2, <3>3, <3>6
      <4>2. ~HasPlan(p[1]) \/ ~HasPlan(p[2])
        BY <3>2, <4>1 DEF Applies
      <4>3. p[1] # S /\ p[2] # S
        <5>1. UnionOf(tasks[n]) \notin {tasks[k][2], tasks[k][3]}
          BY <1>2, <4>1 DEF Scan
        <5> QED BY <1>3, <3>2, <5>1
      <4>4. Beaten(p)'
        BY <1>6, <2>0, <4>2, <4>3 DEF Beaten
      <4> QED BY <3>4, <4>4
    <3> QED BY <3>5, <3>6
  <2>2. CASE ~Waiting(p)
    <3>1. Beaten(p) /\ ~Open(p[1]) /\ ~Open(p[2])
      BY <1>0, <2>2 DEF Weighed
    <3>2. p[1] # S /\ p[2] # S /\ ~Open(p[1])' /\ ~Open(p[2])'
      BY <1>7, <1>8, <3>1
    <3>3. table'[p[1]] = table[p[1]] /\ table'[p[2]] = table[p[2]] /\ card' = card
          /\ (HasPlan(p[1])' <=> HasPlan(p[1])) /\ (HasPlan(p[2])' <=> HasPlan(p[2]))
      BY <1>6, <2>0, <3>2
    <3>4. JoinCost(p[1], p[2])' = JoinCost(p[1], p[2]) /\ JoinCost(p[1], p[2]) \in Nat
      BY <2>0, <3>3, EntryTyped DEF JoinCost
    <3>5. table[Result(p)].cost \in Nat /\ table'[Result(p)].cost \in Nat
      BY <1>6, <2>0 DEF TypeOK, Entries
    <3>6. HasPlan(Result(p)) => HasPlan(Result(p))' /\ table'[Result(p)].cost <= table[Result(p)].cost
      <4>1. PICK q : q = Result(p)
        OBVIOUS
      <4>2. Result(p)' = Result(p)
        BY DEF Result
      <4>3. HasPlan(q) => HasPlan(q)' /\ table'[q].cost <= table[q].cost
        BY <1>6, <2>0, <4>1
      <4> QED BY <4>1, <4>2, <4>3 DEF HasPlan
    <3>7. Beaten(p)'
      <4>1. Result(p)' = Result(p)
        BY DEF Result
      <4>2. ASSUME HasPlan(p[1]), HasPlan(p[2])
            PROVE  HasPlan(Result(p))' /\ table'[Result(p)].cost <= JoinCost(p[1], p[2])
        <5>1. HasPlan(Result(p)) /\ table[Result(p)].cost <= JoinCost(p[1], p[2])
          BY <3>1, <4>2 DEF Beaten
        <5> QED BY <3>4, <3>5, <3>6, <5>1
      <4> QED BY <3>3, <3>4, <4>1, <4>2 DEF Beaten
    <3> QED BY <3>2, <3>7
  <2> QED BY <2>1, <2>2
<1> QED BY <1>10, <1>11, <1>12, Zenon DEF Scan

-----------------------------------------------------------------------------
(* The costs of the best plans, and that the table ends with them. *)

Ways(crossProducts, S) ==
  {L \in (SUBSET S) \ {{}, S} : crossProducts \/ (Connected(L) /\ Connected(S \ L))}
BestBody(crossProducts, S, f) ==
  IF Singleton(S) THEN table[S].cost
  ELSE card[S] + Min({f[L] + f[S \ L] : L \in Ways(crossProducts, S)})
Plannable(crossProducts) == {S \in Subproblems : crossProducts \/ Connected(S)}

LEMMA WaysFacts ==
  ASSUME NEW crossProducts \in BOOLEAN, NEW S \in Subproblems, NEW L \in Ways(crossProducts, S)
  PROVE  /\ L \in Plannable(crossProducts) /\ S \ L \in Plannable(crossProducts)
         /\ SizeOf[L] < SizeOf[S] /\ SizeOf[S \ L] < SizeOf[S] /\ ~Singleton(S)
<1>1. L \in SUBSET S /\ L # {} /\ L # S /\ S \in SUBSET Relations
  BY DEF Ways, Subproblems
<1>2. L \in Subproblems /\ S \ L \in Subproblems /\ L \cup (S \ L) = S /\ L \cap (S \ L) = {}
  BY <1>1 DEF Subproblems
<1>3. L \in (SUBSET S) \ {{}, S} /\ S \ L \in (SUBSET S) \ {{}, S}
  BY <1>1
<1>4. SizeOf[L] < SizeOf[S] /\ SizeOf[S \ L] < SizeOf[S]
  BY <1>3, PartsAreSmaller
<1>5. ~Singleton(S)
  BY <1>1 DEF Singleton
<1> QED BY <1>2, <1>4, <1>5 DEF Ways, Plannable

LEMMA LeastOf ==
  ASSUME NEW T \in SUBSET Nat, T # {}
  PROVE  Min(T) \in T /\ \A y \in T : Min(T) <= y
BY LeastNat DEF Min

LEMMA LinkedCutExists ==
  ASSUME NEW S \in Subproblems, ~Singleton(S), Linked(S)
  PROVE  \E p : p \in LinkedCuts(S)
<1>1. MinCuts(S) \in Seq(LinkedCuts(S)) /\ Len(MinCuts(S)) # 0
  BY MinCutsFacts
<1>2. 1 \in 1..Len(MinCuts(S))
  BY <1>1
<1>3. MinCuts(S)[1] \in LinkedCuts(S)
  BY <1>1, <1>2
<1> QED BY <1>3

(* The equation that defines the costs has a solution, whatever Min makes  *)
(* of the sets that cannot be cut into connected parts.                    *)
LEMMA BestEquation ==
  ASSUME TypeOK, NEW crossProducts \in BOOLEAN
  PROVE  \E f : /\ f = [S \in Subproblems |-> BestBody(crossProducts, S, f)]
                /\ BestCost(crossProducts) = [S \in Plannable(crossProducts) |-> f[S]]
<1> DEFINE cp == crossProducts
           D == Subproblems
           V == Nat \cup {card[S] + Min({}) : S \in D}
           G == [S \in D |-> [f \in [D -> V] |->
                   IF BestBody(cp, S, f) \in V THEN BestBody(cp, S, f) ELSE 0]]
<1>1. ASSUME NEW S \in D, NEW f, NEW g, \A T \in D : SizeOf[T] < SizeOf[S] => f[T] = g[T]
      PROVE  BestBody(cp, S, f) = BestBody(cp, S, g)
  <2>1. ASSUME NEW L \in Ways(cp, S) PROVE f[L] + f[S \ L] = g[L] + g[S \ L]
    <3>1. L \in D /\ S \ L \in D /\ SizeOf[L] < SizeOf[S] /\ SizeOf[S \ L] < SizeOf[S]
      BY WaysFacts DEF Plannable
    <3> QED BY <1>1, <3>1
  <2>2. {f[L] + f[S \ L] : L \in Ways(cp, S)} = {g[L] + g[S \ L] : L \in Ways(cp, S)}
    BY <2>1
  <2> QED BY <2>2 DEF BestBody
<1> HIDE DEF D
<1>2. Solvable(G, D, V)
  <2>1. G \in [D -> [[D -> V] -> V]]
    <3> DEFINE W == V
    <3>1. 0 \in W
      OBVIOUS
    <3>2. G \in [D -> [[D -> W] -> W]]
      <4> HIDE DEF V
      <4> QED BY <3>1
    <3> QED BY <3>2
  <2>2. LooksBelow(G, D, V, SizeOf)
    <3> HIDE DEF V
    <3> SUFFICES ASSUME NEW S \in D, NEW f \in [D -> V], NEW g \in [D -> V],
                        \A T \in D : SizeOf[T] < SizeOf[S] => f[T] = g[T]
                 PROVE  G[S][f] = G[S][g]
      BY DEF LooksBelow
    <3>1. BestBody(cp, S, f) = BestBody(cp, S, g)
      BY <1>1
    <3> QED BY <3>1
  <2>3. Recursion(G, D, V, SizeOf)
    BY <2>1, <2>2, SizeTyped DEF Recursion, D
  <2> HIDE DEF G, V
  <2> QED BY <2>3, RecursiveFunction
<1>3. PICK f \in [D -> V] : \A S \in D : f[S] = G[S][f]
  BY <1>2 DEF Solvable
<1> DEFINE Good == {S \in D : f[S] = BestBody(cp, S, f) /\ (S \in Plannable(cp) => f[S] \in Nat)}
<1>4. ASSUME NEW S \in D, \A T \in D : SizeOf[T] < SizeOf[S] => T \in Good PROVE S \in Good
  <2> DEFINE B == BestBody(cp, S, f)
             W == {f[L] + f[S \ L] : L \in Ways(cp, S)}
  <2>0. f[S] = IF B \in V THEN B ELSE 0
    <3> HIDE DEF V
    <3> QED BY <1>3
  <2>1. card[S] \in Nat /\ (Singleton(S) => B = table[S].cost /\ table[S].cost \in Nat)
    BY DEF TypeOK, Entries, BestBody, D
  <2>2. ~Singleton(S) => B = card[S] + Min(W)
    BY DEF BestBody
  <2>3. \A L \in Ways(cp, S) : f[L] + f[S \ L] \in Nat
    <3> SUFFICES ASSUME NEW L \in Ways(cp, S) PROVE f[L] + f[S \ L] \in Nat
      OBVIOUS
    <3>1. /\ L \in Plannable(cp) /\ S \ L \in Plannable(cp) /\ L \in D /\ S \ L \in D
          /\ SizeOf[L] < SizeOf[S] /\ SizeOf[S \ L] < SizeOf[S]
      BY WaysFacts DEF Plannable, D
    <3>2. f[L] \in Nat /\ f[S \ L] \in Nat
      BY <1>4, <3>1
    <3> QED BY <3>2
  <2>4. W # {} => Min(W) \in Nat
    <3>1. W \in SUBSET Nat
      BY <2>3
    <3> HIDE DEF W
    <3> QED BY <3>1, LeastOf
  <2>5. ~Singleton(S) /\ S \in Plannable(cp) => W # {}
    <3> SUFFICES ASSUME ~Singleton(S), S \in Plannable(cp) PROVE \E L : L \in Ways(cp, S)
      OBVIOUS
    <3>1. CASE cp
      <4>1. PICK r \in S : TRUE
        BY DEF D, Subproblems
      <4>2. {r} # S /\ r \in Relations
        BY DEF D, Subproblems, Singleton
      <4> QED BY <3>1, <4>1, <4>2 DEF Ways
    <3>2. CASE ~cp
      <4>1. Linked(S)
        BY <3>2, ConnectedMeansLinked DEF Plannable
      <4>2. PICK p \in LinkedCuts(S) : TRUE
        BY <4>1, LinkedCutExists DEF D
      <4>3. p[1] \in Subproblems /\ p[2] \in Subproblems /\ p[2] = S \ p[1] /\ p[1] \in (SUBSET S) \ {{}, S}
            /\ Linked(p[1]) /\ Linked(p[2])
        BY DEF LinkedCuts, SplitsOf, Splits, Subproblems
      <4>4. Connected(p[1]) /\ Connected(S \ p[1])
        BY <4>3, ConnectedMeansLinked
      <4> QED BY <4>3, <4>4 DEF Ways
    <3> QED BY <3>1, <3>2
  <2> HIDE DEF B, W
  <2>6. B \in V /\ (S \in Plannable(cp) => B \in Nat)
    BY <2>1, <2>2, <2>4, <2>5
  <2> QED BY <2>0, <2>6 DEF B
<1> HIDE DEF Good
<1>5. Hereditary(D, SizeOf, Good)
  BY <1>4 DEF Hereditary
<1>6. \A S \in D : S \in Good
  BY <1>5, SizeTyped, RankInduction DEF D
<1> DEFINE P(h) == h = [S \in Subproblems |->
             IF Singleton(S) THEN table[S].cost
             ELSE card[S] + Min({h[L] + h[S \ L] : L \in
                    {L \in (SUBSET S) \ {{}, S} :
                       crossProducts \/ (Connected(L) /\ Connected(S \ L))}})]
           c == CHOOSE h : P(h)
<1>7. ASSUME NEW h PROVE P(h) <=> h = [S \in Subproblems |-> BestBody(crossProducts, S, h)]
  BY Zenon DEF BestBody, Ways
<1>8. BestCost(crossProducts) = [S \in Plannable(crossProducts) |-> c[S]]
  BY Zenon DEF BestCost, Plannable
<1> HIDE DEF P
<1>9. P(f)
  <2>1. \A S \in Subproblems : f[S] = BestBody(crossProducts, S, f)
    BY <1>6 DEF Good, D
  <2>2. f = [S \in Subproblems |-> BestBody(crossProducts, S, f)]
    <3> HIDE DEF V
    <3> QED BY <2>1 DEF D
  <2> QED BY <1>7, <2>2
<1>10. P(c)
  BY <1>9
<1> HIDE DEF c
<1> QED BY <1>7, <1>8, <1>10

CutsOf(crossProducts) == IF crossProducts THEN Splits ELSE ConnectedCuts
SumOver(p, f)   == card[Result(p)] + f[p[1]] + f[p[2]]
BestIn(f, G, C) ==
  /\ \A S \in Subproblems : Singleton(S) => f[S] = table[S].cost
  /\ \A p \in C : p[1] \in G /\ p[2] \in G /\ f[Result(p)] <= SumOver(p, f)
  /\ \A S \in G : f[S] \in Nat /\ (~Singleton(S) => \E p \in C : Result(p) = S /\ f[S] = SumOver(p, f))

LEMMA CutsAreWays ==
  ASSUME NEW crossProducts \in BOOLEAN
  PROVE  /\ \A p \in CutsOf(crossProducts) :
              /\ p \in Splits /\ Result(p) \in Plannable(crossProducts)
              /\ p[1] \in Ways(crossProducts, Result(p)) /\ p[2] = Result(p) \ p[1]
         /\ \A S \in Plannable(crossProducts) : \A L \in Ways(crossProducts, S) :
              <<L, S \ L>> \in CutsOf(crossProducts) /\ Result(<<L, S \ L>>) = S
<1>1. ASSUME NEW p \in CutsOf(crossProducts)
      PROVE  /\ p \in Splits /\ Result(p) \in Plannable(crossProducts)
             /\ p[1] \in Ways(crossProducts, Result(p)) /\ p[2] = Result(p) \ p[1]
  <2>1. p \in Splits /\ (~crossProducts => p \in ConnectedCuts)
    BY DEF CutsOf, ConnectedCuts, JoinedSplits
  <2>2. Result(p) \in Subproblems /\ p[1] \in Subproblems /\ p[2] \in Subproblems /\ p[1] \cap p[2] = {}
    BY <2>1, ResultFacts
  <2>3. p[2] = Result(p) \ p[1] /\ p[1] \in (SUBSET Result(p)) \ {{}, Result(p)}
    BY <2>2 DEF Result, Subproblems
  <2>4. ~crossProducts => Connected(p[1]) /\ Connected(p[2]) /\ Connected(Result(p))
    BY <2>1, <2>2, ConnectedMeansLinked, ConnectedCutsFacts DEF ConnectedCuts, ConnectedOnes
  <2>5. Result(p) \in Plannable(crossProducts)
    BY <2>2, <2>4 DEF Plannable
  <2>6. p[1] \in Ways(crossProducts, Result(p))
    BY <2>3, <2>4 DEF Ways
  <2> QED BY <2>1, <2>3, <2>5, <2>6
<1>2. ASSUME NEW S \in Plannable(crossProducts), NEW L \in Ways(crossProducts, S)
      PROVE  <<L, S \ L>> \in CutsOf(crossProducts) /\ Result(<<L, S \ L>>) = S
  <2>1. S \in Subproblems /\ L \in (SUBSET S) \ {{}, S}
    BY DEF Plannable, Ways
  <2>2. L \in Subproblems /\ S \ L \in Subproblems /\ L \cup (S \ L) = S /\ L \cap (S \ L) = {}
    BY <2>1 DEF Subproblems
  <2>3. <<L, S \ L>> \in Splits /\ Result(<<L, S \ L>>) = S
    BY <2>2 DEF Splits, Result
  <2>4. ~crossProducts => <<L, S \ L>> \in ConnectedCuts
    <3> SUFFICES ASSUME ~crossProducts PROVE <<L, S \ L>> \in ConnectedCuts
      OBVIOUS
    <3>1. Linked(L) /\ Linked(S \ L) /\ Linked(S)
      BY <2>1, <2>2, ConnectedMeansLinked DEF Ways, Plannable
    <3>2. Joined(L, S \ L)
      BY <2>1, <3>1 DEF Linked
    <3> QED BY <2>3, <3>1, <3>2 DEF ConnectedCuts, JoinedSplits
  <2> QED BY <2>3, <2>4 DEF CutsOf
<1> QED BY <1>1, <1>2

LEMMA BestFacts ==
  ASSUME TypeOK, NEW crossProducts \in BOOLEAN,
         NEW f, f = [S \in Subproblems |-> BestBody(crossProducts, S, f)]
  PROVE  BestIn(f, Plannable(crossProducts), CutsOf(crossProducts))
<1> DEFINE cp == crossProducts
           values(S) == {f[L] + f[S \ L] : L \in Ways(cp, S)}
<1>0. card \in [Subproblems -> Nat] /\ table \in [Subproblems -> Entries]
  BY DEF TypeOK
<1>1. ASSUME NEW S \in Subproblems
      PROVE  /\ Singleton(S) => f[S] = table[S].cost /\ table[S].cost \in Nat
             /\ ~Singleton(S) => f[S] = card[S] + Min(values(S))
  <2>1. f[S] = BestBody(cp, S, f)
    BY Zenon
  <2> QED BY <1>0, <2>1 DEF BestBody, Entries
<1>2. ASSUME NEW S \in Plannable(cp), ~Singleton(S) PROVE values(S) # {}
  <2> SUFFICES \E L : L \in Ways(cp, S)
    OBVIOUS
  <2>0. S \in Subproblems
    BY DEF Plannable
  <2>1. CASE cp
    <3>1. PICK r \in S : TRUE
      BY <2>0 DEF Subproblems
    <3>2. {r} # S /\ r \in Relations
      BY <1>2, <2>0 DEF Subproblems, Singleton
    <3> QED BY <2>1, <3>1, <3>2 DEF Ways
  <2>2. CASE ~cp
    <3>1. Linked(S)
      BY <2>2, ConnectedMeansLinked DEF Plannable
    <3>2. PICK p \in LinkedCuts(S) : TRUE
      BY <1>2, <2>0, <3>1, LinkedCutExists
    <3>3. p[1] \in Subproblems /\ p[2] \in Subproblems /\ p[2] = S \ p[1] /\ p[1] \in (SUBSET S) \ {{}, S}
          /\ Linked(p[1]) /\ Linked(p[2])
      BY DEF LinkedCuts, SplitsOf, Splits, Subproblems
    <3>4. Connected(p[1]) /\ Connected(S \ p[1])
      BY <3>3, ConnectedMeansLinked
    <3> QED BY <3>3, <3>4 DEF Ways
  <2> QED BY <2>1, <2>2
<1> DEFINE Good == {S \in Subproblems : S \in Plannable(cp) => f[S] \in Nat}
<1>3. ASSUME NEW S \in Subproblems, \A T \in Subproblems : SizeOf[T] < SizeOf[S] => T \in Good
      PROVE  values(S) \in SUBSET Nat /\ S \in Good
  <2>1. \A L \in Ways(cp, S) : f[L] + f[S \ L] \in Nat
    <3> SUFFICES ASSUME NEW L \in Ways(cp, S) PROVE f[L] + f[S \ L] \in Nat
      OBVIOUS
    <3>1. /\ L \in Plannable(cp) /\ S \ L \in Plannable(cp) /\ L \in Subproblems /\ S \ L \in Subproblems
          /\ SizeOf[L] < SizeOf[S] /\ SizeOf[S \ L] < SizeOf[S]
      BY WaysFacts DEF Plannable
    <3>2. f[L] \in Nat /\ f[S \ L] \in Nat
      BY <1>3, <3>1
    <3> QED BY <3>2
  <2>2. values(S) \in SUBSET Nat
    BY <2>1
  <2>3. values(S) # {} => Min(values(S)) \in Nat
    <3> HIDE DEF values
    <3> QED BY <2>2, LeastOf
  <2> HIDE DEF values
  <2> QED BY <1>0, <1>1, <1>2, <2>2, <2>3
<1> HIDE DEF Good
<1>4. Hereditary(Subproblems, SizeOf, Good)
  BY <1>3 DEF Hereditary
<1>5. \A S \in Subproblems : S \in Good
  BY <1>4, SizeTyped, RankInduction
<1>6. \A S \in Plannable(cp) : f[S] \in Nat
  BY <1>5 DEF Good, Plannable
<1>7. ASSUME NEW S \in Plannable(cp), ~Singleton(S)
      PROVE  /\ \A v \in values(S) : f[S] <= card[S] + v
             /\ \E v \in values(S) : f[S] = card[S] + v
  <2>1. S \in Subproblems /\ values(S) \in SUBSET Nat /\ values(S) # {} /\ card[S] \in Nat
    BY <1>0, <1>2, <1>3, <1>5, <1>7 DEF Plannable
  <2> HIDE DEF values
  <2>2. Min(values(S)) \in values(S) /\ \A v \in values(S) : Min(values(S)) <= v
    BY <2>1, LeastOf
  <2>3. f[S] = card[S] + Min(values(S))
    BY <1>1, <1>7, <2>1
  <2> QED BY <2>1, <2>2, <2>3
<1>8. ASSUME NEW S \in Plannable(cp), NEW L \in Ways(cp, S)
      PROVE  /\ f[L] \in Nat /\ f[S \ L] \in Nat /\ card[S] \in Nat
             /\ card[S] + (f[L] + f[S \ L]) = SumOver(<<L, S \ L>>, f)
             /\ f[L] + f[S \ L] \in values(S) /\ ~Singleton(S)
             /\ L \in Plannable(cp) /\ S \ L \in Plannable(cp)
  <2>1. S \in Subproblems /\ L \in Plannable(cp) /\ S \ L \in Plannable(cp) /\ ~Singleton(S)
    BY WaysFacts DEF Plannable
  <2>2. f[L] \in Nat /\ f[S \ L] \in Nat /\ card[S] \in Nat
    BY <1>0, <1>6, <2>1
  <2>3. Result(<<L, S \ L>>) = S
    BY CutsAreWays
  <2>4. SumOver(<<L, S \ L>>, f) = card[S] + f[L] + f[S \ L]
    BY <2>3 DEF SumOver
  <2>5. card[S] + (f[L] + f[S \ L]) = SumOver(<<L, S \ L>>, f)
    BY <2>2, <2>4
  <2>6. f[L] + f[S \ L] \in values(S)
    OBVIOUS
  <2> HIDE DEF values
  <2> QED BY <2>1, <2>2, <2>5, <2>6
<1>9. ASSUME NEW p \in CutsOf(cp)
      PROVE  p[1] \in Plannable(cp) /\ p[2] \in Plannable(cp) /\ f[Result(p)] <= SumOver(p, f)
  <2> DEFINE S == Result(p)
             L == p[1]
  <2>1. p \in Splits /\ S \in Plannable(cp) /\ L \in Ways(cp, S) /\ p[2] = S \ L
    BY CutsAreWays
  <2>2. p = <<L, S \ L>>
    BY <2>1, ResultFacts
  <2> HIDE DEF S, L
  <2>3. /\ f[L] + f[S \ L] \in values(S) /\ ~Singleton(S) /\ card[S] + (f[L] + f[S \ L]) = SumOver(p, f)
        /\ L \in Plannable(cp) /\ S \ L \in Plannable(cp)
    BY <1>8, <2>1, <2>2
  <2>4. f[S] <= card[S] + (f[L] + f[S \ L])
    <3> HIDE DEF values
    <3> QED BY <1>7, <2>1, <2>3
  <2> QED BY <2>1, <2>3, <2>4 DEF S, L
<1>10. ASSUME NEW S \in Plannable(cp), ~Singleton(S)
       PROVE  \E p \in CutsOf(cp) : Result(p) = S /\ f[S] = SumOver(p, f)
  <2>1. PICK v \in values(S) : f[S] = card[S] + v
    <3> HIDE DEF values
    <3> QED BY <1>7, <1>10
  <2>2. PICK L \in Ways(cp, S) : v = f[L] + f[S \ L]
    BY <2>1
  <2>3. <<L, S \ L>> \in CutsOf(cp) /\ Result(<<L, S \ L>>) = S
    BY CutsAreWays
  <2>4. f[S] = SumOver(<<L, S \ L>>, f)
    BY <1>8, <2>1, <2>2
  <2> QED BY <2>3, <2>4
<1>11. \A S \in Subproblems : Singleton(S) => f[S] = table[S].cost
  BY <1>1
<1> HIDE DEF values
<1> QED BY <1>6, <1>9, <1>10, <1>11 DEF BestIn

(* What is left in the table when no join is left to consider. *)
LEMMA FinalPlans ==
  ASSUME TypeOK, SidesHavePlans, NEW G \in SUBSET Subproblems, NEW C, Scheme(G, C), Scan(G, C), Finished,
         NEW f, BestIn(f, G, C)
  PROVE  \A S \in G : HasPlan(S) /\ table[S].cost = f[S]
<1>0. card \in [Subproblems -> Nat] /\ table \in [Subproblems -> Entries] /\ C \in SUBSET Splits
  BY DEF TypeOK, Scheme
<1>1. ASSUME NEW p \in C PROVE Beaten(p)
  <2> SUFFICES ASSUME HasPlan(p[1]), HasPlan(p[2]) PROVE ~Waiting(p)
    BY DEF Scan, Weighed, Beaten
  <2> SUFFICES ASSUME Waiting(p) PROVE FALSE
    OBVIOUS
  <2>1. PICK k \in 1..Len(tasks) : tasks[k] \in {Join(p), Join(Swapped(p))}
    BY DEF Waiting
  <2>2. tasks[k][1] = "join" /\ HasPlan(tasks[k][2]) /\ HasPlan(tasks[k][3])
    BY <2>1 DEF Join, Swapped
  <2>3. Applies(tasks[k])
    BY <2>2 DEF Applies
  <2> QED BY <2>3 DEF Finished
<1> DEFINE Good == {S \in Subproblems : S \in G => HasPlan(S) /\ table[S].cost = f[S]}
<1>2. ASSUME NEW S \in Subproblems, \A T \in Subproblems : SizeOf[T] < SizeOf[S] => T \in Good,
             S \in G
      PROVE  HasPlan(S) /\ table[S].cost = f[S]
  <2>1. CASE Singleton(S)
    BY <2>1 DEF BestIn, HasPlan
  <2>2. CASE ~Singleton(S)
    <3>0. f[S] \in Nat /\ table[S].cost \in Nat /\ card[S] \in Nat
      BY <1>0, <1>2 DEF BestIn, Entries
    <3>1. ASSUME NEW p \in C, Result(p) = S
          PROVE  /\ HasPlan(p[1]) /\ HasPlan(p[2]) /\ table[p[1]].cost = f[p[1]] /\ table[p[2]].cost = f[p[2]]
                 /\ JoinCost(p[1], p[2]) = SumOver(p, f)
      <4>1. p \in Splits /\ p[1] \in G /\ p[2] \in G
        BY <1>0 DEF BestIn
      <4>2. p \in SplitsOf(S)
        BY <3>1, <4>1 DEF SplitsOf, Result
      <4>3. p[1] \in Good /\ p[2] \in Good
        BY <1>2, <4>2, SidesAreSmaller
      <4>4. HasPlan(p[1]) /\ HasPlan(p[2]) /\ table[p[1]].cost = f[p[1]] /\ table[p[2]].cost = f[p[2]]
        BY <4>1, <4>3
      <4> QED BY <4>4 DEF JoinCost, SumOver, Result
    <3>2. PICK p \in C : Result(p) = S /\ f[S] = SumOver(p, f)
      BY <1>2, <2>2 DEF BestIn
    <3>3. HasPlan(S) /\ table[S].cost <= f[S]
      BY <1>1, <3>1, <3>2 DEF Beaten
    <3> DEFINE l == table[S].left
               r == table[S].right
    <3>4. <<l, r>> \in C /\ table[S].cost = JoinCost(l, r) /\ l \cup r = S
      BY <2>2, <3>3 DEF HasPlan, Scan, PricedIn, SidesHavePlans
    <3> HIDE DEF l, r
    <3>5. Result(<<l, r>>) = S
      BY <3>4 DEF Result
    <3>6. table[S].cost = SumOver(<<l, r>>, f)
      BY <3>1, <3>4, <3>5
    <3>7. f[S] <= table[S].cost
      BY <3>4, <3>5, <3>6 DEF BestIn
    <3> QED BY <3>0, <3>3, <3>7
  <2> QED BY <2>1, <2>2
<1>3. ASSUME NEW S \in Subproblems, \A T \in Subproblems : SizeOf[T] < SizeOf[S] => T \in Good
      PROVE  S \in Good
  BY <1>2, <1>3
<1> HIDE DEF Good
<1>4. Hereditary(Subproblems, SizeOf, Good)
  BY <1>3 DEF Hereditary
<1>5. \A S \in Subproblems : S \in Good
  BY <1>4, SizeTyped, RankInduction
<1> QED BY <1>5 DEF Good

-----------------------------------------------------------------------------
(* The enumerators that consider a fixed sequence of all joins.            *)

InSequence    == {"PEall", "DPsize", "DPsizeOpt", "DPsizeSub", "DPsub", "DPsubOpt"}
CrossProducts == algo = "PEall"
NoPlans       == \A S \in Subproblems : table[S].left = {}

ScanInv ==
  algo \in InSequence =>
    \/ tasks = <<<<"enumerate">>>> /\ NoPlans
    \/ Scan(Plannable(CrossProducts), CutsOf(CrossProducts))

LEMMA SchemeFacts ==
  ASSUME NEW crossProducts \in BOOLEAN
  PROVE  Scheme(Plannable(crossProducts), CutsOf(crossProducts))
<1>1. CutsOf(crossProducts) \in SUBSET Splits
  BY CutsAreWays
<1>2. \A p \in CutsOf(crossProducts) : Result(p) \in Plannable(crossProducts)
  BY CutsAreWays
<1>3. \A r \in Relations : {r} \in Plannable(crossProducts)
  <2> SUFFICES ASSUME NEW r \in Relations PROVE {r} \in Plannable(crossProducts)
    OBVIOUS
  <2>1. {r} \in Subproblems /\ Linked({r})
    BY SingletonLinked DEF Subproblems
  <2> QED BY <2>1, ConnectedMeansLinked DEF Plannable
<1> QED BY <1>1, <1>2, <1>3 DEF Scheme

(* Of the joins of plannable subproblems, those considered are cuts. *)
LEMMA JoinsAreCuts ==
  ASSUME NEW crossProducts \in BOOLEAN, NEW p \in Splits, ~crossProducts => p \in JoinedSplits,
         p[1] \in Plannable(crossProducts), p[2] \in Plannable(crossProducts)
  PROVE  p \in CutsOf(crossProducts)
<1>1. ~crossProducts => Linked(p[1]) /\ Linked(p[2])
  BY ConnectedMeansLinked DEF Plannable
<1> QED BY <1>1 DEF CutsOf, ConnectedCuts

LEMMA SequenceExhausts ==
  ASSUME algo \in InSequence, NEW t \in FirstTasks
  PROVE  \E s : /\ t = Joins(s) /\ Exhausts(s, CutsOf(CrossProducts))
                /\ ~CrossProducts => s \in Seq(JoinedSplits)
<1>1. CASE algo = "PEall"
  BY <1>1, PEallExhausts DEF FirstTasks, CutsOf, CrossProducts
<1>2. CASE algo = "DPsize"
  BY <1>2, DPsizeExhausts, DPsizeFacts DEF FirstTasks, CutsOf, CrossProducts
<1>3. CASE algo = "DPsizeOpt"
  BY <1>3, DPsizeOptExhausts, DPsizeOptFacts DEF FirstTasks, CutsOf, CrossProducts
<1>4. CASE algo = "DPsizeSub"
  BY <1>4, DPsizeSubExhausts, DPsizeSubFacts DEF FirstTasks, CutsOf, CrossProducts
<1>5. CASE algo = "DPsub"
  BY <1>5, DPsubExhausts, DPsubFacts DEF FirstTasks, CutsOf, CrossProducts
<1>6. CASE algo = "DPsubOpt"
  BY <1>6, DPsubExhausts, DPsubFacts DEF FirstTasks, CutsOf, CrossProducts
<1> QED BY <1>1, <1>2, <1>3, <1>4, <1>5, <1>6 DEF InSequence

LEMMA ScanBegins ==
  ASSUME NEW G, NEW C \in SUBSET Splits, NEW s, Exhausts(s, C),
         \A i \in 1..Len(s) : s[i][1] \in G /\ s[i][2] \in G => s[i] \in C,
         NoPlans, tasks' = Joins(s), UNCHANGED table
  PROVE  Scan(G, C)'
<1>0. s \in Seq(Splits) /\ InOrder(s, Settles) /\ Covers(s, C)
  BY DEF Exhausts
<1>1. /\ Len(tasks') = Len(s) /\ tasks' \in Seq(JoinTasks)
      /\ \A i \in 1..Len(s) : tasks'[i] = Join(s[i]) /\ tasks'[i][2] = s[i][1] /\ tasks'[i][3] = s[i][2]
  <2>1. \A i \in 1..Len(s) : Join(s[i]) \in JoinTasks
    BY <1>0 DEF JoinTasks
  <2>2. Joins(s) \in Seq(JoinTasks)
    BY <1>0, <2>1, IsASeq DEF Joins
  <2> QED BY <1>0, <2>2 DEF Joins, Join
<1>2. \A i, j \in 1..Len(tasks') : i < j => (tasks'[j][2] \cup tasks'[j][3]) \notin {tasks'[i][2], tasks'[i][3]}
  <2> SUFFICES ASSUME NEW i \in 1..Len(s), NEW j \in 1..Len(s), i < j
               PROVE  (tasks'[j][2] \cup tasks'[j][3]) \notin {tasks'[i][2], tasks'[i][3]}
    BY <1>1
  <2>1. <<s[i], s[j]>> \in Settles
    BY <1>0 DEF InOrder
  <2>2. Result(s[j]) \notin {s[i][1], s[i][2]}
    BY <2>1 DEF Settles
  <2> QED BY <1>1, <2>2 DEF Result
<1>3. \A i \in 1..Len(tasks') : tasks'[i][2] \in G /\ tasks'[i][3] \in G => <<tasks'[i][2], tasks'[i][3]>> \in C
  <2> SUFFICES ASSUME NEW i \in 1..Len(s), s[i][1] \in G, s[i][2] \in G PROVE <<s[i][1], s[i][2]>> \in C
    BY <1>1
  <2>1. s[i] \in C /\ s[i] \in Splits
    OBVIOUS
  <2> QED BY <2>1, ResultFacts
<1>4. PricedIn(C)'
  BY DEF NoPlans, PricedIn
<1>5. Weighed(C)'
  <2> SUFFICES ASSUME NEW p \in C PROVE Waiting(p)'
    BY DEF Weighed
  <2>1. PICK q \in ToSet(s) : q \in {p, Swapped(p)}
    BY <1>0 DEF Covers
  <2>2. PICK i \in 1..Len(s) : q = s[i]
    BY <1>0, ToSetFacts
  <2>3. i \in 1..Len(tasks') /\ tasks'[i] \in {Join(p), Join(Swapped(p))}
    BY <1>1, <2>1, <2>2
  <2> QED BY <2>3 DEF Waiting, Join, Swapped
<1> QED BY <1>1, <1>2, <1>3, <1>4, <1>5, Zenon DEF Scan, UnionOf

(* Connectivity, with the graph as a parameter. *)
NeighborsIn(g, S)  == {v \in Relations \ S : \E u \in S : {u, v} \in g}
ReachIn(g, src, S) ==
  LET grow[k \in 0..N] ==
        IF k = 0 THEN src \cap S
        ELSE LET R == grow[k - 1] IN R \cup (NeighborsIn(g, R) \cap S)
  IN  grow[N]

LEMMA SameConnected ==
  ASSUME UNCHANGED graph
  PROVE  \A S : Connected(S)' <=> Connected(S)
<1>1. \A src, S : Reach(src, S) = ReachIn(graph, src, S)
  BY Zenon DEF Reach, ReachIn, Neighbors, NeighborsIn
<1>2. \A src, S : Reach(src, S)' = ReachIn(graph', src, S)
  BY Zenon DEF Reach, ReachIn, Neighbors, NeighborsIn
<1>3. \A src, S : Reach(src, S)' = Reach(src, S)
  BY <1>1, <1>2
<1> QED BY <1>3 DEF Connected

LEMMA SameCuts ==
  ASSUME UNCHANGED <<graph, algo>>
  PROVE  /\ Plannable(CrossProducts)' = Plannable(CrossProducts)
         /\ CutsOf(CrossProducts)' = CutsOf(CrossProducts)
<1>2. \A S : Connected(S)' <=> Connected(S)
  BY SameConnected
<1>3. \A S : Linked(S)' <=> Linked(S)
  BY SameGraph DEF Linked
<1>4. ConnectedCuts' = ConnectedCuts
  BY <1>3, SameGraph DEF ConnectedCuts
<1> QED BY <1>2, <1>4 DEF Plannable, CutsOf, CrossProducts

LEMMA ScanInvStep ==
  ASSUME OrderingInv, CommitInv, ScanInv, [OrderingNext]_orderingVars
  PROVE  ScanInv'
<1>0. TypeOK /\ SidesHavePlans /\ TasksOK /\ GraphOK
  BY DEF OrderingInv
<1> PICK G, C : G = Plannable(CrossProducts) /\ C = CutsOf(CrossProducts)
  OBVIOUS
<1>1. Scheme(G, C) /\ C \in SUBSET Splits /\ CrossProducts \in BOOLEAN
  BY SchemeFacts DEF Scheme, CrossProducts
<1>2. ASSUME UNCHANGED <<graph, algo>>, Scan(G, C)' PROVE ScanInv'
  BY <1>2, SameCuts DEF ScanInv
<1>3. CASE EnumNext /\ algo \in InSequence
  <2>0. UNCHANGED <<graph, algo>>
    BY <1>3 DEF EnumNext, Enumerate, SolveSubproblem, ConsiderJoin
  <2>1. CASE tasks = <<<<"enumerate">>>> /\ NoPlans
    <3>1. ~Finished => tasks[Next1][1] = "enumerate"
      <4>1. tasks \in Seq({<<"enumerate">>})
        BY <2>1
      <4>2. ~Finished => tasks[Next1] \in {<<"enumerate">>}
        BY <4>1, FirstApplies
      <4> QED BY <4>2
    <3>2. Enumerate
      BY <1>3, <3>1 DEF EnumNext, Enumerate, SolveSubproblem, ConsiderJoin
    <3>3. PICK s : /\ tasks' = Joins(s) /\ Exhausts(s, C)
                   /\ ~CrossProducts => s \in Seq(JoinedSplits)
      BY <1>3, <3>2, SequenceExhausts DEF Enumerate
    <3>4. ASSUME NEW i \in 1..Len(s), s[i][1] \in G, s[i][2] \in G PROVE s[i] \in C
      <4>1. s[i] \in Splits /\ (~CrossProducts => s[i] \in JoinedSplits)
        BY <3>3 DEF Exhausts
      <4> QED BY <1>1, <3>4, <4>1, JoinsAreCuts
    <3>5. Scan(G, C)'
      BY <1>1, <2>1, <3>2, <3>3, <3>4, ScanBegins DEF Enumerate
    <3> QED BY <1>2, <2>0, <3>5
  <2>2. CASE Scan(G, C)
    <3>1. ~Finished => tasks[Next1][1] = "join"
      <4>1. tasks \in Seq(JoinTasks)
        BY <2>2 DEF Scan
      <4>2. ~Finished => tasks[Next1] \in JoinTasks
        BY <4>1, FirstApplies
      <4> QED BY <4>2, JoinTaskFacts
    <3>2. ConsiderJoin
      BY <1>3, <3>1 DEF EnumNext, Enumerate, SolveSubproblem, ConsiderJoin
    <3>3. Scan(G, C)'
      BY <1>0, <1>1, <2>2, <3>2, ScanStep
    <3> QED BY <1>2, <2>0, <3>3
  <2> QED BY <1>3, <2>1, <2>2 DEF ScanInv
<1>4. CASE EnumNext /\ algo \notin InSequence
  BY <1>4 DEF EnumNext, Enumerate, SolveSubproblem, ConsiderJoin, ScanInv
<1>5. CASE SearchNext /\ UNCHANGED hs
  <2>1. algo = "TwoPhaseOptimizer" /\ algo' = algo
    BY <1>5 DEF SearchNext, Seed, Restart, Iterate, Try, Climb, EndClimb, Anneal, Propose, Accept, Commit,
       Idle, Evaluate, CommitInv
  <2> QED BY <2>1 DEF ScanInv, InSequence
<1>6. CASE HeuristicNext /\ UNCHANGED search
  <2>1. algo \in {"AStar", "HeuristicSearch"} /\ algo' = algo
    BY <1>6 DEF HeuristicNext, MaySearch, EndWith, CommitInv,
       StartSearch, Explore, ReachGoal, ExhaustBudget, FallBack
  <2> QED BY <2>1 DEF ScanInv, InSequence
<1>7. CASE UNCHANGED orderingVars
  <2>1. UNCHANGED <<graph, algo, card, table, tasks>>
    BY <1>7 DEF orderingVars, vars
  <2>2. Scan(G, C) => Scan(G, C)'
    BY <2>1 DEF Scan, PricedIn, Weighed, Open, Waiting, Beaten, HasPlan, JoinCost, UnionOf, Result, Join, Swapped
  <2>3. tasks = <<<<"enumerate">>>> /\ NoPlans => ScanInv'
    BY <2>1 DEF ScanInv, NoPlans
  <2>4. algo \notin InSequence => ScanInv'
    BY <2>1 DEF ScanInv
  <2> QED BY <1>2, <2>1, <2>2, <2>3, <2>4 DEF ScanInv
<1> QED BY <1>3, <1>4, <1>5, <1>6, <1>7, Zenon DEF OrderingNext

LEMMA ScanIsBest ==
  ASSUME OrderingInv, algo \in InSequence, Scan(Plannable(CrossProducts), CutsOf(CrossProducts))
  PROVE  BestPlans
<1> SUFFICES ASSUME Finished
             PROVE  HasPlan(All) /\ \A S \in Subproblems : HasPlan(S) =>
                      S \in DOMAIN BestCost(CrossProducts) /\ table[S].cost = BestCost(CrossProducts)[S]
  BY DEF BestPlans, CrossProducts
<1> DEFINE G == Plannable(CrossProducts)
           C == CutsOf(CrossProducts)
<1>0. TypeOK /\ SidesHavePlans /\ GraphOK /\ CrossProducts \in BOOLEAN
  BY DEF OrderingInv, CrossProducts
<1>1. Scheme(G, C) /\ G \in SUBSET Subproblems
  BY <1>0, SchemeFacts DEF Plannable
<1>2. PICK f : /\ f = [S \in Subproblems |-> BestBody(CrossProducts, S, f)]
               /\ BestCost(CrossProducts) = [S \in G |-> f[S]]
  BY <1>0, BestEquation
<1>3. BestIn(f, G, C)
  BY <1>0, <1>2, BestFacts
<1>4. \A S \in G : HasPlan(S) /\ table[S].cost = f[S]
  BY <1>0, <1>1, <1>3, FinalPlans
<1>5. All \in G
  <2>1. Linked(All) /\ All \in Subproblems
    BY <1>0, AllLinked, SubproblemsFacts
  <2> QED BY <2>1, ConnectedMeansLinked DEF Plannable
<1>6. ASSUME NEW S \in Subproblems, HasPlan(S) PROVE S \in G
  BY <1>0, <1>1, <1>6, PlannedIn DEF Scan
<1> HIDE DEF G
<1> QED BY <1>2, <1>4, <1>5, <1>6

-----------------------------------------------------------------------------
(* MinCutAGaT leaves out no cut: towards a side A, there is always a       *)
(* vertex of A to grow by that was not given up.                           *)

Grows(S, C, X, A) ==
  /\ A \in SUBSET S /\ A # S /\ C \subseteq A /\ C # {} /\ A \cap X = {}
  /\ Linked(A) /\ Linked(S \ A)
FullEntries(S, f) ==
  {e \in CutEntries(S) :
     /\ f[e] \in CutList
     /\ \A A : Grows(S, e[1], e[2], A) => <<A, S \ A>> \in ToSet(f[e])}

LEMMA RestConnectedThen ==
  ASSUME NEW S \in Subproblems, NEW C \in SUBSET S, C # S, Linked(S \ C), NEW T
  PROVE  RestConnected(S, C, T)
<1> DEFINE near == Neighbors(T) \cap (S \ C)
<1>1. near \in SUBSET Relations /\ S \ C \in Subproblems
  BY DEF Subproblems
<1>2. CASE near = {}
  <2>1. Cardinality(near) <= 1
    BY <1>2, FS_EmptySet
  <2> QED BY <2>1 DEF RestConnected
<1>3. CASE near # {}
  <2>1. Min(near) \in near
    <3> HIDE DEF near
    <3> QED BY <1>1, <1>3, MinFacts
  <2>2. Reach({Min(near)}, S \ C) = S \ C
    BY <1>1, <2>1, ReachAll
  <2>3. near \subseteq Reach({Min(near)}, S \ C)
    BY <2>2
  <2> QED BY <2>3 DEF RestConnected
<1> QED BY <1>2, <1>3

(* The next entry on the way to A. *)
LEMMA TowardsCut ==
  ASSUME NEW S \in Subproblems, NEW C \in SUBSET S, NEW X \in SUBSET S, NEW T \in SUBSET S,
         NEW A, Grows(S, C, X, A), A # C
  PROVE  \E i \in 1..Len(CutVertices(S, C, X)) :
           LET e == NextEntry(S, C, X, T, i) IN Grows(S, e[1], e[2], A)
<1> DEFINE grow == CutVertices(S, C, X)
           M == Growable(S, C, X) \cap A
<1>0. S \in SUBSET Relations /\ A \in SUBSET S
  BY DEF Subproblems, Grows
<1>1. grow \in Seq(Growable(S, C, X)) /\ ToSet(grow) = Growable(S, C, X)
  BY <1>0, CutVerticesFacts
<1>2. M \in SUBSET Relations /\ M # {}
  <2>1. C \in (SUBSET A) \ {{}, A}
    BY DEF Grows
  <2>2. Joined(C, A \ C)
    BY <2>1 DEF Grows, Linked
  <2>3. PICK v \in A \ C : v \in Neighbors(C)
    BY <2>2 DEF Joined
  <2>4. v \in Growable(S, C, X)
    BY <1>0, <2>3 DEF Growable, Grows
  <2> QED BY <1>0, <2>3, <2>4
<1> DEFINE v == Min(M)
<1>3. v \in M /\ \A y \in M : v <= y
  <2> HIDE DEF M
  <2> QED BY <1>2, MinFacts
<1> HIDE DEF v
<1>4. PICK i \in 1..Len(grow) : grow[i] = v
  BY <1>1, <1>3, ToSetFacts
<1> DEFINE e == NextEntry(S, C, X, T, i)
           Y == {u \in ToSet(grow) : u < v}
<1>5. e[1] = C \cup {v} /\ e[2] = X \cup Y
  BY <1>4 DEF NextEntry
<1>6. A \cap Y = {}
  <2> SUFFICES ASSUME NEW u \in A \cap Y PROVE FALSE
    OBVIOUS
  <2>1. u \in M /\ u < v
    BY <1>1
  <2>2. v <= u /\ u \in Nat /\ v \in Nat
    BY <1>2, <1>3, <2>1, NFacts
  <2> QED BY <2>1, <2>2
<1> HIDE DEF e, Y
<1>7. Grows(S, e[1], e[2], A)
  BY <1>3, <1>5, <1>6 DEF Grows
<1> QED BY <1>7 DEF e

LEMMA FullStep ==
  ASSUME NEW S \in Subproblems, NEW f, CutsStep(S, f),
         NEW C \in SUBSET S, NEW X \in SUBSET S, NEW T \in SUBSET S,
         \A i \in 1..Len(CutVertices(S, C, X)) : NextEntry(S, C, X, T, i) \in FullEntries(S, f)
  PROVE  <<C, X, T>> \in FullEntries(S, f)
<1> DEFINE U == (SUBSET Relations) \X (SUBSET Relations)
           a == IF RestConnected(S, C, T) THEN <<<<C, S \ C>>>> ELSE <<>>
           more == [i \in 1..Len(CutVertices(S, C, X)) |-> f[NextEntry(S, C, X, T, i)]]
           b == IF Cardinality(C) + 1 >= Cardinality(S) THEN <<>> ELSE Flatten(more)
<1>0. S \in SUBSET Relations /\ <<C, S \ C>> \in U /\ Len(CutVertices(S, C, X)) \in Nat
  BY CutVerticesFacts DEF Subproblems
<1>1. f[<<C, X, T>>] = a \o b
  BY DEF CutsStep, CutsBody
<1>2. a \in Seq(U)
  <2> HIDE DEF U
  <2> QED BY <1>0
<1>3. more \in Seq(Seq(U)) /\ Len(more) = Len(CutVertices(S, C, X))
  <2>1. \A i \in 1..Len(CutVertices(S, C, X)) : f[NextEntry(S, C, X, T, i)] \in Seq(U)
    BY DEF FullEntries, CutList
  <2> HIDE DEF U
  <2> QED BY <1>0, <2>1, IsASeq
<1>4. b \in Seq(U)
  <2> HIDE DEF more, U
  <2> QED BY <1>3, FlattenTyped
<1>5. a \o b \in Seq(U) /\ ToSet(a \o b) = ToSet(a) \cup ToSet(b)
  <2> HIDE DEF a, b, U
  <2> QED BY <1>2, <1>4, ConcatProperties, ToSetConcat
<1>6. ASSUME NEW A, Grows(S, C, X, A) PROVE <<A, S \ A>> \in ToSet(a) \cup ToSet(b)
  <2>1. CASE A = C
    <3>1. RestConnected(S, C, T)
      BY <1>6, <2>1, RestConnectedThen DEF Grows
    <3>2. a = <<<<A, S \ A>>>>
      BY <2>1, <3>1
    <3>3. <<A, S \ A>> \in ToSet(a)
      <4>1. 1 \in DOMAIN a /\ a[1] = <<A, S \ A>>
        BY <3>2
      <4> QED BY <4>1 DEF ToSet
    <3> QED BY <3>3
  <2>2. CASE A # C
    <3>1. PICK i \in 1..Len(CutVertices(S, C, X)) :
             Grows(S, NextEntry(S, C, X, T, i)[1], NextEntry(S, C, X, T, i)[2], A)
      BY <1>6, <2>2, TowardsCut
    <3>2. <<A, S \ A>> \in ToSet(f[NextEntry(S, C, X, T, i)])
      BY <3>1 DEF FullEntries
    <3>3. i \in 1..Len(more) /\ <<A, S \ A>> \in ToSet(more[i])
      BY <1>3, <3>2
    <3>4. <<A, S \ A>> \in ToSet(Flatten(more))
      <4> HIDE DEF more, U
      <4>1. ToSet(Flatten(more)) = UNION {ToSet(more[j]) : j \in 1..Len(more)}
        BY <1>3, FlattenElements
      <4> QED BY <3>3, <4>1
    <3>5. Cardinality(C) + 1 < Cardinality(S)
      <4>1. C \subseteq A /\ A \subseteq S /\ A # S
        BY <1>6 DEF Grows
      <4>2. IsFiniteSet(S) /\ IsFiniteSet(A) /\ IsFiniteSet(C)
        BY <1>0, <4>1, NFacts, FS_Subset
      <4>3. /\ Cardinality(C) <= Cardinality(A) /\ Cardinality(C) # Cardinality(A)
            /\ Cardinality(A) <= Cardinality(S) /\ Cardinality(A) # Cardinality(S)
        BY <2>2, <4>1, <4>2, FS_Subset
      <4>4. Cardinality(C) \in Nat /\ Cardinality(A) \in Nat /\ Cardinality(S) \in Nat
        BY <4>2, FS_CardinalityType
      <4> QED BY <4>3, <4>4
    <3>6. b = Flatten(more)
      <4>1. Cardinality(C) \in Nat /\ Cardinality(S) \in Nat
        BY <1>0, NFacts, FS_Subset, FS_CardinalityType
      <4>2. ~(Cardinality(C) + 1 >= Cardinality(S))
        BY <3>5, <4>1
      <4> QED BY <4>2
    <3> HIDE DEF more, b
    <3> QED BY <3>4, <3>6
  <2> QED BY <2>1, <2>2
<1> HIDE DEF a, b
<1>7. <<C, X, T>> \in CutEntries(S) /\ <<C, X, T>>[1] = C /\ <<C, X, T>>[2] = X
  BY DEF CutEntries
<1> DEFINE e == <<C, X, T>>
<1>8. f[e] \in CutList /\ \A A : Grows(S, C, X, A) => <<A, S \ A>> \in ToSet(f[e])
  BY <1>1, <1>5, <1>6 DEF CutList
<1>9. e \in CutEntries(S) /\ e[1] = C /\ e[2] = X
  BY <1>7
<1> HIDE DEF e
<1>10. e \in FullEntries(S, f)
  BY <1>8, <1>9 DEF FullEntries
<1> QED BY <1>10 DEF e

LEMMA MinCutsFull ==
  ASSUME NEW S \in Subproblems, NEW p \in SplitsOf(S), Linked(p[1]), Linked(p[2])
  PROVE  p \in ToSet(MinCuts(S)) \/ Swapped(p) \in ToSet(MinCuts(S))
<1>0. S \in SUBSET Relations /\ S # {} /\ IsFiniteSet(S)
  BY NFacts, FS_Subset DEF Subproblems
<1>1. PICK f : CutsStep(S, f) /\ MinCuts(S) = f[<<{Min(S)}, {}, {Min(S)}>>]
  BY <1>0, CutsEquation
<1> DEFINE D == CutEntries(S)
           rank == [e \in D |-> Cardinality(S) - Cardinality(e[1])]
<1>2. \A C \in SUBSET S : Cardinality(C) \in Nat /\ Cardinality(C) <= Cardinality(S)
  BY <1>0, FS_Subset, FS_CardinalityType
<1>3. \A e \in D : e[1] \in SUBSET S /\ e[2] \in SUBSET S /\ e[3] \in SUBSET S /\ e = <<e[1], e[2], e[3]>>
  BY DEF CutEntries
<1>4. rank \in [D -> Nat] /\ Cardinality(S) \in Nat
  <2>1. Cardinality(S) \in Nat
    BY <1>0, FS_CardinalityType
  <2>2. \A e \in D : Cardinality(S) - Cardinality(e[1]) \in Nat
    BY <1>2, <1>3, <2>1
  <2> QED BY <2>1, <2>2
<1>5. ASSUME NEW e \in D, \A d \in D : rank[d] < rank[e] => d \in FullEntries(S, f)
      PROVE  e \in FullEntries(S, f)
  <2> DEFINE C == e[1]
             X == e[2]
             T == e[3]
  <2>1. C \in SUBSET S /\ X \in SUBSET S /\ T \in SUBSET S /\ e = <<C, X, T>>
    BY <1>3
  <2>2. ASSUME NEW i \in 1..Len(CutVertices(S, C, X))
        PROVE  NextEntry(S, C, X, T, i) \in FullEntries(S, f)
    <3> DEFINE d == NextEntry(S, C, X, T, i)
               v == CutVertices(S, C, X)[i]
    <3>1. GrowsByOne(S, C, X, T, i)
      BY <1>0, <2>1, NextEntryFacts
    <3>2. d \in D /\ d = <<C \cup {v}, d[2], NextT(S, C, T) \cup {v}>>
          /\ Cardinality(C \cup {v}) = Cardinality(C) + 1
      BY <3>1, Zenon DEF GrowsByOne
    <3> HIDE DEF d, v
    <3>3. rank[d] = Cardinality(S) - (Cardinality(C) + 1)
      <4>1. d[1] = C \cup {v}
        BY <3>2
      <4> HIDE DEF D
      <4>2. rank[d] = Cardinality(S) - Cardinality(d[1])
        BY <3>2
      <4> QED BY <4>1, <4>2, <3>2
    <3>4. rank[e] = Cardinality(S) - Cardinality(C) /\ Cardinality(C) \in Nat
      BY <1>2, <2>1
    <3> HIDE DEF D, rank, C
    <3>5. rank[d] < rank[e]
      BY <1>4, <3>3, <3>4
    <3> QED BY <3>2, <3>5, <1>5 DEF d
  <2> HIDE DEF C, X, T
  <2>3. <<C, X, T>> \in FullEntries(S, f)
    BY <1>1, <2>1, <2>2, FullStep
  <2> QED BY <2>1, <2>3
<1> DEFINE m == Min(S)
           start == <<{m}, {}, {m}>>
<1>6. m \in S
  BY <1>0, MinFacts
<1>7. start \in D /\ start[1] = {m} /\ start[2] = {}
  BY <1>6 DEF CutEntries
<1>8. start \in FullEntries(S, f)
  <2> HIDE DEF D, rank, start
  <2>1. Hereditary(D, rank, FullEntries(S, f))
    BY <1>5 DEF Hereditary
  <2> QED BY <1>4, <1>7, <2>1, RankInduction
<1>9. MinCuts(S) = f[start]
  BY <1>1
<1> HIDE DEF start, m
<1>10. ASSUME NEW A \in SUBSET S, m \in A, A # S, Linked(A), Linked(S \ A) PROVE <<A, S \ A>> \in ToSet(MinCuts(S))
  <2>1. Grows(S, start[1], start[2], A)
    BY <1>7, <1>10 DEF Grows
  <2> QED BY <1>8, <1>9, <2>1 DEF FullEntries
<1>11. /\ p \in Splits /\ p[1] \in SUBSET S /\ p[2] \in SUBSET S /\ p[1] # S /\ p[2] # S
       /\ p[2] = S \ p[1] /\ p[1] = S \ p[2] /\ p = <<p[1], p[2]>> /\ (m \in p[1] \/ m \in p[2])
  BY <1>6 DEF SplitsOf, Splits, Subproblems
<1>12. CASE m \in p[1]
  <2>1. <<p[1], S \ p[1]>> \in ToSet(MinCuts(S))
    BY <1>10, <1>11, <1>12
  <2> QED BY <1>11, <2>1
<1>13. CASE m \in p[2]
  <2>1. <<p[2], S \ p[2]>> \in ToSet(MinCuts(S))
    BY <1>10, <1>11, <1>13
  <2> QED BY <1>11, <2>1 DEF Swapped
<1> QED BY <1>11, <1>12, <1>13

-----------------------------------------------------------------------------
(* The top-down enumerators: what solving a subproblem adds to the tasks.  *)

TopDown      == {"TDbasic", "TDMinCutAGaT"}
TDTasks(C, G) == {Join(p) : p \in C} \cup {Solve(S) : S \in G}
Prepared(s)  == \A i \in 1..Len(s) : s[i][1] = "join" =>
                  \A X \in {s[i][2], s[i][3]} : \E j \in 1..(i - 1) : s[j] = Solve(X)

LEMMA PreparedConcat ==
  ASSUME NEW T, NEW s \in Seq(T), NEW t \in Seq(T), Prepared(s), Prepared(t)
  PROVE  Prepared(s \o t)
<1> DEFINE m == Len(s)
           n == Len(t)
           c == s \o t
<1>0. m \in Nat /\ n \in Nat /\ Len(c) = m + n
  BY ConcatProperties
<1>1. \A i \in 1..(m + n) : c[i] = IF i <= m THEN s[i] ELSE t[i - m]
  BY ConcatProperties
<1> SUFFICES ASSUME NEW i \in 1..(m + n), c[i][1] = "join", NEW X \in {c[i][2], c[i][3]}
             PROVE  \E j \in 1..(i - 1) : c[j] = Solve(X)
  BY <1>0 DEF Prepared
<1> HIDE DEF c
<1>2. CASE i <= m
  <2>1. i \in 1..m /\ c[i] = s[i]
    BY <1>0, <1>1, <1>2
  <2>2. PICK j \in 1..(i - 1) : s[j] = Solve(X)
    BY <2>1 DEF Prepared
  <2>3. j \in 1..(m + n) /\ j <= m
    BY <1>0, <2>1
  <2>4. c[j] = s[j]
    BY <1>1, <2>3
  <2> QED BY <2>2, <2>4
<1>3. CASE ~(i <= m)
  <2>1. i - m \in 1..n /\ c[i] = t[i - m]
    BY <1>0, <1>1, <1>3
  <2>2. PICK j \in 1..(i - m - 1) : t[j] = Solve(X)
    BY <2>1 DEF Prepared
  <2>3. m + j \in 1..(m + n) /\ ~(m + j <= m) /\ m + j - m = j /\ m + j \in 1..(i - 1)
    BY <1>0, <2>1
  <2>4. c[m + j] = t[j]
    BY <1>1, <2>3
  <2> QED BY <2>2, <2>3, <2>4
<1> QED BY <1>2, <1>3

LEMMA PartitionFull ==
  ASSUME algo \in TopDown, NEW p \in ConnectedCuts
  PROVE  p \in ToSet(Partition(Result(p))) \/ Swapped(p) \in ToSet(Partition(Result(p)))
<1> DEFINE S == Result(p)
<1>0. /\ p \in Splits /\ S \in Subproblems /\ p \in SplitsOf(S) /\ Linked(p[1]) /\ Linked(p[2])
      /\ Swapped(p) \in SplitsOf(S) /\ Swapped(p)[1] = p[2] /\ Swapped(p)[2] = p[1]
  <2>1. p \in Splits /\ p \in SplitsOf(S)
    BY ConnectedCutsFacts
  <2>2. S \in Subproblems /\ Swapped(p) \in Splits /\ Result(Swapped(p)) = S
    BY <2>1, ResultFacts
  <2>3. Swapped(p) \in SplitsOf(S)
    BY <2>2 DEF SplitsOf, Result
  <2> QED BY <2>1, <2>2, <2>3 DEF ConnectedCuts, Swapped
<1> HIDE DEF S
<1>1. CASE algo = "TDbasic"
  <2> DEFINE F == {q \in ToSet(Dissect(S)) : Min(q[1]) < Min(q[2]) /\ Connected(q[1]) /\ Connected(q[2])}
  <2>1. Partition(S) = Within(Dissect(S), F)
    BY <1>1 DEF Partition
  <2>2. Connected(p[1]) /\ Connected(p[2])
    BY <1>0, ResultFacts, ConnectedMeansLinked
  <2>3. p \in ToSet(Dissect(S)) /\ Swapped(p) \in ToSet(Dissect(S))
    BY <1>0, DissectFull
  <2>4. p \in F \/ Swapped(p) \in F
    BY <1>0, <2>2, <2>3, MinDiffer
  <2>5. Dissect(S) \in Seq(SplitsOf(S)) /\ F \subseteq ToSet(Dissect(S))
    BY <1>0, DissectFacts
  <2> HIDE DEF F
  <2>6. ToSet(Within(Dissect(S), F)) = ToSet(Dissect(S)) \cap F
    BY <2>5, WithinFacts
  <2> QED BY <2>1, <2>4, <2>5, <2>6 DEF S
<1>2. CASE algo # "TDbasic"
  <2>1. Partition(S) = MinCuts(S)
    BY <1>2 DEF Partition
  <2> QED BY <1>0, <2>1, MinCutsFull DEF S
<1> QED BY <1>1, <1>2

LEMMA TDTaskFacts ==
  ASSUME NEW t \in TDTasks(ConnectedCuts, LinkedSets)
  PROVE  \/ /\ t[1] = "join" /\ <<t[2], t[3]>> \in ConnectedCuts /\ t = Join(<<t[2], t[3]>>)
            /\ Scope(t) = UnionOf(t) /\ UnionOf(t) \in Subproblems
            /\ t[2] \in Subproblems /\ t[3] \in Subproblems /\ t[2] \cap t[3] = {}
            /\ t[2] \subseteq UnionOf(t) /\ t[2] # UnionOf(t) /\ t[3] \subseteq UnionOf(t) /\ t[3] # UnionOf(t)
         \/ /\ t[1] = "solve" /\ t = Solve(t[2]) /\ t[2] \in LinkedSets /\ Scope(t) = t[2] /\ t[2] \in Subproblems
<1>1. CASE \E S \in LinkedSets : t = Solve(S)
  <2>1. PICK S \in LinkedSets : t = Solve(S)
    BY <1>1
  <2>2. t[1] = "solve" /\ t[2] = S /\ S \in Subproblems
    BY <2>1 DEF Solve, LinkedSets
  <2> QED BY <2>1, <2>2 DEF Scope
<1>2. CASE \E p \in ConnectedCuts : t = Join(p)
  <2>1. PICK p \in ConnectedCuts : t = Join(p)
    BY <1>2
  <2>2. t[1] = "join" /\ t[2] = p[1] /\ t[3] = p[2]
    BY <2>1 DEF Join
  <2>3. p \in Splits
    BY ConnectedCutsFacts
  <2>4. p[1] \in Subproblems /\ p[2] \in Subproblems /\ p[1] \cap p[2] = {} /\ p = <<p[1], p[2]>>
        /\ p[1] \cup p[2] \in Subproblems
    BY <2>3, ResultFacts DEF Result
  <2>5. p[1] \subseteq p[1] \cup p[2] /\ p[1] # p[1] \cup p[2] /\ p[2] \subseteq p[1] \cup p[2] /\ p[2] # p[1] \cup p[2]
    BY <2>4 DEF Subproblems
  <2>6. UnionOf(t) = p[1] \cup p[2] /\ Scope(t) = UnionOf(t)
    BY <2>2 DEF UnionOf, Scope
  <2> QED BY <2>1, <2>2, <2>4, <2>5, <2>6
<1> QED BY <1>1, <1>2 DEF TDTasks

LEMMA SubTasksFull ==
  ASSUME algo \in TopDown, NEW S \in LinkedSets, ~Singleton(S)
  PROVE  /\ SubTasks(S) \in Seq(TDTasks(ConnectedCuts, LinkedSets)) /\ Prepared(SubTasks(S))
         /\ \A t \in ToSet(SubTasks(S)) : Scope(t) \subseteq S /\ (t[1] = "join" => Scope(t) = S)
         /\ \A p \in ConnectedCuts : Result(p) = S =>
              Join(p) \in ToSet(SubTasks(S)) \/ Join(Swapped(p)) \in ToSet(SubTasks(S))
         /\ \E t \in ToSet(SubTasks(S)) : Scope(t) = S
<1> DEFINE ps == Partition(S)
           row(i) == <<Solve(ps[i][1]), Solve(ps[i][2]), Join(ps[i])>>
           T == TDTasks(ConnectedCuts, LinkedSets)
           Good == {s \in Seq(T) : Prepared(s)}
<1>0. S \in Subproblems /\ Linked(S)
  BY DEF LinkedSets
<1>1. ps \in Seq(LinkedCuts(S))
  BY PartitionFacts
<1>2. SubTasks(S) = Flatten([i \in 1..Len(ps) |-> row(i)])
  BY Zenon DEF SubTasks
<1> HIDE DEF ps
<1>3. ASSUME NEW i \in 1..Len(ps)
      PROVE  /\ row(i) \in Good
             /\ ToSet(row(i)) = {Solve(ps[i][1]), Solve(ps[i][2]), Join(ps[i])}
             /\ ps[i][1] \cup ps[i][2] = S
  <2>1. ps[i] \in LinkedCuts(S)
    BY <1>1
  <2>2. /\ ps[i] \in Splits /\ ps[i][1] \cup ps[i][2] = S /\ Linked(ps[i][1]) /\ Linked(ps[i][2])
        /\ ps[i][1] \in LinkedSets /\ ps[i][2] \in LinkedSets
    BY <2>1 DEF LinkedCuts, LinkedSets, SplitsOf, Splits
  <2>3. ps[i] \in ConnectedCuts
    <3>1. ps[i] \in JoinedSplits
      BY <1>0, <2>1, LinkedSplits DEF LinkedCuts
    <3> QED BY <2>2, <3>1 DEF ConnectedCuts
  <2> DEFINE x == Solve(ps[i][1])
             y == Solve(ps[i][2])
             z == Join(ps[i])
  <2>4. x \in T /\ y \in T /\ z \in T
    BY <2>2, <2>3 DEF TDTasks
  <2>5. x[1] # "join" /\ y[1] # "join" /\ x = Solve(z[2]) /\ y = Solve(z[3])
    BY DEF Solve, Join
  <2> HIDE DEF T, x, y, z
  <2>6. <<x, y, z>> \in Seq(T) /\ Prepared(<<x, y, z>>)
    <3>1. <<x, y, z>> \in Seq(T) /\ Len(<<x, y, z>>) = 3
      BY <2>4
    <3> DEFINE c == <<x, y, z>>
    <3>2. c[1] = x /\ c[2] = y /\ c[3] = z /\ Len(c) = 3
      OBVIOUS
    <3> HIDE DEF c
    <3>3. ASSUME NEW k \in 1..Len(c), c[k][1] = "join", NEW X \in {c[k][2], c[k][3]}
          PROVE  \E j \in 1..(k - 1) : c[j] = Solve(X)
      <4>1. k \in {1, 2, 3}
        BY <3>2
      <4>2. k = 3
        BY <2>5, <3>2, <3>3, <4>1
      <4>3. 1 \in 1..(k - 1) /\ 2 \in 1..(k - 1) /\ (X = z[2] \/ X = z[3])
        BY <3>2, <3>3, <4>2
      <4> QED BY <2>5, <3>2, <4>3
    <3>4. Prepared(c)
      BY <3>3 DEF Prepared
    <3> QED BY <3>1, <3>4 DEF c
  <2>7. ToSet(<<x, y, z>>) = {x, y, z}
    BY DEF ToSet
  <2> QED BY <2>2, <2>6, <2>7 DEF x, y, z
<1>4. Good \in SUBSET Seq(T) /\ <<>> \in Good /\ \A s, t \in Good : s \o t \in Good
  <2> HIDE DEF T
  <2>1. <<>> \in Good
    BY DEF Prepared
  <2>2. ASSUME NEW s \in Good, NEW t \in Good PROVE s \o t \in Good
    <3>1. s \in Seq(T) /\ t \in Seq(T)
      OBVIOUS
    <3> QED BY <3>1, PreparedConcat, ConcatProperties
  <2> QED BY <2>1, <2>2
<1> DEFINE rows == [i \in 1..Len(ps) |-> row(i)]
<1>5. Len(ps) \in Nat /\ rows \in Seq(Good) /\ Len(rows) = Len(ps) /\ \A i \in 1..Len(ps) : rows[i] = row(i)
  <2> HIDE DEF Good, row
  <2> QED BY <1>1, <1>3, IsASeq
<1> HIDE DEF rows, row, T
<1>6. SubTasks(S) \in Good
  <2>1. SubTasks(S) = Flatten(rows)
    BY <1>2 DEF rows
  <2> HIDE DEF Good
  <2> QED BY <1>4, <1>5, <2>1, FlattenClosed
<1>7. ToSet(SubTasks(S)) = UNION {ToSet(rows[i]) : i \in 1..Len(rows)}
  <2>1. rows \in Seq(Seq(T))
    BY <1>4, <1>5, SeqMonotonic
  <2> QED BY <1>2, <2>1, FlattenElements DEF rows
<1>8. \A t : t \in ToSet(SubTasks(S)) <=> \E i \in 1..Len(ps) : t \in {Solve(ps[i][1]), Solve(ps[i][2]), Join(ps[i])}
  <2>1. \A i \in 1..Len(ps) : ToSet(rows[i]) = {Solve(ps[i][1]), Solve(ps[i][2]), Join(ps[i])}
    BY <1>3, <1>5
  <2>2. Len(rows) = Len(ps)
    BY <1>5
  <2> HIDE DEF Good
  <2> QED BY <1>7, <2>1, <2>2
<1>9. ASSUME NEW t \in ToSet(SubTasks(S)) PROVE Scope(t) \subseteq S /\ (t[1] = "join" => Scope(t) = S)
  <2>1. PICK i \in 1..Len(ps) : t \in {Solve(ps[i][1]), Solve(ps[i][2]), Join(ps[i])}
    BY <1>8
  <2> QED BY <1>3, <2>1 DEF Solve, Join, Scope, UnionOf
<1>10. ASSUME NEW p \in ConnectedCuts, Result(p) = S
       PROVE  Join(p) \in ToSet(SubTasks(S)) \/ Join(Swapped(p)) \in ToSet(SubTasks(S))
  <2>1. PICK q \in {p, Swapped(p)} : q \in ToSet(ps)
    BY <1>10, PartitionFull DEF ps
  <2>2. PICK i \in 1..Len(ps) : q = ps[i]
    BY <1>1, <2>1, ToSetFacts
  <2>3. Join(q) \in ToSet(SubTasks(S))
    BY <1>8, <2>2
  <2> QED BY <2>1, <2>3
<1>11. \E t \in ToSet(SubTasks(S)) : Scope(t) = S
  <2>1. PICK p \in LinkedCuts(S) : TRUE
    BY <1>0, LinkedCutExists
  <2>2. p \in ConnectedCuts /\ Result(p) = S
    <3>1. p \in JoinedSplits
      BY <1>0, LinkedSplits DEF LinkedCuts
    <3> QED BY <3>1 DEF ConnectedCuts, LinkedCuts, SplitsOf, Result
  <2>3. PICK q \in {p, Swapped(p)} : Join(q) \in ToSet(SubTasks(S))
    BY <1>10, <2>2
  <2>4. Join(q)[1] = "join"
    BY DEF Join
  <2> QED BY <1>9, <2>3, <2>4
<1> QED BY <1>6, <1>9, <1>10, <1>11 DEF T

-----------------------------------------------------------------------------
(* Top-down enumeration.  The tasks are nested: what comes later is not    *)
(* about a part of what comes before.  A join comes after what gives its   *)
(* sides plans, and all joins of a subproblem come together.               *)

NestedTasks ==
  \A i, j \in 1..Len(tasks) :
    i < j /\ tasks[j][1] = "join" /\ Scope(tasks[j]) \subseteq Scope(tasks[i]) =>
      Scope(tasks[j]) = Scope(tasks[i])
Backed ==
  \A i \in 1..Len(tasks) : tasks[i][1] = "join" =>
    \A X \in {tasks[i][2], tasks[i][3]} :
      HasPlan(X) \/ \E j \in 1..(i - 1) : Scope(tasks[j]) = X
Done(p) ==
  /\ HasPlan(p[1]) /\ HasPlan(p[2]) /\ HasPlan(Result(p))
  /\ table[Result(p)].cost <= JoinCost(p[1], p[2])
  /\ ~Open(p[1]) /\ ~Open(p[2])
AllWeighed(C) ==
  \A p \in C : HasPlan(Result(p)) \/ Open(Result(p)) => Waiting(p) \/ Done(p)
InTasks(X) == \E i \in 1..Len(tasks) : Scope(tasks[i]) = X

TDScan(C, G) ==
  /\ tasks \in Seq(TDTasks(C, G))
  /\ NestedTasks /\ Backed
  /\ PricedIn(C) /\ AllWeighed(C)
  /\ HasPlan(All) \/ InTasks(All)

(* Tasks that do not apply any more are subproblems that have been solved. *)
LEMMA SolvedBefore ==
  ASSUME algo \in TopDown, TDScan(ConnectedCuts, LinkedSets), NEW m \in 0..Len(tasks), \A j \in 1..m : ~Applies(tasks[j])
  PROVE  \A j \in 1..m : tasks[j][1] = "solve" /\ HasPlan(Scope(tasks[j]))
<1> DEFINE Good == {k \in 0..m : \A j \in 1..k : tasks[j][1] = "solve" /\ HasPlan(Scope(tasks[j]))}
<1>0. tasks \in Seq(TDTasks(ConnectedCuts, LinkedSets)) /\ Len(tasks) \in Nat /\ m \in Nat
  BY DEF TDScan
<1>1. 0 \in Good
  BY <1>0
<1>2. ASSUME NEW k \in 1..m, k - 1 \in Good PROVE k \in Good
  <2>0. k \in 1..Len(tasks) /\ ~Applies(tasks[k]) /\ k \in 0..m
    BY <1>0
  <2>1. \A j \in 1..(k - 1) : tasks[j][1] = "solve" /\ HasPlan(Scope(tasks[j]))
    BY <1>2
  <2>2. tasks[k][1] # "join"
    <3> SUFFICES ASSUME tasks[k][1] = "join" PROVE FALSE
      OBVIOUS
    <3>2. Applies(tasks[k])
      BY DEF Applies, TopDown, TestsPlans
    <3> QED BY <2>0, <3>2
  <2>3. tasks[k][1] = "solve" /\ Scope(tasks[k]) = tasks[k][2]
    <3>1. tasks[k] \in TDTasks(ConnectedCuts, LinkedSets)
      BY <1>0, <2>0
    <3> QED BY <2>2, <3>1, TDTaskFacts
  <2>4. HasPlan(Scope(tasks[k]))
    BY <2>0, <2>3 DEF Applies
  <2>5. \A j \in 1..k : j = k \/ j \in 1..(k - 1)
    BY <2>0
  <2> QED BY <2>0, <2>1, <2>3, <2>4, <2>5
<1> HIDE DEF Good
<1>3. Inductive(m, Good)
  BY <1>1, <1>2 DEF Inductive
<1>4. \A k \in 0..m : k \in Good
  BY <1>0, <1>3, UpTo
<1>5. m \in Good
  BY <1>0, <1>4
<1> QED BY <1>5 DEF Good

LEMMA TDJoinStep ==
  ASSUME TypeOK, SidesHavePlans, TasksOK, algo \in TopDown, NEW C, NEW G, C = ConnectedCuts, G = LinkedSets,
         TDScan(C, G), ConsiderJoin
  PROVE  TDScan(C, G)'
<1> DEFINE n == Next1
<1>a. PICK L, R : L = tasks[n][2] /\ R = tasks[n][3]
  OBVIOUS
<1> DEFINE S == L \cup R
<1>0. tasks \in Seq(TDTasks(C, G)) /\ Len(tasks) \in Nat /\ PricedIn(C) /\ AllWeighed(C) /\ C \in SUBSET Splits
  BY ConnectedCutsFacts DEF TDScan
<1>1. ~Finished /\ Update(L, R) /\ tasks' = Rest /\ tasks[n][1] \in {"join", "visit"}
  BY <1>a DEF ConsiderJoin
<1>2. /\ n \in 1..Len(tasks) /\ tasks[n] \in TDTasks(C, G) /\ Applies(tasks[n])
      /\ \A j \in 1..(n - 1) : ~Applies(tasks[j])
      /\ Rest \in Seq(TDTasks(C, G)) /\ Len(Rest) = Len(tasks) - n
      /\ \A i \in 1..Len(Rest) : n + i \in 1..Len(tasks) /\ Rest[i] = tasks[n + i]
  BY <1>0, <1>1, FirstApplies
<1>3. /\ tasks[n][1] = "join" /\ L \in Subproblems /\ R \in Subproblems /\ L \cap R = {}
      /\ <<L, R>> \in C /\ Scope(tasks[n]) = S
      /\ UnionOf(tasks[n]) = S /\ S \in Subproblems /\ L \subseteq S /\ R \subseteq S /\ S # L /\ S # R
  BY <1>a, <1>1, <1>2, TDTaskFacts DEF UnionOf
<1>4. \A j \in 1..(n - 1) : tasks[j][1] = "solve" /\ HasPlan(Scope(tasks[j]))
  <2>1. n - 1 \in 0..Len(tasks)
    BY <1>2
  <2> QED BY <1>2, <2>1, SolvedBefore
<1>5. HasPlan(L) /\ HasPlan(R)
  BY <1>a, <1>1, ConsideredJoin DEF May
<1>6. /\ TypeOK' /\ card' = card
      /\ \A X \in Subproblems : X # S => table'[X] = table[X] /\ (HasPlan(X)' <=> HasPlan(X))
      /\ \A X \in Subproblems : HasPlan(X) => HasPlan(X)' /\ table'[X].cost <= table[X].cost
      /\ HasPlan(S)' /\ table'[S].cost <= JoinCost(L, R)
      /\ table'[S] = Entry(L, R) \/ table'[S] = table[S]
  BY <1>1, <1>3, UpdateFacts
<1>k. \A i \in 1..Len(Rest) : n + i \in 1..Len(tasks) /\ n < n + i
  BY <1>2
<1>t. \A k \in 1..Len(tasks) : n < k => k - n \in 1..Len(Rest) /\ Rest[k - n] = tasks[k]
  <2> SUFFICES ASSUME NEW k \in 1..Len(tasks), n < k PROVE k - n \in 1..Len(Rest) /\ Rest[k - n] = tasks[k]
    OBVIOUS
  <2>1. k - n \in 1..Len(Rest) /\ n + (k - n) = k
    BY <1>0, <1>2
  <2> QED BY <1>2, <2>1
<1>7. Open(S)
  BY <1>2, <1>3 DEF Open
<1> HIDE DEF n, S
<1>8. \A X : Open(X)' => Open(X)
  <2> SUFFICES ASSUME NEW X, Open(X)' PROVE Open(X)
    OBVIOUS
  <2>1. PICK i \in 1..Len(Rest) : Rest[i][1] = "join" /\ UnionOf(Rest[i]) = X
    BY <1>1 DEF Open, UnionOf
  <2>2. n + i \in 1..Len(tasks) /\ tasks[n + i][1] = "join" /\ UnionOf(tasks[n + i]) = X
    BY <1>2, <2>1
  <2> QED BY <2>2 DEF Open
<1>9. ASSUME NEW X \in {L, R} PROVE ~Open(X)'
  <2> SUFFICES ASSUME Open(X)' PROVE FALSE
    OBVIOUS
  <2>1. PICK j \in 1..Len(Rest) : Rest[j][1] = "join" /\ UnionOf(Rest[j]) = X
    BY <1>1 DEF Open, UnionOf
  <2>2. n + j \in 1..Len(tasks) /\ n < n + j /\ tasks[n + j][1] = "join" /\ Scope(tasks[n + j]) = X
    BY <1>2, <1>k, <2>1 DEF Scope
  <2>3. X \subseteq S /\ X # S
    BY <1>3
  <2> QED BY <1>2, <1>3, <2>2, <2>3 DEF TDScan, NestedTasks
<1>10. tasks' \in Seq(TDTasks(C, G)) /\ NestedTasks'
  <2>1. ASSUME NEW i \in 1..Len(Rest), NEW j \in 1..Len(Rest), i < j, Rest[j][1] = "join",
               Scope(Rest[j]) \subseteq Scope(Rest[i])
        PROVE  Scope(Rest[j]) = Scope(Rest[i])
    <3>1. n + i \in 1..Len(tasks) /\ n + j \in 1..Len(tasks) /\ n + i < n + j
      BY <1>2, <2>1
    <3>2. PICK a \in 1..Len(tasks), b \in 1..Len(tasks) : a < b /\ tasks[a] = Rest[i] /\ tasks[b] = Rest[j]
      BY <1>2, <3>1
    <3>3. tasks[b][1] = "join" /\ Scope(tasks[b]) \subseteq Scope(tasks[a])
      BY <2>1, <3>2
    <3>4. Scope(tasks[b]) = Scope(tasks[a])
      BY <3>2, <3>3 DEF TDScan, NestedTasks
    <3> QED BY <3>2, <3>4
  <2> QED BY <1>1, <1>2, <2>1 DEF NestedTasks
<1>11. Backed'
  <2> SUFFICES ASSUME NEW i \in 1..Len(Rest), Rest[i][1] = "join", NEW X \in {Rest[i][2], Rest[i][3]},
                      \A j \in 1..(i - 1) : Scope(Rest[j]) # X
               PROVE  HasPlan(X)'
    BY <1>1 DEF Backed
  <2>1. n + i \in 1..Len(tasks) /\ tasks[n + i] = Rest[i] /\ tasks[n + i] \in TDTasks(C, G)
    BY <1>0, <1>2
  <2>2. X \in Subproblems
    BY <2>1, TDTaskFacts
  <2>3. HasPlan(X) \/ \E j \in 1..(n + i - 1) : Scope(tasks[j]) = X
    <3>1. PICK k \in 1..Len(tasks) : k = n + i /\ tasks[k] = Rest[i]
      BY <2>1
    <3>2. tasks[k][1] = "join" /\ X \in {tasks[k][2], tasks[k][3]}
      BY <3>1
    <3>3. HasPlan(X) \/ \E j \in 1..(k - 1) : Scope(tasks[j]) = X
      BY <3>2 DEF TDScan, Backed
    <3>4. k - 1 = n + i - 1
      BY <1>2, <3>1
    <3> QED BY <3>3, <3>4
  <2>4. ASSUME NEW j \in 1..(n + i - 1), Scope(tasks[j]) = X PROVE HasPlan(X) \/ X = S
    <3>1. j \in 1..Len(tasks)
      BY <1>0, <1>2, <2>1
    <3>2. CASE n < j
      <4>1. j - n \in 1..(i - 1) /\ Rest[j - n] = tasks[j]
        BY <1>0, <1>2, <1>t, <3>1, <3>2
      <4> QED BY <2>4, <4>1
    <3>3. CASE j = n
      BY <1>3, <2>4, <3>3
    <3>4. CASE ~(n < j) /\ j # n
      <4>1. j \in 1..(n - 1)
        BY <1>2, <3>1, <3>4
      <4> QED BY <1>4, <2>4, <4>1
    <3> QED BY <3>2, <3>3, <3>4
  <2> QED BY <1>6, <2>2, <2>3, <2>4
<1>12. PricedIn(C)'
  <2> SUFFICES ASSUME NEW X \in Subproblems, NEW l, NEW r, l = table'[X].left, r = table'[X].right, l # {}
               PROVE  /\ <<l, r>> \in C /\ table'[X].cost = card'[l \cup r] + table'[l].cost + table'[r].cost
                      /\ ~Open(l)' /\ ~Open(r)'
    BY DEF PricedIn, JoinCost
  <2>1. CASE table'[X] = table[X]
    <3>1. /\ <<l, r>> \in C /\ table[X].cost = card[l \cup r] + table[l].cost + table[r].cost
          /\ ~Open(l) /\ ~Open(r)
      BY <1>0, <2>1 DEF PricedIn, JoinCost
    <3>2. l \in Subproblems /\ r \in Subproblems /\ l # S /\ r # S
      BY <1>0, <1>7, <3>1 DEF Splits
    <3>3. table'[l] = table[l] /\ table'[r] = table[r] /\ card' = card
      BY <1>6, <3>2
    <3> QED BY <1>8, <2>1, <3>1, <3>3
  <2>2. CASE table'[X] # table[X]
    <3>1. X = S /\ table'[S] = Entry(L, R)
      BY <1>6, <2>2
    <3>2. l = L /\ r = R /\ table'[X].cost = card[L \cup R] + table[L].cost + table[R].cost
      BY <3>1 DEF Entry, JoinCost
    <3>3. table'[L] = table[L] /\ table'[R] = table[R] /\ card' = card
      BY <1>3, <1>6
    <3>4. ~Open(l)' /\ ~Open(r)'
      BY <1>9, <3>2
    <3> QED BY <1>3, <3>2, <3>3, <3>4
  <2> QED BY <2>1, <2>2
<1>13. AllWeighed(C)'
  <2> SUFFICES ASSUME NEW p \in C, NEW q, q = Result(p), HasPlan(q)' \/ Open(q)', ~Waiting(p)'
               PROVE  /\ HasPlan(p[1])' /\ HasPlan(p[2])' /\ HasPlan(q)'
                      /\ table'[q].cost <= card'[q] + table'[p[1]].cost + table'[p[2]].cost
                      /\ ~Open(p[1])' /\ ~Open(p[2])'
    BY DEF AllWeighed, Done, JoinCost, Result
  <2>0. /\ p \in Splits /\ p[1] \in Subproblems /\ p[2] \in Subproblems /\ q \in Subproblems
        /\ Swapped(p)[1] = p[2] /\ Swapped(p)[2] = p[1] /\ q = p[1] \cup p[2]
    BY <1>0, ResultFacts DEF Swapped, Result
  <2>1. HasPlan(q) \/ Open(q)
    BY <1>6, <1>7, <1>8, <2>0
  <2>2. Waiting(p) \/ Done(p)
    BY <1>0, <2>1 DEF AllWeighed
  <2>3. CASE Waiting(p)
    <3>1. PICK k \in 1..Len(tasks) : tasks[k] \in {Join(p), Join(Swapped(p))}
      BY <2>3 DEF Waiting
    <3>2. {tasks[k][2], tasks[k][3]} = {p[1], p[2]} /\ tasks[k][1] = "join"
      BY <2>0, <3>1 DEF Join
    <3>3. ~(n < k)
      <4> SUFFICES ASSUME n < k PROVE FALSE
        OBVIOUS
      <4>1. k - n \in 1..Len(Rest) /\ Rest[k - n] = tasks[k]
        BY <1>t
      <4>2. Waiting(p)'
        BY <1>1, <3>1, <4>1 DEF Waiting, Join, Swapped
      <4> QED BY <4>2
    <3>4. k = n
      <4>1. k = n \/ k \in 1..(n - 1)
        BY <1>2, <3>3
      <4> QED BY <1>4, <3>2, <4>1
    <3>5. (L = p[1] /\ R = p[2]) \/ (L = p[2] /\ R = p[1])
      BY <1>a, <3>2, <3>4 DEF n
    <3>6. q = S
      BY <2>0, <3>5 DEF S
    <3>7. table'[L] = table[L] /\ table'[R] = table[R] /\ HasPlan(L)' /\ HasPlan(R)' /\ card' = card
      BY <1>3, <1>5, <1>6
    <3>8. JoinCost(L, R) = card'[S] + table'[L].cost + table'[R].cost
      BY <3>7 DEF JoinCost, S
    <3>9. card'[S] \in Nat /\ table'[L].cost \in Nat /\ table'[R].cost \in Nat
      BY <1>3, <1>6 DEF TypeOK, Entries
    <3>10. JoinCost(L, R) = card'[S] + table'[p[1]].cost + table'[p[2]].cost
      <4>1. CASE L = p[1] /\ R = p[2]
        BY <3>8, <4>1
      <4>2. CASE L = p[2] /\ R = p[1]
        <5>1. \A a, b, d \in Nat : a + b + d = a + d + b
          OBVIOUS
        <5> QED BY <3>8, <3>9, <4>2, <5>1
      <4> QED BY <3>5, <4>1, <4>2
    <3> QED BY <1>6, <1>9, <3>5, <3>6, <3>7, <3>10
  <2>4. CASE Done(p)
    <3>1. /\ HasPlan(p[1]) /\ HasPlan(p[2]) /\ HasPlan(q) /\ ~Open(p[1]) /\ ~Open(p[2])
          /\ table[q].cost <= card[q] + table[p[1]].cost + table[p[2]].cost
      BY <2>0, <2>4 DEF Done, JoinCost
    <3>2. p[1] # S /\ p[2] # S /\ ~Open(p[1])' /\ ~Open(p[2])'
      BY <1>7, <1>8, <3>1
    <3>3. /\ table'[p[1]] = table[p[1]] /\ table'[p[2]] = table[p[2]] /\ card' = card
          /\ HasPlan(p[1])' /\ HasPlan(p[2])' /\ HasPlan(q)' /\ table'[q].cost <= table[q].cost
      BY <1>6, <2>0, <3>1, <3>2
    <3>4. /\ card[q] \in Nat /\ table[p[1]].cost \in Nat /\ table[p[2]].cost \in Nat
          /\ table[q].cost \in Nat /\ table'[q].cost \in Nat
      BY <1>6, <2>0 DEF TypeOK, Entries
    <3> QED BY <3>1, <3>2, <3>3, <3>4
  <2> QED BY <2>2, <2>3, <2>4
<1>14. HasPlan(All)' \/ InTasks(All)'
  <2>0. All \in Subproblems
    BY SubproblemsFacts
  <2>1. HasPlan(All) => HasPlan(All)'
    BY <1>6, <2>0 DEF All
  <2>2. ASSUME NEW i \in 1..Len(tasks), Scope(tasks[i]) = All PROVE HasPlan(All)' \/ InTasks(All)'
    <3>1. CASE n < i
      <4>1. i - n \in 1..Len(tasks') /\ Scope(tasks'[i - n]) = All
        BY <1>1, <1>t, <2>2, <3>1
      <4> QED BY <4>1 DEF InTasks, All
    <3>2. CASE i = n
      <4>1. All = S
        BY <1>3, <2>2, <3>2
      <4> QED BY <1>6, <4>1 DEF HasPlan, All
    <3>3. CASE ~(n < i) /\ i # n
      <4>1. i \in 1..(n - 1)
        BY <1>2, <3>3
      <4> QED BY <1>4, <2>1, <2>2, <4>1
    <3> QED BY <3>1, <3>2, <3>3
  <2> QED BY <2>1, <2>2 DEF TDScan, InTasks
<1> QED BY <1>10, <1>11, <1>12, <1>13, <1>14, Zenon DEF TDScan

(* Solving a subproblem puts its parts and its joins in front.             *)
LEMMA TDSolveStep ==
  ASSUME TypeOK, SidesHavePlans, algo \in TopDown, NEW C, NEW G, C = ConnectedCuts, G = LinkedSets,
         TDScan(C, G), SolveSubproblem
  PROVE  TDScan(C, G)'
<1> PICK n : n = Next1
  OBVIOUS
<1> PICK T : T = tasks[n][2]
  OBVIOUS
<1> PICK sub : sub = SubTasks(T)
  OBVIOUS
<1> PICK rest : rest = Rest
  OBVIOUS
<1> DEFINE m == Len(sub)
           c == tasks'
<1>0. tasks \in Seq(TDTasks(C, G)) /\ Len(tasks) \in Nat /\ PricedIn(C) /\ AllWeighed(C) /\ C \in SUBSET Splits
  BY ConnectedCutsFacts DEF TDScan
<1>1. ~Finished /\ c = sub \o rest /\ tasks[n][1] = "solve" /\ UNCHANGED <<card, table>>
  BY DEF SolveSubproblem
<1>2. /\ n \in 1..Len(tasks) /\ tasks[n] \in TDTasks(C, G) /\ Applies(tasks[n])
      /\ \A j \in 1..(n - 1) : ~Applies(tasks[j])
      /\ rest \in Seq(TDTasks(C, G)) /\ Len(rest) = Len(tasks) - n
      /\ \A i \in 1..Len(rest) : n + i \in 1..Len(tasks) /\ rest[i] = tasks[n + i]
  BY <1>0, <1>1, FirstApplies
<1>3. T \in LinkedSets /\ T \in Subproblems /\ Scope(tasks[n]) = T /\ ~HasPlan(T) /\ ~Singleton(T)
  <2>1. T \in LinkedSets /\ T \in Subproblems /\ Scope(tasks[n]) = T
    BY <1>1, <1>2, TDTaskFacts
  <2>2. ~HasPlan(T)
    BY <1>1, <1>2 DEF Applies
  <2> QED BY <2>1, <2>2 DEF HasPlan
<1>4. /\ sub \in Seq(TDTasks(C, G)) /\ Prepared(sub)
      /\ \A t \in ToSet(sub) : Scope(t) \subseteq T /\ (t[1] = "join" => Scope(t) = T)
      /\ \A p \in C : Result(p) = T => Join(p) \in ToSet(sub) \/ Join(Swapped(p)) \in ToSet(sub)
      /\ \E t \in ToSet(sub) : Scope(t) = T
  BY <1>3, SubTasksFull
<1>5. \A j \in 1..(n - 1) : tasks[j][1] = "solve" /\ HasPlan(Scope(tasks[j]))
  <2>1. n - 1 \in 0..Len(tasks)
    BY <1>2
  <2> QED BY <1>2, <2>1, SolvedBefore
<1>6. /\ m \in Nat /\ Len(rest) \in Nat /\ Len(c) = m + Len(rest) /\ c \in Seq(TDTasks(C, G))
      /\ \A i \in 1..(m + Len(rest)) : c[i] = IF i <= m THEN sub[i] ELSE rest[i - m]
  <2>1. m \in Nat /\ Len(rest) \in Nat
    BY <1>2, <1>4
  <2>2. sub \o rest \in Seq(TDTasks(C, G)) /\ Len(sub \o rest) = m + Len(rest)
    <3>1. PICK Q : Q = TDTasks(C, G) /\ sub \in Seq(Q) /\ rest \in Seq(Q)
      BY <1>2, <1>4
    <3>2. sub \o rest \in Seq(Q) /\ Len(sub \o rest) = m + Len(rest)
      BY <3>1, ConcatProperties
    <3> QED BY <3>1, <3>2
  <2>3. \A i \in 1..(m + Len(rest)) : (sub \o rest)[i] = IF i <= m THEN sub[i] ELSE rest[i - m]
    BY <1>2, <1>4, ConcatProperties
  <2> QED BY <1>1, <2>1, <2>2, <2>3, Zenon
<1>7. \A i \in 1..m : i \in 1..Len(c) /\ c[i] = sub[i] /\ sub[i] \in ToSet(sub)
  <2>1. \A i \in 1..m : sub[i] \in ToSet(sub)
    BY <1>4, ToSetFacts
  <2> QED BY <1>6, <2>1
<1>8. \A t \in ToSet(sub) : \E i \in 1..m : c[i] = t
  <2> SUFFICES ASSUME NEW t \in ToSet(sub) PROVE \E i \in 1..m : c[i] = t
    OBVIOUS
  <2>1. PICK i \in 1..m : t = sub[i]
    BY <1>4, ToSetFacts
  <2> QED BY <1>7, <2>1
<1>h. \A X : HasPlan(X)' <=> HasPlan(X)
  BY <1>1 DEF HasPlan
<1>9. \A k \in 1..Len(tasks) : n < k => m + (k - n) \in 1..Len(c) /\ c[m + (k - n)] = tasks[k]
  <2> SUFFICES ASSUME NEW k \in 1..Len(tasks), n < k
               PROVE  m + (k - n) \in 1..Len(c) /\ c[m + (k - n)] = tasks[k]
    OBVIOUS
  <2>1. k - n \in 1..Len(rest) /\ n + (k - n) = k
    BY <1>0, <1>2
  <2>2. rest[k - n] = tasks[k]
    BY <1>2, <2>1
  <2>3. m + (k - n) \in 1..Len(c) /\ ~(m + (k - n) <= m) /\ (m + (k - n)) - m = k - n
    BY <1>6, <2>1
  <2> QED BY <1>6, <2>2, <2>3
<1>10. \A i \in 1..Len(c) : ~(i <= m) => \E k \in 1..Len(tasks) : k = n + (i - m) /\ n < k /\ c[i] = tasks[k]
  <2> SUFFICES ASSUME NEW i \in 1..Len(c), ~(i <= m)
               PROVE  \E k \in 1..Len(tasks) : k = n + (i - m) /\ n < k /\ c[i] = tasks[k]
    OBVIOUS
  <2>1. i - m \in 1..Len(rest) /\ i \in 1..(m + Len(rest))
    BY <1>6
  <2>2. c[i] = rest[i - m]
    BY <1>6, <2>1
  <2>3. PICK h \in 1..Len(rest) : h = i - m
    BY <2>1
  <2>4. n + h \in 1..Len(tasks) /\ rest[h] = tasks[n + h]
    BY <1>2
  <2>5. n < n + h
    BY <1>2
  <2> QED BY <2>2, <2>3, <2>4, <2>5
<1> HIDE DEF c, m
<1>o. \A X : Open(X)' => Open(X) \/ X = T
  <2> SUFFICES ASSUME NEW X, Open(X)' PROVE Open(X) \/ X = T
    OBVIOUS
  <2>1. PICK i \in 1..Len(c) : c[i][1] = "join" /\ Scope(c[i]) = X
    BY DEF Open, UnionOf, Scope, c
  <2>2. CASE i <= m
    <3>1. i \in 1..m
      BY <1>6, <2>2
    <3>2. c[i] \in ToSet(sub)
      BY <1>7, <3>1
    <3> QED BY <1>4, <2>1, <3>2
  <2>3. CASE ~(i <= m)
    <3>1. PICK k \in 1..Len(tasks) : c[i] = tasks[k]
      BY <1>10, <2>3
    <3> QED BY <2>1, <3>1 DEF Open, Scope
  <2> QED BY <2>2, <2>3
<1>11. NestedTasks'
  <2> SUFFICES ASSUME NEW i \in 1..Len(c), NEW j \in 1..Len(c), i < j, c[j][1] = "join",
                      Scope(c[j]) \subseteq Scope(c[i])
               PROVE  Scope(c[j]) = Scope(c[i])
    BY DEF NestedTasks, Scope, UnionOf, c
  <2>1. CASE j <= m
    <3>1. i \in 1..m /\ j \in 1..m
      BY <1>6, <2>1
    <3>2. c[i] \in ToSet(sub) /\ c[j] \in ToSet(sub)
      BY <1>7, <3>1
    <3> QED BY <1>4, <3>2
  <2>2. CASE i <= m /\ ~(j <= m)
    <3>1. i \in 1..m
      BY <1>6, <2>2
    <3>2. Scope(c[i]) \subseteq T
      BY <1>4, <1>7, <3>1
    <3>3. PICK b \in 1..Len(tasks) : n < b /\ c[j] = tasks[b]
      BY <1>10, <2>2
    <3>4. tasks[b][1] = "join" /\ Scope(tasks[b]) \subseteq Scope(tasks[n])
      BY <1>3, <3>2, <3>3
    <3>5. Scope(tasks[b]) = Scope(tasks[n])
      BY <1>2, <3>3, <3>4 DEF TDScan, NestedTasks
    <3> QED BY <1>3, <3>2, <3>3, <3>5
  <2>3. CASE ~(i <= m) /\ ~(j <= m)
    <3>1. PICK a \in 1..Len(tasks) : a = n + (i - m) /\ c[i] = tasks[a]
      BY <1>10, <2>3
    <3>2. PICK b \in 1..Len(tasks) : b = n + (j - m) /\ c[j] = tasks[b]
      BY <1>10, <2>3
    <3>3. a < b
      BY <1>2, <1>6, <3>1, <3>2
    <3>4. tasks[b][1] = "join" /\ Scope(tasks[b]) \subseteq Scope(tasks[a])
      BY <3>1, <3>2
    <3>5. Scope(tasks[b]) = Scope(tasks[a])
      BY <3>3, <3>4 DEF TDScan, NestedTasks
    <3> QED BY <3>1, <3>2, <3>5
  <2> QED BY <1>6, <2>1, <2>2, <2>3
<1>12. Backed'
  <2> SUFFICES ASSUME NEW i \in 1..Len(c), c[i][1] = "join", NEW X \in {c[i][2], c[i][3]}
               PROVE  HasPlan(X) \/ \E j \in 1..(i - 1) : Scope(c[j]) = X
    <3>1. \A i \in 1..Len(c) : c[i][1] = "join" =>
            \A X \in {c[i][2], c[i][3]} : HasPlan(X)' \/ \E j \in 1..(i - 1) : Scope(c[j]) = X
      BY <1>h
    <3> QED BY <3>1 DEF Backed, Scope, UnionOf, c
  <2>1. CASE i <= m
    <3>1. i \in 1..m
      BY <1>6, <2>1
    <3>2. sub[i][1] = "join" /\ X \in {sub[i][2], sub[i][3]}
      BY <1>7, <3>1
    <3>3. PICK j \in 1..(i - 1) : sub[j] = Solve(X)
      BY <1>4, <3>1, <3>2 DEF Prepared, m
    <3>4. j \in 1..m
      BY <1>6, <3>1
    <3>5. Scope(c[j]) = X
      BY <1>7, <3>3, <3>4 DEF Scope, Solve
    <3> QED BY <3>5
  <2>2. CASE ~(i <= m)
    <3>1. PICK k \in 1..Len(tasks) : k = n + (i - m) /\ c[i] = tasks[k]
      BY <1>10, <2>2
    <3>2. tasks[k][1] = "join" /\ X \in {tasks[k][2], tasks[k][3]}
      BY <3>1
    <3>3. HasPlan(X) \/ \E j \in 1..(k - 1) : Scope(tasks[j]) = X
      BY <3>2 DEF TDScan, Backed
    <3>4. ASSUME NEW j \in 1..(k - 1), Scope(tasks[j]) = X
          PROVE  HasPlan(X) \/ \E h \in 1..(i - 1) : Scope(c[h]) = X
      <4>1. CASE n < j
        <5>1. j \in 1..Len(tasks)
          BY <1>0, <3>1
        <5>2. c[m + (j - n)] = tasks[j]
          BY <1>9, <4>1, <5>1
        <5>3. m + (j - n) \in 1..(i - 1)
          BY <1>2, <1>6, <3>1, <4>1
        <5> QED BY <3>4, <5>2, <5>3
      <4>2. CASE j = n
        <5>1. PICK t \in ToSet(sub) : Scope(t) = T
          BY <1>4
        <5>2. PICK h \in 1..m : c[h] = t
          BY <1>8
        <5>3. h \in 1..(i - 1)
          BY <1>6, <2>2
        <5> QED BY <1>3, <3>4, <4>2, <5>1, <5>2, <5>3
      <4>3. CASE ~(n < j) /\ j # n
        <5>1. j \in 1..(n - 1)
          BY <1>2, <3>1, <4>3
        <5> QED BY <1>5, <3>4, <5>1
      <4> QED BY <4>1, <4>2, <4>3
    <3> QED BY <3>3, <3>4
  <2> QED BY <2>1, <2>2
<1>13. PricedIn(C)'
  <2> SUFFICES ASSUME NEW X \in Subproblems, NEW l, NEW r, l = table'[X].left, r = table'[X].right, l # {}
               PROVE  /\ <<l, r>> \in C /\ table'[X].cost = card'[l \cup r] + table'[l].cost + table'[r].cost
                      /\ ~Open(l)' /\ ~Open(r)'
    BY DEF PricedIn, JoinCost
  <2>1. <<l, r>> \in C /\ table[X].cost = card[l \cup r] + table[l].cost + table[r].cost /\ ~Open(l) /\ ~Open(r)
    BY <1>0, <1>1 DEF PricedIn, JoinCost
  <2>2. HasPlan(l) /\ HasPlan(r)
    BY <1>1 DEF SidesHavePlans
  <2> QED BY <1>1, <1>3, <1>o, <2>1, <2>2
<1>14. AllWeighed(C)'
  <2> SUFFICES ASSUME NEW p \in C, HasPlan(Result(p)) \/ Open(Result(p))', ~Waiting(p)'
               PROVE  Done(p)'
    BY <1>1 DEF AllWeighed, HasPlan, Result
  <2>1. ASSUME NEW i \in 1..Len(c) PROVE c[i] \notin {Join(p), Join(Swapped(p))}
    BY DEF Waiting, Join, Swapped, c
  <2>2. Result(p) # T
    <3> SUFFICES ASSUME Result(p) = T PROVE FALSE
      OBVIOUS
    <3>1. PICK t \in ToSet(sub) : t \in {Join(p), Join(Swapped(p))}
      BY <1>4
    <3>2. PICK i \in 1..m : c[i] = t
      BY <1>8
    <3> QED BY <1>7, <2>1, <3>1, <3>2
  <2>3. HasPlan(Result(p)) \/ Open(Result(p))
    BY <1>o, <2>2
  <2>4. ~Waiting(p)
    <3> SUFFICES ASSUME Waiting(p) PROVE FALSE
      OBVIOUS
    <3>1. PICK k \in 1..Len(tasks) : tasks[k] \in {Join(p), Join(Swapped(p))}
      BY DEF Waiting
    <3>2. tasks[k][1] = "join"
      BY <3>1 DEF Join
    <3>3. n < k
      <4>1. n < k \/ k = n \/ k \in 1..(n - 1)
        BY <1>2
      <4> QED BY <1>1, <1>5, <3>2, <4>1
    <3>4. m + (k - n) \in 1..Len(c) /\ c[m + (k - n)] = tasks[k]
      BY <1>9, <3>3
    <3> QED BY <2>1, <3>1, <3>4
  <2>5. Done(p)
    BY <1>0, <2>3, <2>4 DEF AllWeighed
  <2>6. ~Open(p[1])' /\ ~Open(p[2])'
    BY <1>3, <1>o, <2>5 DEF Done
  <2> QED BY <1>1, <2>5, <2>6 DEF Done, HasPlan, Result, JoinCost
<1>15. HasPlan(All)' \/ InTasks(All)'
  <2>1. HasPlan(All) => HasPlan(All)'
    BY <1>1 DEF HasPlan, All
  <2>2. ASSUME NEW k \in 1..Len(tasks), Scope(tasks[k]) = All, ~HasPlan(All)
        PROVE  \E i \in 1..Len(c) : Scope(c[i]) = All
    <3>1. CASE n < k
      BY <1>9, <2>2, <3>1
    <3>2. CASE k = n
      <4>1. PICK t \in ToSet(sub) : Scope(t) = T
        BY <1>4
      <4>2. PICK h \in 1..m : c[h] = t
        BY <1>8
      <4> QED BY <1>3, <1>7, <2>2, <3>2, <4>1, <4>2
    <3>3. CASE ~(n < k) /\ k # n
      <4>1. k \in 1..(n - 1)
        BY <1>2, <3>3
      <4> QED BY <1>5, <2>2, <4>1
    <3> QED BY <3>1, <3>2, <3>3
  <2>3. (\E i \in 1..Len(c) : Scope(c[i]) = All) => InTasks(All)'
    BY DEF InTasks, Scope, UnionOf, All, c
  <2> QED BY <2>1, <2>2, <2>3 DEF TDScan, InTasks
<1>16. tasks' \in Seq(TDTasks(C, G))
  BY <1>6 DEF c
<1> QED BY <1>11, <1>12, <1>13, <1>14, <1>15, <1>16, Zenon DEF TDScan

LEMMA TDScanIsBest ==
  ASSUME OrderingInv, algo \in TopDown, TDScan(ConnectedCuts, LinkedSets)
  PROVE  BestPlans
<1>a. algo # "PEall" /\ FALSE \in BOOLEAN
  BY DEF TopDown
<1> SUFFICES ASSUME Finished
             PROVE  HasPlan(All) /\ \A S \in Subproblems : HasPlan(S) =>
                      S \in DOMAIN BestCost(FALSE) /\ table[S].cost = BestCost(FALSE)[S]
  BY <1>a DEF BestPlans
<1> DEFINE G == Plannable(FALSE)
           C == ConnectedCuts
<1>0. /\ TypeOK /\ SidesHavePlans /\ card \in [Subproblems -> Nat] /\ table \in [Subproblems -> Entries]
      /\ PricedIn(C) /\ AllWeighed(C)
  BY DEF OrderingInv, TypeOK, TDScan
<1>1. Scheme(G, C) /\ G \in SUBSET Subproblems /\ C \in SUBSET Splits
  <2>1. CutsOf(FALSE) = C
    BY DEF CutsOf
  <2>2. Scheme(G, C)
    BY <1>a, <2>1, SchemeFacts
  <2> QED BY <2>2 DEF Plannable, Scheme
<1>2. PICK f : /\ f = [S \in Subproblems |-> BestBody(FALSE, S, f)]
               /\ BestCost(FALSE) = [S \in G |-> f[S]]
  BY <1>0, <1>a, BestEquation
<1>3. BestIn(f, G, C)
  <2>1. CutsOf(FALSE) = C
    BY DEF CutsOf
  <2> QED BY <1>0, <1>a, <1>2, <2>1, BestFacts
<1> HIDE DEF G
<1>4. \A k \in 1..Len(tasks) : tasks[k][1] = "solve" /\ HasPlan(Scope(tasks[k]))
  <2>1. Len(tasks) \in Nat
    BY DEF TDScan
  <2>2. Len(tasks) \in 0..Len(tasks)
    BY <2>1
  <2>3. \A k \in 1..Len(tasks) : ~Applies(tasks[k])
    BY DEF Finished
  <2> QED BY <2>2, <2>3, SolvedBefore
<1>5. ASSUME NEW p \in C, HasPlan(Result(p)) PROVE Done(p)
  <2>1. ~Waiting(p)
    BY <1>4 DEF Waiting, Join
  <2> QED BY <1>0, <1>5, <2>1 DEF AllWeighed
<1>6. HasPlan(All)
  BY <1>4 DEF TDScan, InTasks
<1>7. ASSUME NEW S \in Subproblems, HasPlan(S) PROVE S \in G
  BY <1>0, <1>1, <1>7, PlannedIn
<1> DEFINE Good == {S \in Subproblems : HasPlan(S) => table[S].cost = f[S]}
<1>8. ASSUME NEW S \in Subproblems, \A T \in Subproblems : SizeOf[T] < SizeOf[S] => T \in Good,
             HasPlan(S)
      PROVE  table[S].cost = f[S]
  <2>1. CASE Singleton(S)
    BY <1>3, <2>1 DEF BestIn
  <2>2. CASE ~Singleton(S)
    <3>0. f[S] \in Nat /\ table[S].cost \in Nat
      BY <1>0, <1>3, <1>7, <1>8 DEF BestIn, Entries
    <3>1. ASSUME NEW p \in C, Result(p) = S, HasPlan(p[1]), HasPlan(p[2])
          PROVE  JoinCost(p[1], p[2]) = SumOver(p, f)
      <4>1. p \in Splits /\ p[1] \in Subproblems /\ p[2] \in Subproblems
        BY <1>1 DEF Splits
      <4>2. p \in SplitsOf(S)
        BY <3>1, <4>1 DEF SplitsOf, Result
      <4>3. p[1] \in Good /\ p[2] \in Good
        BY <1>8, <4>1, <4>2, SidesAreSmaller
      <4>4. table[p[1]].cost = f[p[1]] /\ table[p[2]].cost = f[p[2]]
        BY <3>1, <4>3
      <4> QED BY <4>4 DEF JoinCost, SumOver, Result
    <3>2. PICK p \in C : Result(p) = S /\ f[S] = SumOver(p, f)
      BY <1>3, <1>7, <1>8, <2>2 DEF BestIn
    <3>3. table[S].cost <= f[S]
      BY <1>5, <1>8, <3>1, <3>2 DEF Done
    <3> DEFINE l == table[S].left
               r == table[S].right
    <3>4. /\ <<l, r>> \in C /\ table[S].cost = JoinCost(l, r) /\ l \cup r = S
          /\ HasPlan(l) /\ HasPlan(r)
      BY <1>0, <1>8, <2>2 DEF HasPlan, PricedIn, SidesHavePlans
    <3> HIDE DEF l, r
    <3>5. Result(<<l, r>>) = S
      BY <3>4 DEF Result
    <3>6. table[S].cost = SumOver(<<l, r>>, f)
      BY <3>1, <3>4, <3>5
    <3>7. f[S] <= table[S].cost
      BY <1>3, <3>4, <3>5, <3>6 DEF BestIn
    <3> QED BY <3>0, <3>3, <3>7
  <2> QED BY <2>1, <2>2
<1>9. ASSUME NEW S \in Subproblems, \A T \in Subproblems : SizeOf[T] < SizeOf[S] => T \in Good
      PROVE  S \in Good
  BY <1>8, <1>9
<1> HIDE DEF Good
<1>10. Hereditary(Subproblems, SizeOf, Good)
  BY <1>9 DEF Hereditary
<1>11. \A S \in Subproblems : S \in Good
  BY <1>10, SizeTyped, RankInduction
<1>12. ASSUME NEW S \in Subproblems, HasPlan(S)
       PROVE  S \in G /\ table[S].cost = f[S]
  BY <1>7, <1>11, <1>12 DEF Good
<1> QED BY <1>2, <1>6, <1>12

TDInv ==
  algo \in TopDown =>
    \/ tasks = <<<<"enumerate">>>> /\ NoPlans
    \/ TDScan(ConnectedCuts, LinkedSets)

LEMMA TDScanBegins ==
  ASSUME GraphOK, algo \in TopDown, NoPlans, Enumerate
  PROVE  TDScan(ConnectedCuts, LinkedSets)'
<1> PICK C, G : C = ConnectedCuts /\ G = LinkedSets
  OBVIOUS
<1>0. /\ C' = C /\ G' = G /\ C \in SUBSET Splits
      /\ ConnectedCuts' = C /\ LinkedSets' = G /\ UNCHANGED <<table, card>>
  <2>1. UNCHANGED graph /\ UNCHANGED <<table, card>>
    BY DEF Enumerate
  <2>2. \A S : Linked(S)' <=> Linked(S)
    BY <2>1, SameGraph DEF Linked
  <2>3. ConnectedCuts' = ConnectedCuts /\ LinkedSets' = LinkedSets
    BY <2>1, <2>2, SameGraph DEF ConnectedCuts
  <2> QED BY <2>1, <2>3, ConnectedCutsFacts
<1>1. All \in LinkedSets /\ All \in Subproblems
  BY AllLinked, SubproblemsFacts DEF LinkedSets
<1>2. tasks' = <<Solve(All)>>
  BY DEF Enumerate, FirstTasks, TopDown
<1>3. tasks' \in Seq(TDTasks(C, G))
  BY <1>1, <1>2 DEF TDTasks
<1>4. /\ Len(tasks') = 1
      /\ \A i \in 1..Len(tasks') : tasks'[i][1] = "solve" /\ Scope(tasks'[i]) = All
  <2>1. Scope(Solve(All)) = All /\ Solve(All)[1] = "solve"
    BY DEF Scope, Solve
  <2>2. Len(tasks') = 1 /\ tasks'[1] = Solve(All) /\ \A i \in 1..Len(tasks') : i = 1
    BY <1>2
  <2> QED BY <2>1, <2>2
<1>5. NestedTasks' /\ Backed'
  BY <1>4 DEF NestedTasks, Backed
<1>6. PricedIn(C)'
  BY <1>0 DEF PricedIn, NoPlans
<1>7. AllWeighed(C)'
  <2> SUFFICES ASSUME NEW p \in C, HasPlan(Result(p))' \/ Open(Result(p))' PROVE FALSE
    BY DEF AllWeighed
  <2>1. ~Open(Result(p))'
    BY <1>4 DEF Open
  <2>2. Result(p) \in Subproblems /\ ~Singleton(Result(p))
    <3>1. p \in Splits
      BY <1>0
    <3>2. /\ Result(p) \in Subproblems /\ p[1] \in Subproblems /\ p[2] \in Subproblems
          /\ p[1] \cap p[2] = {} /\ Result(p) = p[1] \cup p[2]
      BY <3>1, ResultFacts DEF Result
    <3>3. p[1] # {} /\ p[2] # {}
      BY <3>2 DEF Subproblems
    <3> QED BY <3>2, <3>3 DEF Singleton
  <2> QED BY <1>0, <2>1, <2>2 DEF HasPlan, NoPlans, Result, Singleton
<1>8. InTasks(All)'
  <2>1. \E i \in 1..Len(tasks') : Scope(tasks'[i]) = All
    BY <1>4
  <2> QED BY <2>1 DEF InTasks, Scope, UnionOf, All
<1>9. TDScan(C, G)'
  BY <1>3, <1>5, <1>6, <1>7, <1>8, Zenon DEF TDScan
<1> QED BY <1>0, <1>9

LEMMA TDInvStep ==
  ASSUME OrderingInv, CommitInv, TDInv, [OrderingNext]_orderingVars
  PROVE  TDInv'
<1>0. TypeOK /\ SidesHavePlans /\ TasksOK /\ GraphOK
  BY DEF OrderingInv
<1> PICK C, G : C = ConnectedCuts /\ G = LinkedSets
  OBVIOUS
<1>2. ASSUME UNCHANGED <<graph, algo>>, TDScan(C, G)' PROVE TDInv'
  <2>1. \A S : Linked(S)' <=> Linked(S)
    BY <1>2, SameGraph DEF Linked
  <2>2. ConnectedCuts' = C /\ LinkedSets' = G
    BY <1>2, <2>1, SameGraph DEF ConnectedCuts
  <2>3. TDScan(ConnectedCuts, LinkedSets)'
    BY <1>2, <2>2
  <2> QED BY <2>3 DEF TDInv
<1>3. CASE EnumNext /\ algo \in TopDown
  <2>0. UNCHANGED <<graph, algo>>
    BY <1>3 DEF EnumNext, Enumerate, SolveSubproblem, ConsiderJoin
  <2>1. CASE tasks = <<<<"enumerate">>>> /\ NoPlans
    <3>1. ~Finished => tasks[Next1][1] = "enumerate"
      <4>1. tasks \in Seq({<<"enumerate">>})
        BY <2>1
      <4>2. ~Finished => tasks[Next1] \in {<<"enumerate">>}
        BY <4>1, FirstApplies
      <4> QED BY <4>2
    <3>2. Enumerate
      BY <1>3, <3>1 DEF EnumNext, Enumerate, SolveSubproblem, ConsiderJoin
    <3>3. TDScan(ConnectedCuts, LinkedSets)'
      BY <1>0, <1>3, <2>1, <3>2, TDScanBegins
    <3> QED BY <3>3 DEF TDInv
  <2>2. CASE TDScan(C, G)
    <3>1. ~Finished => tasks[Next1][1] \in {"join", "solve"}
      <4>1. tasks \in Seq(TDTasks(C, G))
        BY <2>2 DEF TDScan
      <4>2. ~Finished => tasks[Next1] \in TDTasks(C, G)
        BY <4>1, FirstApplies
      <4> QED BY <4>2, TDTaskFacts
    <3>2. ConsiderJoin \/ SolveSubproblem
      BY <1>3, <3>1 DEF EnumNext, Enumerate, SolveSubproblem, ConsiderJoin
    <3>3. CASE ConsiderJoin
      BY <1>0, <1>2, <1>3, <2>0, <2>2, <3>3, TDJoinStep
    <3>4. CASE SolveSubproblem
      BY <1>0, <1>2, <1>3, <2>0, <2>2, <3>4, TDSolveStep
    <3> QED BY <3>2, <3>3, <3>4
  <2> QED BY <1>3, <2>1, <2>2 DEF TDInv
<1>4. CASE EnumNext /\ algo \notin TopDown
  BY <1>4 DEF EnumNext, Enumerate, SolveSubproblem, ConsiderJoin, TDInv
<1>5. CASE SearchNext /\ UNCHANGED hs
  <2>1. algo = "TwoPhaseOptimizer" /\ algo' = algo
    BY <1>5 DEF SearchNext, Seed, Restart, Iterate, Try, Climb, EndClimb, Anneal, Propose, Accept, Commit,
       Idle, Evaluate, CommitInv
  <2> QED BY <2>1 DEF TDInv, TopDown
<1>6. CASE HeuristicNext /\ UNCHANGED search
  <2>1. algo \in {"AStar", "HeuristicSearch"} /\ algo' = algo
    BY <1>6 DEF HeuristicNext, MaySearch, EndWith, CommitInv,
       StartSearch, Explore, ReachGoal, ExhaustBudget, FallBack
  <2> QED BY <2>1 DEF TDInv, TopDown
<1>7. CASE UNCHANGED orderingVars
  <2>1. UNCHANGED <<graph, algo, card, table, tasks>>
    BY <1>7 DEF orderingVars, vars
  <2>2. TDScan(C, G) => TDScan(C, G)'
    <3> SUFFICES ASSUME TDScan(C, G) PROVE TDScan(C, G)'
      OBVIOUS
    <3>1. /\ \A X : HasPlan(X)' <=> HasPlan(X)
          /\ \A X : Open(X)' <=> Open(X)
          /\ \A p : Waiting(p)' <=> Waiting(p)
      BY <2>1 DEF HasPlan, Open, UnionOf, Waiting, Join, Swapped
    <3>2. NestedTasks' /\ Backed'
      <4>1. NestedTasks'
        BY <2>1, Zenon DEF TDScan, NestedTasks, Scope, UnionOf
      <4>2. Backed'
        <5>1. \A i \in 1..Len(tasks) : tasks[i][1] = "join" =>
                \A X \in {tasks[i][2], tasks[i][3]} : HasPlan(X)' \/ \E j \in 1..(i - 1) : Scope(tasks[j]) = X
          BY <3>1 DEF TDScan, Backed
        <5>2. \A i \in 1..Len(tasks') : tasks'[i][1] = "join" =>
                \A X \in {tasks'[i][2], tasks'[i][3]} : HasPlan(X)' \/ \E j \in 1..(i - 1) : Scope(tasks'[j]) = X
          BY <2>1, <5>1, Zenon
        <5> QED BY <5>2 DEF Backed, Scope, UnionOf
      <4> QED BY <4>1, <4>2
    <3>3. PricedIn(C)'
      BY <2>1, <3>1 DEF TDScan, PricedIn, JoinCost
    <3>4. AllWeighed(C)'
      BY <2>1, <3>1 DEF TDScan, AllWeighed, Done, JoinCost, Result
    <3>5. HasPlan(All)' \/ InTasks(All)'
      BY <2>1 DEF TDScan, HasPlan, InTasks, Scope, UnionOf, All
    <3>6. tasks' \in Seq(TDTasks(C, G))
      BY <2>1 DEF TDScan
    <3> QED BY <3>2, <3>3, <3>4, <3>5, <3>6, Zenon DEF TDScan
  <2>3. tasks = <<<<"enumerate">>>> /\ NoPlans => TDInv'
    BY <2>1 DEF TDInv, NoPlans
  <2>4. algo \notin TopDown => TDInv'
    BY <2>1 DEF TDInv
  <2> QED BY <1>2, <2>1, <2>2, <2>3, <2>4 DEF TDInv
<1> QED BY <1>3, <1>4, <1>5, <1>6, <1>7, Zenon DEF OrderingNext

(* Whichever order it considers joins in, and however the joins it makes   *)
(* and the plans it has depend on each other, an enumerator that is meant  *)
(* to be exact leaves the cheapest plan of every subproblem it plans.  (Of *)
(* DPccp that is not so; A* is left to the runs.)                          *)
THEOREM ExactPlans ==
  OrderingSpec => [](algo \in Exact \ {"DPccp", "AStar"} => BestPlans)
<1>1. OrderingInit => CommitInv /\ ScanInv /\ TDInv
  <2> SUFFICES ASSUME OrderingInit PROVE CommitInv /\ ScanInv /\ TDInv
    OBVIOUS
  <2>1. CommitInv
    BY DEF OrderingInit, SearchInit, CommitInv
  <2>2. NoPlans
    BY DEF OrderingInit, EnumInit, Init, InitTable, NoPlans
  <2> QED BY <2>1, <2>2 DEF OrderingInit, EnumInit, ScanInv, TDInv
<1>2. /\ OrderingInv /\ (CommitInv /\ ScanInv /\ TDInv) /\ [OrderingNext]_orderingVars
      => (CommitInv /\ ScanInv /\ TDInv)'
  BY CommitStep, ScanInvStep, TDInvStep
<1>3. OrderingInv /\ ScanInv /\ TDInv => (algo \in Exact \ {"DPccp", "AStar"} => BestPlans)
  <2> SUFFICES ASSUME OrderingInv, ScanInv, TDInv, algo \in InSequence \cup TopDown PROVE BestPlans
    BY DEF Exact, InSequence, TopDown
  <2>1. CASE tasks = <<<<"enumerate">>>>
    <3>1. Applies(tasks[1]) /\ 1 \in 1..Len(tasks)
      BY <2>1 DEF Applies
    <3> QED BY <3>1 DEF BestPlans, Finished
  <2>2. CASE algo \in InSequence /\ tasks # <<<<"enumerate">>>>
    BY <2>2, ScanIsBest DEF ScanInv
  <2>3. CASE algo \in TopDown /\ tasks # <<<<"enumerate">>>>
    BY <2>3, TDScanIsBest DEF TDInv
  <2> QED BY <2>1, <2>2, <2>3
<1> QED BY OrderingInvariant, <1>1, <1>2, <1>3, PTL DEF OrderingSpec

-----------------------------------------------------------------------------
(* The slices of a linearization, and the windows that meet them.          *)

Bounds         == {w \in (1..N) \X (1..N) : w[1] < w[2]}
Width(w)       == w[2] - w[1]
Widening       == {vw \in Bounds \X Bounds : Width(vw[1]) <= Width(vw[2])}
SliceCut(l, a, c, b) == <<Slice(l, a, c), Slice(l, c + 1, b)>>
CutsWithin(l, w) == {SliceCut(l, w[1], c, w[2]) : c \in w[1]..(w[2] - 1)}
LinkedBounds(l)  == {w \in Bounds : Linked(Slice(l, w[1], w[2]))}
SliceCuts(l)     == UNION {CutsWithin(l, w) : w \in LinkedBounds(l)}

LEMMA SliceFacts ==
  ASSUME NEW l, Order(l), NEW a \in 1..N, NEW b \in 1..N, a <= b
  PROVE  /\ Slice(l, a, b) \in Subproblems
         /\ \A k \in 1..N : l[k] \in Slice(l, a, b) <=> a <= k /\ k <= b
<1>0. l \in Seq(Relations) /\ N \in Nat /\ Len(l) = N /\ \A i, j \in 1..N : l[i] = l[j] => i = j
  BY NFacts DEF Order
<1>1. \A k \in a..b : k \in 1..N /\ l[k] \in Relations
  BY <1>0
<1>2. a \in a..b
  OBVIOUS
<1>3. Slice(l, a, b) \in Subproblems
  BY <1>1, <1>2 DEF Slice, Subproblems
<1>4. ASSUME NEW k \in 1..N PROVE l[k] \in Slice(l, a, b) <=> a <= k /\ k <= b
  <2>1. k \in a..b <=> a <= k /\ k <= b
    OBVIOUS
  <2> QED BY <1>0, <1>1, <2>1 DEF Slice
<1> QED BY <1>3, <1>4

LEMMA SlicesDiffer ==
  ASSUME NEW l, Order(l), NEW a \in 1..N, NEW b \in 1..N, NEW c \in 1..N, NEW d \in 1..N, a <= b, c <= d,
         Slice(l, a, b) = Slice(l, c, d)
  PROVE  a = c /\ b = d
<1>1. \A k \in 1..N : (a <= k /\ k <= b) <=> (c <= k /\ k <= d)
  <2> SUFFICES ASSUME NEW k \in 1..N PROVE (a <= k /\ k <= b) <=> (c <= k /\ k <= d)
    OBVIOUS
  <2>1. l[k] \in Slice(l, a, b) <=> a <= k /\ k <= b
    BY SliceFacts
  <2>2. l[k] \in Slice(l, c, d) <=> c <= k /\ k <= d
    BY SliceFacts
  <2> QED BY <2>1, <2>2
<1>2. c <= a /\ b <= d
  BY <1>1
<1>3. a <= c /\ d <= b
  BY <1>1
<1> QED BY <1>2, <1>3

LEMMA SliceCutFacts ==
  ASSUME NEW l, Order(l), NEW w \in Bounds, NEW c \in w[1]..(w[2] - 1)
  PROVE  LET p == SliceCut(l, w[1], c, w[2])
         IN  /\ p \in Splits /\ Result(p) = Slice(l, w[1], w[2])
             /\ w[1] \in 1..N /\ w[2] \in 1..N /\ c \in 1..N /\ c + 1 \in 1..N
             /\ w[1] <= c /\ c + 1 <= w[2] /\ w[1] < w[2]
<1>0. N \in Nat /\ w[1] \in 1..N /\ w[2] \in 1..N /\ w[1] < w[2]
  BY NFacts DEF Bounds
<1> PICK a \in 1..N, b \in 1..N : a = w[1] /\ b = w[2]
  BY <1>0
<1>1. /\ c \in 1..N /\ c + 1 \in 1..N /\ a <= c /\ c + 1 <= b
      /\ a..b = (a..c) \cup ((c + 1)..b)
      /\ \A x \in a..c, y \in (c + 1)..b : x \in 1..N /\ y \in 1..N /\ x # y
  BY <1>0
<1> DEFINE L == Slice(l, a, c)
           R == Slice(l, c + 1, b)
<1>2. L \in Subproblems /\ R \in Subproblems
  BY <1>1, SliceFacts
<1>3. L \cap R = {}
  BY <1>1 DEF Slice, Order
<1>4. L \cup R = Slice(l, a, b)
  BY <1>1 DEF Slice
<1> HIDE DEF L, R
<1>5. <<L, R>> \in Splits /\ Result(<<L, R>>) = Slice(l, a, b)
  BY <1>2, <1>3, <1>4 DEF Splits, Result
<1> QED BY <1>0, <1>1, <1>5 DEF SliceCut, L, R

(* Of two windows, the one that is no wider settles no part of it.         *)
LEMMA WiderSettles ==
  ASSUME NEW l, Order(l), NEW v \in Bounds, NEW w \in Bounds, <<v, w>> \in Widening,
         NEW p \in CutsWithin(l, v), NEW q \in CutsWithin(l, w)
  PROVE  <<p, q>> \in Settles
<1>1. PICK c \in v[1]..(v[2] - 1) : p = SliceCut(l, v[1], c, v[2])
  BY DEF CutsWithin
<1>2. PICK d \in w[1]..(w[2] - 1) : q = SliceCut(l, w[1], d, w[2])
  BY DEF CutsWithin
<1>3. /\ p \in Splits /\ v[1] \in 1..N /\ v[2] \in 1..N /\ c \in 1..N /\ c + 1 \in 1..N
      /\ v[1] <= c /\ c + 1 <= v[2] /\ v[1] < v[2]
  BY <1>1, SliceCutFacts
<1>4. q \in Splits /\ Result(q) = Slice(l, w[1], w[2]) /\ w[1] \in 1..N /\ w[2] \in 1..N /\ w[1] < w[2]
  BY <1>2, SliceCutFacts
<1>5. v[2] - v[1] <= w[2] - w[1]
  BY DEF Widening, Width
<1>6. Slice(l, w[1], w[2]) # Slice(l, v[1], c)
  <2> SUFFICES ASSUME Slice(l, w[1], w[2]) = Slice(l, v[1], c) PROVE FALSE
    OBVIOUS
  <2>1. w[1] = v[1] /\ w[2] = c
    BY <1>3, <1>4, SlicesDiffer
  <2> QED BY <1>3, <1>5, <2>1
<1>7. Slice(l, w[1], w[2]) # Slice(l, c + 1, v[2])
  <2> SUFFICES ASSUME Slice(l, w[1], w[2]) = Slice(l, c + 1, v[2]) PROVE FALSE
    OBVIOUS
  <2>1. w[1] = c + 1 /\ w[2] = v[2]
    BY <1>3, <1>4, SlicesDiffer
  <2> QED BY <1>3, <1>5, <2>1
<1>8. p[1] = Slice(l, v[1], c) /\ p[2] = Slice(l, c + 1, v[2])
  BY <1>1 DEF SliceCut
<1> QED BY <1>3, <1>4, <1>6, <1>7, <1>8 DEF Settles

LEMMA WindowsFull ==
  Windows \in Seq(Bounds) /\ ToSet(Windows) = Bounds /\ InOrder(Windows, Widening)
<1> DEFINE at(w, k) == IF w % 2 = 1 THEN <<k, k + w>> ELSE <<N - w - k + 1, N - k + 1>>
           row(w) == [k \in 1..(N - w) |-> at(w, k)]
           rows == [w \in 1..(N - 1) |-> row(w)]
<1>0. N \in Nat /\ N - 1 \in Nat
  BY NFacts
<1>1. ASSUME NEW w \in 1..(N - 1), NEW k \in 1..(N - w)
      PROVE  at(w, k) \in Bounds /\ Width(at(w, k)) = w
  <2>1. k \in 1..N /\ k + w \in 1..N /\ k < k + w /\ (k + w) - k = w
    BY <1>0
  <2>2. N - w - k + 1 \in 1..N /\ N - k + 1 \in 1..N /\ N - w - k + 1 < N - k + 1
        /\ (N - k + 1) - (N - w - k + 1) = w
    BY <1>0
  <2>3. <<k, k + w>> \in Bounds /\ <<N - w - k + 1, N - k + 1>> \in Bounds
    BY <2>1, <2>2 DEF Bounds
  <2>4. Width(<<k, k + w>>) = w /\ Width(<<N - w - k + 1, N - k + 1>>) = w
    BY <2>1, <2>2 DEF Width
  <2> QED BY <2>3, <2>4
<1>2. ASSUME NEW v \in Bounds
      PROVE  \E w \in 1..(N - 1) : \E k \in 1..(N - w) : at(w, k) = v
  <2>1. PICK a \in 1..N, b \in 1..N : v = <<a, b>> /\ a < b
    BY DEF Bounds
  <2> DEFINE w == b - a
  <2>2. w \in 1..(N - 1) /\ a \in 1..(N - w) /\ N - w - a + 1 \in 1..(N - w) /\ a + w = b
        /\ N - w - (N - w - a + 1) + 1 = a /\ N - (N - w - a + 1) + 1 = b
    BY <1>0, <2>1
  <2> HIDE DEF w
  <2>3. CASE w % 2 = 1
    <3>1. at(w, a) = v
      BY <2>1, <2>2, <2>3
    <3> QED BY <2>2, <3>1
  <2>4. CASE w % 2 # 1
    <3> DEFINE k == N - w - a + 1
    <3>1. k \in 1..(N - w) /\ N - w - k + 1 = a /\ N - k + 1 = b
      BY <2>2
    <3> HIDE DEF k
    <3>2. at(w, k) = v
      BY <2>1, <2>4, <3>1
    <3> QED BY <2>2, <3>1, <3>2
  <2> QED BY <2>3, <2>4
<1>3. Windows = Flatten(rows)
  BY Zenon DEF Windows
<1> HIDE DEF at
<1>4. ASSUME NEW w \in 1..(N - 1)
      PROVE  /\ row(w) \in Seq(Bounds) /\ ToSet(row(w)) = {at(w, k) : k \in 1..(N - w)}
             /\ \A x \in ToSet(row(w)) : x \in Bounds /\ Width(x) = w
  <2>0. N - w \in Nat
    BY <1>0
  <2>1. row(w) \in Seq(Bounds) /\ Len(row(w)) = N - w
    BY <1>1, <2>0, IsASeq
  <2>2. ToSet(row(w)) = {at(w, k) : k \in 1..(N - w)}
    <3>1. \A k \in 1..(N - w) : row(w)[k] = at(w, k)
      OBVIOUS
    <3> HIDE DEF row
    <3>2. ToSet(row(w)) = {row(w)[k] : k \in 1..(N - w)}
      BY <2>1, ToSetFacts
    <3> QED BY <3>1, <3>2
  <2> QED BY <1>1, <2>1, <2>2
<1> HIDE DEF row
<1>5. /\ rows \in Seq(Seq(Bounds)) /\ Len(rows) = N - 1
      /\ \A w \in 1..(N - 1) : rows[w] = row(w)
  <2>1. rows \in Seq(Seq(Bounds))
    BY <1>0, <1>4, IsASeq
  <2> QED BY <1>0, <2>1
<1> HIDE DEF rows
<1>6. ToSet(Windows) = UNION {ToSet(rows[i]) : i \in 1..Len(rows)}
  BY <1>3, <1>5, FlattenElements
<1>7. ToSet(Windows) = Bounds
  <2>1. \A v \in Bounds : v \in ToSet(Windows)
    <3> SUFFICES ASSUME NEW v \in Bounds PROVE v \in ToSet(Windows)
      OBVIOUS
    <3>0. PICK w \in 1..(N - 1) : \E k \in 1..(N - w) : at(w, k) = v
      BY <1>2
    <3>1. PICK k \in 1..(N - w) : at(w, k) = v
      BY <3>0
    <3>2. v \in ToSet(row(w))
      BY <1>4, <3>1
    <3> QED BY <1>5, <1>6, <3>2
  <2>2. ToSet(Windows) \subseteq Bounds
    BY <1>4, <1>5, <1>6
  <2> QED BY <2>1, <2>2
<1>8. RowsInOrder(rows, Widening)
  <2>1. ASSUME NEW i \in 1..Len(rows), NEW x \in ToSet(rows[i]) PROVE x \in Bounds /\ Width(x) = i
    BY <1>4, <1>5, <2>1
  <2>2. ASSUME NEW i \in 1..Len(rows) PROVE InOrder(rows[i], Widening)
    <3> SUFFICES ASSUME NEW a \in 1..Len(rows[i]), NEW b \in 1..Len(rows[i])
                 PROVE  <<rows[i][a], rows[i][b]>> \in Widening
      BY DEF InOrder
    <3>1. rows[i][a] \in ToSet(rows[i]) /\ rows[i][b] \in ToSet(rows[i])
      BY DEF ToSet
    <3>2. \A x, y \in ToSet(rows[i]) : <<x, y>> \in Widening
      BY <1>0, <1>5, <2>1 DEF Widening
    <3> QED BY <3>1, <3>2
  <2>3. ASSUME NEW i \in 1..Len(rows), NEW j \in 1..Len(rows), i < j, NEW x \in ToSet(rows[i]), NEW y \in ToSet(rows[j])
        PROVE  <<x, y>> \in Widening
    BY <1>0, <1>5, <2>1, <2>3 DEF Widening
  <2> QED BY <2>2, <2>3 DEF RowsInOrder
<1>9. Windows \in Seq(Bounds) /\ InOrder(Windows, Widening)
  BY <1>3, <1>5, <1>8, FlattenTyped, FlattenOrder
<1> QED BY <1>7, <1>9

LEMMA SliceCutsFacts ==
  ASSUME NEW l, Order(l)
  PROVE  /\ SliceCuts(l) \in SUBSET Splits
         /\ \A p \in SliceCuts(l) : \E w \in LinkedBounds(l) : \E c \in w[1]..(w[2] - 1) : p = SliceCut(l, w[1], c, w[2])
<1>1. \A p \in SliceCuts(l) : \E w \in LinkedBounds(l) : \E c \in w[1]..(w[2] - 1) : p = SliceCut(l, w[1], c, w[2])
  BY DEF SliceCuts, CutsWithin
<1>2. ASSUME NEW p \in SliceCuts(l) PROVE p \in Splits
  <2>1. PICK w \in LinkedBounds(l) : \E c \in w[1]..(w[2] - 1) : p = SliceCut(l, w[1], c, w[2])
    BY <1>1
  <2>2. PICK c \in w[1]..(w[2] - 1) : p = SliceCut(l, w[1], c, w[2])
    BY <2>1
  <2>3. w \in Bounds
    BY DEF LinkedBounds
  <2> QED BY <2>2, <2>3, SliceCutFacts
<1> QED BY <1>1, <1>2

(* The dynamic program over a linearization considers all cuts of its      *)
(* linked slices, and those of a slice after those of the slices within.   *)
LEMMA LinearizedDPExhausts ==
  ASSUME NEW l, Order(l)
  PROVE  /\ Exhausts(LinearizedDP(l), SliceCuts(l))
         /\ ToSet(LinearizedDP(l)) \subseteq SliceCuts(l)
<1> DEFINE F == {w \in ToSet(Windows) : Connected(Slice(l, w[1], w[2]))}
           ws == Within(Windows, F)
           row(w) == [k \in 1..SplitPoints(w) |->
                       <<Slice(l, w[1], w[1] + k - 1), Slice(l, w[1] + k, w[2])>>]
           rows == [i \in 1..Len(ws) |-> row(ws[i])]
<1>1. Windows \in Seq(Bounds) /\ ToSet(Windows) = Bounds /\ InOrder(Windows, Widening)
  BY WindowsFull
<1>2. F = LinkedBounds(l)
  <2>1. ASSUME NEW w \in Bounds PROVE Connected(Slice(l, w[1], w[2])) <=> Linked(Slice(l, w[1], w[2]))
    <3>1. Slice(l, w[1], w[2]) \in Subproblems
      BY SliceFacts DEF Bounds
    <3> QED BY <3>1, ConnectedMeansLinked
  <2> QED BY <1>1, <2>1 DEF LinkedBounds
<1> HIDE DEF F
<1>3. ws \in Seq(Bounds) /\ ToSet(ws) = LinkedBounds(l) /\ InOrder(ws, Widening)
  <2>1. LinkedBounds(l) \subseteq Bounds
    BY DEF LinkedBounds
  <2>2. Within(Windows, F) \in Seq(Bounds) /\ ToSet(Within(Windows, F)) = ToSet(Windows) \cap F
    BY <1>1, WithinFacts
  <2>3. InOrder(Within(Windows, F), Widening)
    BY <1>1, WithinOrder
  <2> QED BY <1>1, <1>2, <2>1, <2>2, <2>3
<1>4. LinearizedDP(l) = Flatten(rows)
  BY Zenon DEF LinearizedDP, F
<1> HIDE DEF ws
<1>5. ASSUME NEW w \in LinkedBounds(l)
      PROVE  row(w) \in Seq(Splits) /\ ToSet(row(w)) = CutsWithin(l, w)
  <2>0. w \in Bounds /\ w[1] \in 1..N /\ w[2] \in 1..N /\ w[1] < w[2] /\ SplitPoints(w) = w[2] - w[1]
    BY DEF LinkedBounds, Bounds, SplitPoints
  <2>1. PICK a \in 1..N, b \in 1..N : a = w[1] /\ b = w[2] /\ a < b
    BY <2>0
  <2>2. row(w) = [k \in 1..(b - a) |-> SliceCut(l, a, a + k - 1, b)]
    <3>1. \A k \in 1..(b - a) : a + k = (a + k - 1) + 1
      OBVIOUS
    <3>2. row(w) = [k \in 1..(b - a) |-> <<Slice(l, a, a + k - 1), Slice(l, a + k, b)>>]
      BY <2>0, <2>1
    <3>3. \A k \in 1..(b - a) : <<Slice(l, a, a + k - 1), Slice(l, a + k, b)>> = SliceCut(l, a, a + k - 1, b)
      BY <3>1 DEF SliceCut
    <3> HIDE DEF row
    <3> QED BY <3>2, <3>3
  <2> HIDE DEF row
  <2>3. \A k \in 1..(b - a) : a + k - 1 \in a..(b - 1)
    BY <2>1
  <2>4. \A c \in a..(b - 1) : c - a + 1 \in 1..(b - a) /\ a + (c - a + 1) - 1 = c
    BY <2>1
  <2>5. \A c \in a..(b - 1) : SliceCut(l, a, c, b) \in Splits
    BY <2>0, <2>1, SliceCutFacts
  <2>6. row(w) \in Seq(Splits) /\ Len(row(w)) = b - a /\ \A k \in 1..(b - a) : row(w)[k] = SliceCut(l, a, a + k - 1, b)
    <3>1. b - a \in Nat
      BY <2>1
    <3>2. \A k \in 1..(b - a) : SliceCut(l, a, a + k - 1, b) \in Splits
      BY <2>3, <2>5
    <3>3. row(w) \in Seq(Splits)
      BY <2>2, <3>1, <3>2, IsASeq
    <3> QED BY <2>2, <3>1, <3>3
  <2>7. ToSet(row(w)) = {row(w)[k] : k \in 1..(b - a)}
    BY <2>6, ToSetFacts
  <2>8. \A x : x \in ToSet(row(w)) <=> \E k \in 1..(b - a) : x = SliceCut(l, a, a + k - 1, b)
    BY <2>6, <2>7
  <2>9. \A x : x \in CutsWithin(l, w) <=> \E c \in a..(b - 1) : x = SliceCut(l, a, c, b)
    BY <2>1 DEF CutsWithin
  <2>10. ASSUME NEW c \in a..(b - 1) PROVE \E k \in 1..(b - a) : SliceCut(l, a, c, b) = SliceCut(l, a, a + k - 1, b)
    <3>1. PICK k \in 1..(b - a) : a + k - 1 = c
      BY <2>4
    <3> QED BY <3>1
  <2> QED BY <2>3, <2>6, <2>8, <2>9, <2>10
<1> HIDE DEF row
<1>6. /\ rows \in Seq(Seq(Splits)) /\ Len(rows) = Len(ws)
      /\ \A i \in 1..Len(ws) : ws[i] \in LinkedBounds(l) /\ rows[i] = row(ws[i])
  <2>1. \A i \in 1..Len(ws) : ws[i] \in LinkedBounds(l)
    BY <1>3, ToSetFacts
  <2>2. rows \in Seq(Seq(Splits))
    BY <1>3, <1>5, <2>1, IsASeq
  <2> QED BY <1>3, <2>1, <2>2
<1> HIDE DEF rows
<1>7. \A i \in 1..Len(rows) : ToSet(rows[i]) = CutsWithin(l, ws[i])
  BY <1>5, <1>6
<1>8. ToSet(LinearizedDP(l)) = UNION {ToSet(rows[i]) : i \in 1..Len(rows)}
  BY <1>4, <1>6, FlattenElements
<1>9. ToSet(LinearizedDP(l)) = SliceCuts(l)
  <2>1. ToSet(ws) = {ws[i] : i \in 1..Len(ws)}
    BY <1>3, ToSetFacts
  <2>2. \A x : x \in ToSet(LinearizedDP(l)) <=> \E i \in 1..Len(ws) : x \in CutsWithin(l, ws[i])
    BY <1>6, <1>7, <1>8
  <2>3. \A x : x \in SliceCuts(l) <=> \E w \in LinkedBounds(l) : x \in CutsWithin(l, w)
    BY DEF SliceCuts
  <2>4. \A w \in LinkedBounds(l) : \E i \in 1..Len(ws) : ws[i] = w
    BY <1>3, <2>1
  <2>5. \A i \in 1..Len(ws) : ws[i] \in LinkedBounds(l)
    BY <1>6
  <2>6. \A x : x \in ToSet(LinearizedDP(l)) <=> x \in SliceCuts(l)
    BY <2>2, <2>3, <2>4, <2>5
  <2> QED BY <2>6
<1>10. RowsInOrder(rows, Settles)
  <2>1. ASSUME NEW i \in 1..Len(rows), NEW j \in 1..Len(rows), i <= j,
               NEW p \in ToSet(rows[i]), NEW q \in ToSet(rows[j])
        PROVE  <<p, q>> \in Settles
    <3>1. ws[i] \in Bounds /\ ws[j] \in Bounds
      BY <1>6 DEF LinkedBounds
    <3>2. <<ws[i], ws[j]>> \in Widening
      <4>1. CASE i < j
        BY <1>3, <1>6, <4>1 DEF InOrder
      <4>2. CASE i = j
        BY <3>1, <4>2 DEF Widening, Width, Bounds
      <4> QED BY <1>3, <1>6, <2>1, <4>1, <4>2
    <3> QED BY <1>7, <3>1, <3>2, WiderSettles
  <2>2. ASSUME NEW i \in 1..Len(rows) PROVE InOrder(rows[i], Settles)
    <3> SUFFICES ASSUME NEW a \in 1..Len(rows[i]), NEW b \in 1..Len(rows[i])
                 PROVE  <<rows[i][a], rows[i][b]>> \in Settles
      BY DEF InOrder
    <3>1. rows[i][a] \in ToSet(rows[i]) /\ rows[i][b] \in ToSet(rows[i])
      BY DEF ToSet
    <3>2. i <= i
      BY <1>3, <1>6
    <3> QED BY <2>1, <3>1, <3>2
  <2>3. \A i, j \in 1..Len(rows) : i < j => i <= j
    BY <1>3, <1>6
  <2> QED BY <2>1, <2>2, <2>3 DEF RowsInOrder
<1>11. LinearizedDP(l) \in Seq(Splits) /\ InOrder(LinearizedDP(l), Settles)
  BY <1>4, <1>6, <1>10, FlattenTyped, FlattenOrder
<1> QED BY <1>9, <1>11 DEF Exhausts, Covers

(* The equation that defines the best plan over slices. *)
Intervals == (1..N) \X (1..N)
IntervalWidth == [w \in Intervals |-> IF w[1] <= w[2] THEN Width(w) ELSE 0]
IntervalCosts(l, w, h) ==
  UNION {{card[Slice(l, w[1], w[2])] + c[1] + c[2] : c \in h[<<w[1], k>>] \X h[<<k + 1, w[2]>>]} :
         k \in w[1]..(w[2] - 1)}
IntervalBody(l, w, h) ==
  IF w[1] = w[2] THEN {table[Slice(l, w[1], w[2])].cost}
  ELSE IF Connected(Slice(l, w[1], w[2])) /\ IntervalCosts(l, w, h) # {} THEN {Min(IntervalCosts(l, w, h))}
  ELSE {}

LEMMA IntervalFacts ==
  /\ IntervalWidth \in [Intervals -> Nat]
  /\ \A w \in Intervals : w[1] \in 1..N /\ w[2] \in 1..N
  /\ \A w \in Intervals : \A k \in w[1]..(w[2] - 1) :
       /\ k \in 1..N /\ k + 1 \in 1..N /\ w[1] <= k /\ k + 1 <= w[2]
       /\ <<w[1], k>> \in Intervals /\ <<k + 1, w[2]>> \in Intervals
       /\ IntervalWidth[<<w[1], k>>] < IntervalWidth[w]
       /\ IntervalWidth[<<k + 1, w[2]>>] < IntervalWidth[w]
<1>0. N \in Nat
  BY NFacts
<1>1. ASSUME NEW a \in 1..N, NEW b \in 1..N
      PROVE  /\ <<a, b>> \in Intervals
             /\ IntervalWidth[<<a, b>>] = IF a <= b THEN b - a ELSE 0
             /\ IntervalWidth[<<a, b>>] \in Nat
  <2>1. <<a, b>> \in Intervals
    BY DEF Intervals
  <2>2. IntervalWidth[<<a, b>>] = IF a <= b THEN b - a ELSE 0
    BY <2>1 DEF IntervalWidth, Width
  <2> QED BY <1>0, <2>1, <2>2
<1>2. \A w \in Intervals : w[1] \in 1..N /\ w[2] \in 1..N /\ w = <<w[1], w[2]>>
  BY DEF Intervals
<1>3. IntervalWidth \in [Intervals -> Nat]
  <2>1. \A w \in Intervals : IntervalWidth[w] \in Nat
    BY <1>1, <1>2
  <2>2. IntervalWidth = [w \in Intervals |-> IntervalWidth[w]]
    BY DEF IntervalWidth
  <2> QED BY <2>1, <2>2
<1>4. ASSUME NEW w \in Intervals, NEW k \in w[1]..(w[2] - 1)
      PROVE  /\ k \in 1..N /\ k + 1 \in 1..N /\ w[1] <= k /\ k + 1 <= w[2]
             /\ <<w[1], k>> \in Intervals /\ <<k + 1, w[2]>> \in Intervals
             /\ IntervalWidth[<<w[1], k>>] < IntervalWidth[w]
             /\ IntervalWidth[<<k + 1, w[2]>>] < IntervalWidth[w]
  <2>1. PICK a \in 1..N, b \in 1..N : w = <<a, b>> /\ w[1] = a /\ w[2] = b
    BY <1>2
  <2>2. k \in 1..N /\ k + 1 \in 1..N /\ a <= k /\ k + 1 <= b /\ a <= b
    BY <1>0, <2>1
  <2>3. /\ IntervalWidth[w] = b - a
        /\ IntervalWidth[<<a, k>>] = k - a /\ IntervalWidth[<<k + 1, b>>] = b - (k + 1)
    BY <1>1, <2>1, <2>2
  <2>4. k - a < b - a /\ b - (k + 1) < b - a
    BY <2>2
  <2> QED BY <1>1, <2>1, <2>2, <2>3, <2>4
<1> QED BY <1>2, <1>3, <1>4

LEMMA IntervalBodyLooksBelow ==
  ASSUME NEW l, NEW w \in Intervals, NEW f, NEW g,
         \A v \in Intervals : IntervalWidth[v] < IntervalWidth[w] => f[v] = g[v]
  PROVE  IntervalBody(l, w, f) = IntervalBody(l, w, g)
<1>1. \A k \in w[1]..(w[2] - 1) : f[<<w[1], k>>] = g[<<w[1], k>>] /\ f[<<k + 1, w[2]>>] = g[<<k + 1, w[2]>>]
  BY IntervalFacts
<1>2. IntervalCosts(l, w, f) = IntervalCosts(l, w, g)
  BY <1>1 DEF IntervalCosts
<1> QED BY <1>2 DEF IntervalBody

LEMMA IntervalEquation ==
  ASSUME TypeOK, NEW l, Order(l)
  PROVE  \E h : /\ \A w \in Intervals : h[w] = IntervalBody(l, w, h)
                /\ IntervalBest(l) = h[<<1, N>>]
<1> DEFINE D == Intervals
           V == SUBSET Nat
           G == [w \in D |-> [h \in [D -> V] |-> IntervalBody(l, w, h)]]
<1>0. card \in [Subproblems -> Nat] /\ table \in [Subproblems -> Entries]
  BY DEF TypeOK
<1>1. ASSUME NEW w \in D, NEW h \in [D -> V] PROVE IntervalBody(l, w, h) \in V
  <2>1. IntervalCosts(l, w, h) \in SUBSET Nat
    <3> SUFFICES ASSUME NEW x \in IntervalCosts(l, w, h) PROVE x \in Nat
      OBVIOUS
    <3> PICK k \in w[1]..(w[2] - 1) :
           x \in {card[Slice(l, w[1], w[2])] + c[1] + c[2] : c \in h[<<w[1], k>>] \X h[<<k + 1, w[2]>>]}
      BY DEF IntervalCosts
    <3> PICK c \in h[<<w[1], k>>] \X h[<<k + 1, w[2]>>] : x = card[Slice(l, w[1], w[2])] + c[1] + c[2]
      OBVIOUS
    <3>1. /\ <<w[1], k>> \in Intervals /\ <<k + 1, w[2]>> \in Intervals
          /\ k \in 1..N /\ w[1] <= k /\ k + 1 <= w[2] /\ w[1] \in 1..N /\ w[2] \in 1..N
      BY IntervalFacts
    <3>2. h[<<w[1], k>>] \in V /\ h[<<k + 1, w[2]>>] \in V
      BY <3>1
    <3>3. c[1] \in Nat /\ c[2] \in Nat
      BY <3>2
    <3>4. w[1] <= w[2]
      BY <3>1
    <3>5. card[Slice(l, w[1], w[2])] \in Nat
      BY <1>0, <3>1, <3>4, SliceFacts
    <3> QED BY <3>3, <3>5
  <2>2. IntervalCosts(l, w, h) # {} => Min(IntervalCosts(l, w, h)) \in Nat
    BY <2>1, LeastOf
  <2>3. w[1] = w[2] => table[Slice(l, w[1], w[2])].cost \in Nat
    <3> SUFFICES ASSUME w[1] = w[2] PROVE table[Slice(l, w[1], w[2])].cost \in Nat
      OBVIOUS
    <3>1. w[1] \in 1..N /\ w[2] \in 1..N /\ w[1] <= w[2]
      BY IntervalFacts
    <3>2. Slice(l, w[1], w[2]) \in Subproblems
      BY <3>1, SliceFacts
    <3> QED BY <1>0, <3>2 DEF Entries
  <2> QED BY <2>2, <2>3 DEF IntervalBody
<1>2. Solvable(G, D, V)
  <2>1. G \in [D -> [[D -> V] -> V]]
    <3> HIDE DEF D, V
    <3> QED BY <1>1
  <2>2. LooksBelow(G, D, V, IntervalWidth)
    <3> SUFFICES ASSUME NEW w \in D, NEW f \in [D -> V], NEW g \in [D -> V],
                        \A v \in D : IntervalWidth[v] < IntervalWidth[w] => f[v] = g[v]
                 PROVE  G[w][f] = G[w][g]
      BY DEF LooksBelow
    <3>1. IntervalBody(l, w, f) = IntervalBody(l, w, g)
      BY IntervalBodyLooksBelow
    <3> HIDE DEF D, V
    <3> QED BY <3>1
  <2>3. Recursion(G, D, V, IntervalWidth)
    BY <2>1, <2>2, IntervalFacts DEF Recursion
  <2> HIDE DEF G, D, V
  <2> QED BY <2>3, RecursiveFunction
<1>3. PICK f \in [D -> V] : \A w \in D : f[w] = G[w][f]
  BY <1>2 DEF Solvable
<1> DEFINE P(h) == h = [w \in (1..N) \X (1..N) |->
             LET S == Slice(l, w[1], w[2])
                 costs == UNION {{card[S] + c[1] + c[2] : c \in h[<<w[1], k>>] \X h[<<k + 1, w[2]>>]} :
                                 k \in w[1]..(w[2] - 1)}
             IN  IF w[1] = w[2] THEN {table[S].cost}
                 ELSE IF Connected(S) /\ costs # {} THEN {Min(costs)}
                 ELSE {}]
           c == CHOOSE h : P(h)
<1>4. ASSUME NEW h PROVE P(h) <=> h = [w \in Intervals |-> IntervalBody(l, w, h)]
  BY Zenon DEF IntervalBody, IntervalCosts, Intervals
<1>5. IntervalBest(l) = c[<<1, N>>]
  BY Zenon DEF IntervalBest
<1> HIDE DEF P
<1>6. P(f)
  <2>1. \A w \in D : f[w] = IntervalBody(l, w, f)
    <3> HIDE DEF D, V
    <3> QED BY <1>3
  <2>2. f = [w \in Intervals |-> IntervalBody(l, w, f)]
    <3> HIDE DEF V
    <3> QED BY <2>1
  <2> QED BY <1>4, <2>2
<1>7. P(c)
  BY <1>6
<1> HIDE DEF c
<1>8. c = [w \in Intervals |-> IntervalBody(l, w, c)]
  BY <1>4, <1>7
<1>9. \A w \in Intervals : c[w] = IntervalBody(l, w, c)
  BY <1>8, Zenon
<1> QED BY <1>5, <1>9

LEMMA AllBeaten ==
  ASSUME NEW G, NEW C, Scan(G, C), Finished, NEW p \in C
  PROVE  Beaten(p)
<1> SUFFICES ASSUME HasPlan(p[1]), HasPlan(p[2]) PROVE ~Waiting(p)
  BY DEF Scan, Weighed, Beaten
<1> SUFFICES ASSUME Waiting(p) PROVE FALSE
  OBVIOUS
<1>1. PICK k \in 1..Len(tasks) : tasks[k] \in {Join(p), Join(Swapped(p))}
  BY DEF Waiting
<1>2. tasks[k][1] = "join" /\ HasPlan(tasks[k][2]) /\ HasPlan(tasks[k][3])
  BY <1>1 DEF Join, Swapped
<1>3. Applies(tasks[k])
  BY <1>2 DEF Applies
<1> QED BY <1>3 DEF Finished

(* A cut of a linked slice is a cut that counts; a plan of a slice joins   *)
(* slices, too.                                                            *)
LEMMA CutOfSlice ==
  ASSUME NEW l, Order(l), NEW a \in 1..N, NEW b \in 1..N, NEW k \in a..(b - 1), Linked(Slice(l, a, b))
  PROVE  SliceCut(l, a, k, b) \in SliceCuts(l)
<1>1. a < b /\ <<a, b>> \in Bounds
  BY NFacts DEF Bounds
<1>2. <<a, b>> \in LinkedBounds(l)
  BY <1>1 DEF LinkedBounds
<1>3. SliceCut(l, a, k, b) \in CutsWithin(l, <<a, b>>)
  BY DEF CutsWithin
<1> QED BY <1>2, <1>3 DEF SliceCuts

LEMMA PlanOfSlice ==
  ASSUME SidesHavePlans, NEW l, Order(l), NEW G, Scan(G, SliceCuts(l)),
         NEW a \in 1..N, NEW b \in 1..N, a < b, HasPlan(Slice(l, a, b))
  PROVE  /\ Linked(Slice(l, a, b))
         /\ \E k \in a..(b - 1) :
              /\ HasPlan(Slice(l, a, k)) /\ HasPlan(Slice(l, k + 1, b))
              /\ table[Slice(l, a, b)].cost = JoinCost(Slice(l, a, k), Slice(l, k + 1, b))
<1> PICK S : S = Slice(l, a, b)
  OBVIOUS
<1>0. S \in Subproblems /\ l[a] \in S /\ l[b] \in S /\ l[a] # l[b]
  <2>1. N \in Nat /\ a <= b /\ a # b
    BY NFacts
  <2>2. S \in Subproblems /\ l[a] \in S /\ l[b] \in S
    BY <2>1, SliceFacts
  <2> QED BY <2>1, <2>2 DEF Order
<1>1. ~Singleton(S)
  BY <1>0 DEF Singleton
<1>2. HasPlan(S) /\ table[S].left # {}
  BY <1>1 DEF HasPlan
<1> PICK L, R : L = table[S].left /\ R = table[S].right
  OBVIOUS
<1>3. <<L, R>> \in SliceCuts(l) /\ table[S].cost = JoinCost(L, R)
  BY <1>0, <1>2 DEF Scan, PricedIn
<1>4. L \cup R = S /\ HasPlan(L) /\ HasPlan(R)
  BY <1>0, <1>2 DEF SidesHavePlans
<1>5. PICK w \in LinkedBounds(l) : \E c \in w[1]..(w[2] - 1) : <<L, R>> = SliceCut(l, w[1], c, w[2])
  BY <1>3, SliceCutsFacts
<1>6. PICK c \in w[1]..(w[2] - 1) : <<L, R>> = SliceCut(l, w[1], c, w[2])
  BY <1>5
<1>7. w \in Bounds /\ Linked(Slice(l, w[1], w[2]))
  BY <1>5 DEF LinkedBounds
<1>8. /\ Result(SliceCut(l, w[1], c, w[2])) = Slice(l, w[1], w[2])
      /\ w[1] \in 1..N /\ w[2] \in 1..N /\ w[1] < w[2]
  BY <1>6, <1>7, SliceCutFacts
<1>9. Slice(l, w[1], w[2]) = Slice(l, a, b)
  <2>1. Result(<<L, R>>) = S
    BY <1>4 DEF Result
  <2> QED BY <1>6, <1>8, <2>1
<1>10. w[1] = a /\ w[2] = b
  <2>1. a <= b /\ w[1] <= w[2]
    BY <1>8, NFacts
  <2> QED BY <1>8, <1>9, <2>1, SlicesDiffer
<1>11. c \in a..(b - 1) /\ L = Slice(l, a, c) /\ R = Slice(l, c + 1, b)
  BY <1>6, <1>10 DEF SliceCut
<1> QED BY <1>3, <1>4, <1>7, <1>10, <1>11

SliceValue(l, a, b) == IF HasPlan(Slice(l, a, b)) THEN {table[Slice(l, a, b)].cost} ELSE {}
Cuttable(l, a, k, b) == HasPlan(Slice(l, a, k)) /\ HasPlan(Slice(l, k + 1, b))
SlicePrice(l, a, k, b) == JoinCost(Slice(l, a, k), Slice(l, k + 1, b))

LEMMA CostsOfSlice ==
  ASSUME TypeOK, NEW l, Order(l), NEW a \in 1..N, NEW b \in 1..N, a < b, NEW h,
         \A k \in a..(b - 1) : h[<<a, k>>] = SliceValue(l, a, k) /\ h[<<k + 1, b>>] = SliceValue(l, k + 1, b)
  PROVE  LET costs == IntervalCosts(l, <<a, b>>, h)
         IN  /\ costs \in SUBSET Nat
             /\ \A k \in a..(b - 1) : Cuttable(l, a, k, b) => SlicePrice(l, a, k, b) \in costs
             /\ \A x \in costs : \E k \in a..(b - 1) : Cuttable(l, a, k, b) /\ x = SlicePrice(l, a, k, b)
<1> PICK S : S = Slice(l, a, b)
  OBVIOUS
<1> DEFINE costs == IntervalCosts(l, <<a, b>>, h)
           at(k) == {card[S] + c[1] + c[2] : c \in h[<<a, k>>] \X h[<<k + 1, b>>]}
<1>0. table \in [Subproblems -> Entries]
  BY DEF TypeOK
<1>1. \A x : x \in costs <=> \E k \in a..(b - 1) : x \in at(k)
  <2> PICK w : w = <<a, b>>
    OBVIOUS
  <2>0. w[1] = a /\ w[2] = b
    OBVIOUS
  <2> DEFINE cell(k) == {card[Slice(l, w[1], w[2])] + c[1] + c[2] : c \in h[<<w[1], k>>] \X h[<<k + 1, w[2]>>]}
  <2>1. IntervalCosts(l, w, h) = UNION {cell(k) : k \in w[1]..(w[2] - 1)}
    BY Zenon DEF IntervalCosts
  <2>2. \A k : cell(k) = at(k)
    BY <2>0, Zenon
  <2> HIDE DEF cell, at
  <2> QED BY <2>0, <2>1, <2>2
<1> HIDE DEF costs
<1>2. ASSUME NEW k \in a..(b - 1)
      PROVE  /\ Slice(l, a, k) \in Subproblems /\ Slice(l, k + 1, b) \in Subproblems
             /\ SlicePrice(l, a, k, b) = card[S] + table[Slice(l, a, k)].cost + table[Slice(l, k + 1, b)].cost
             /\ SlicePrice(l, a, k, b) \in Nat
  <2>1. k \in 1..N /\ k + 1 \in 1..N /\ a <= k /\ k + 1 <= b /\ a..b = (a..k) \cup ((k + 1)..b)
    BY NFacts
  <2>2. Slice(l, a, k) \in Subproblems /\ Slice(l, k + 1, b) \in Subproblems
    BY <2>1, SliceFacts
  <2>3. Slice(l, a, k) \cup Slice(l, k + 1, b) = S
    BY <2>1 DEF Slice
  <2>4. SlicePrice(l, a, k, b) \in Nat
    BY <2>2, EntryTyped DEF SlicePrice
  <2> QED BY <2>2, <2>3, <2>4 DEF SlicePrice, JoinCost
<1>3. ASSUME NEW k \in a..(b - 1), Cuttable(l, a, k, b) PROVE SlicePrice(l, a, k, b) \in at(k)
  <2> PICK c : c = <<table[Slice(l, a, k)].cost, table[Slice(l, k + 1, b)].cost>>
    OBVIOUS
  <2>1. h[<<a, k>>] = {c[1]} /\ h[<<k + 1, b>>] = {c[2]}
    BY <1>3 DEF SliceValue, Cuttable
  <2>2. c \in h[<<a, k>>] \X h[<<k + 1, b>>]
    BY <2>1
  <2>3. SlicePrice(l, a, k, b) = card[S] + c[1] + c[2]
    BY <1>2
  <2> QED BY <2>2, <2>3
<1>4. ASSUME NEW k \in a..(b - 1), NEW x \in at(k)
      PROVE  Cuttable(l, a, k, b) /\ x = SlicePrice(l, a, k, b)
  <2>1. PICK c \in h[<<a, k>>] \X h[<<k + 1, b>>] : x = card[S] + c[1] + c[2]
    OBVIOUS
  <2>2. c[1] \in SliceValue(l, a, k) /\ c[2] \in SliceValue(l, k + 1, b)
    BY <2>1
  <2>3. HasPlan(Slice(l, a, k)) /\ c[1] = table[Slice(l, a, k)].cost
    BY <2>2 DEF SliceValue
  <2>4. HasPlan(Slice(l, k + 1, b)) /\ c[2] = table[Slice(l, k + 1, b)].cost
    BY <2>2 DEF SliceValue
  <2> QED BY <1>2, <2>1, <2>3, <2>4 DEF Cuttable
<1> HIDE DEF at
<1>5. costs \in SUBSET Nat
  <2> SUFFICES ASSUME NEW x \in costs PROVE x \in Nat
    OBVIOUS
  <2>1. PICK k \in a..(b - 1) : x \in at(k)
    BY <1>1
  <2> QED BY <1>2, <1>4, <2>1
<1>6. \A k \in a..(b - 1) : Cuttable(l, a, k, b) => SlicePrice(l, a, k, b) \in costs
  BY <1>1, <1>3
<1>7. \A x \in costs : \E k \in a..(b - 1) : Cuttable(l, a, k, b) /\ x = SlicePrice(l, a, k, b)
  BY <1>1, <1>4
<1> QED BY <1>5, <1>6, <1>7 DEF costs

(* What is left in the table is the best over all slices.                  *)
LEMMA FinalSlices ==
  ASSUME TypeOK, SidesHavePlans, NEW l, Order(l), NEW G, Scan(G, SliceCuts(l)), Finished,
         NEW h, \A w \in Intervals : h[w] = IntervalBody(l, w, h)
  PROVE  \A a, b \in 1..N : a <= b => h[<<a, b>>] = SliceValue(l, a, b)
<1> DEFINE Good == {w \in Intervals : w[1] <= w[2] => h[w] = SliceValue(l, w[1], w[2])}
<1>1. ASSUME NEW w \in Intervals, \A v \in Intervals : IntervalWidth[v] < IntervalWidth[w] => v \in Good,
             w[1] <= w[2]
      PROVE  h[w] = SliceValue(l, w[1], w[2])
  <2>0. PICK a \in 1..N, b \in 1..N : w = <<a, b>> /\ a = w[1] /\ b = w[2] /\ a <= b
    BY <1>1 DEF Intervals
  <2> PICK S, costs : S = Slice(l, a, b) /\ costs = IntervalCosts(l, <<a, b>>, h)
    OBVIOUS
  <2>1. S \in Subproblems /\ N \in Nat
    BY <2>0, SliceFacts, NFacts
  <2>2. h[w] = IF a = b THEN {table[S].cost} ELSE IF Connected(S) /\ costs # {} THEN {Min(costs)} ELSE {}
    BY <2>0 DEF IntervalBody
  <2>3. CASE a = b
    <3>1. S = {l[a]} /\ l[a] \in Relations
      <4>1. a..b = {a}
        BY <2>1, <2>3
      <4> QED BY <4>1 DEF Slice, Order
    <3>2. HasPlan(S)
      BY <3>1 DEF HasPlan, Singleton
    <3> QED BY <2>0, <2>2, <2>3, <3>2 DEF SliceValue
  <2>4. CASE a # b
    <3>0. a < b /\ <<a, b>> \in Bounds
      BY <2>0, <2>1, <2>4 DEF Bounds
    <3>1. ASSUME NEW k \in a..(b - 1)
          PROVE  h[<<a, k>>] = SliceValue(l, a, k) /\ h[<<k + 1, b>>] = SliceValue(l, k + 1, b)
      <4>1. /\ <<a, k>> \in Good /\ <<k + 1, b>> \in Good /\ a <= k /\ k + 1 <= b
        BY <1>1, <2>0, IntervalFacts
      <4> QED BY <4>1
    <3>2. /\ costs \in SUBSET Nat
          /\ \A k \in a..(b - 1) : Cuttable(l, a, k, b) => SlicePrice(l, a, k, b) \in costs
          /\ \A x \in costs : \E k \in a..(b - 1) : Cuttable(l, a, k, b) /\ x = SlicePrice(l, a, k, b)
      BY <3>0, <3>1, CostsOfSlice
    <3>3. ASSUME Linked(S), NEW j \in a..(b - 1), Cuttable(l, a, j, b)
          PROVE  HasPlan(S) /\ table[S].cost <= SlicePrice(l, a, j, b)
      <4>1. Beaten(SliceCut(l, a, j, b))
        BY <3>3, CutOfSlice, AllBeaten
      <4>2. Result(SliceCut(l, a, j, b)) = S
        BY <3>0, SliceCutFacts
      <4> QED BY <3>3, <4>1, <4>2 DEF Beaten, SliceCut, Cuttable, SlicePrice
    <3>4. Connected(S) <=> Linked(S)
      BY <2>1, ConnectedMeansLinked
    <3>5. CASE HasPlan(S)
      <4>1. Linked(S) /\ \E k \in a..(b - 1) : Cuttable(l, a, k, b) /\ table[S].cost = SlicePrice(l, a, k, b)
        BY <3>0, <3>5, PlanOfSlice DEF Cuttable, SlicePrice
      <4>2. table[S].cost \in costs
        BY <3>2, <4>1
      <4>3. \A x \in costs : table[S].cost <= x
        BY <3>2, <3>3, <4>1
      <4>4. Min(costs) \in costs /\ \A x \in costs : Min(costs) <= x
        BY <3>2, <4>2, LeastOf
      <4>5. Min(costs) \in Nat /\ table[S].cost \in Nat
        BY <3>2, <4>2, <4>4
      <4>6. Min(costs) <= table[S].cost /\ table[S].cost <= Min(costs)
        BY <4>2, <4>3, <4>4
      <4>7. Min(costs) = table[S].cost
        BY <4>5, <4>6
      <4>8. h[w] = {table[S].cost}
        BY <2>2, <2>4, <3>4, <4>1, <4>2, <4>7
      <4> QED BY <2>0, <3>5, <4>8 DEF SliceValue
    <3>6. CASE ~HasPlan(S)
      <4>1. ~(Connected(S) /\ costs # {})
        BY <3>2, <3>3, <3>4, <3>6
      <4>2. h[w] = {}
        BY <2>2, <2>4, <4>1
      <4> QED BY <2>0, <3>6, <4>2 DEF SliceValue
    <3> QED BY <3>5, <3>6
  <2> QED BY <2>3, <2>4
<1>2. Hereditary(Intervals, IntervalWidth, Good)
  <2> SUFFICES ASSUME NEW w \in Intervals, \A v \in Intervals : IntervalWidth[v] < IntervalWidth[w] => v \in Good
               PROVE  w \in Good
    BY DEF Hereditary
  <2>1. w[1] <= w[2] => h[w] = SliceValue(l, w[1], w[2])
    BY <1>1
  <2> QED BY <2>1
<1> HIDE DEF Good
<1>3. \A w \in Intervals : w \in Good
  BY <1>2, IntervalFacts, RankInduction
<1>4. ASSUME NEW a \in 1..N, NEW b \in 1..N, a <= b PROVE h[<<a, b>>] = SliceValue(l, a, b)
  <2>1. <<a, b>> \in Intervals /\ <<a, b>>[1] = a /\ <<a, b>>[2] = b
    BY DEF Intervals
  <2>2. <<a, b>> \in Good
    BY <1>3, <2>1
  <2> QED BY <1>4, <2>1, <2>2 DEF Good
<1> QED BY <1>4

(* The cost of a left-deep plan, prefix by prefix. *)
PrefixCards(l)    == [k \in 2..N |-> card[PrefixSet(l, k)]]
PrefixSources(l, k) == {{l[i]} : i \in 1..k}
PrefixCost(l, k)  == SumFunctionOnSet(CostOfPlan, PrefixSources(l, k)) + SumFunctionOnSet(PrefixCards(l), 2..k)

LEMMA PrefixFacts ==
  ASSUME GraphOK, NEW l, Order(l)
  PROVE  /\ \A k \in 1..N : PrefixSet(l, k) = Slice(l, 1, k) /\ PrefixSet(l, k) \in Subproblems /\ Linked(PrefixSet(l, k))
         /\ PrefixSet(l, N) = All
<1>0. N \in Nat /\ 1 \in 1..N /\ l \in Seq(Relations) /\ Len(l) = N /\ IsFiniteSet(Relations)
  BY NFacts DEF Order
<1>1. ASSUME NEW k \in 1..N PROVE PrefixSet(l, k) = Slice(l, 1, k) /\ PrefixSet(l, k) \in Subproblems
  <2>1. PrefixSet(l, k) = Slice(l, 1, k)
    BY DEF PrefixSet, Slice
  <2>2. Slice(l, 1, k) \in Subproblems
    BY <1>0, SliceFacts
  <2> QED BY <2>1, <2>2
<1> DEFINE Good == {k \in 1..N : Linked(PrefixSet(l, k))}
           rank == [k \in 1..N |-> k - 1]
<1>2. rank \in [1..N -> Nat]
  BY <1>0
<1>3. ASSUME NEW k \in 1..N, \A j \in 1..N : rank[j] < rank[k] => j \in Good PROVE k \in Good
  <2>1. CASE k = 1
    <3>1. PrefixSet(l, 1) = {l[1]} /\ l[1] \in Relations
      BY <1>0 DEF PrefixSet
    <3> QED BY <2>1, <3>1, SingletonLinked
  <2>2. CASE k # 1
    <3>1. PICK j \in 1..(N - 1) : k = j + 1 /\ j \in 1..N /\ rank[j] < rank[k]
      BY <1>0, <2>2
    <3>2. j \in Good
      BY <1>3, <3>1
    <3>3. l[k] \in Relations /\ {l[k]} \in Subproblems /\ Linked({l[k]})
      BY <1>0, SingletonLinked
    <3>4. PrefixSet(l, k) = PrefixSet(l, j) \cup {l[k]} /\ PrefixSet(l, j) \cap {l[k]} = {}
      <4>1. 1..k = (1..j) \cup {k} /\ \A i \in 1..j : i \in 1..N /\ i # k
        BY <3>1, <1>0
      <4> QED BY <4>1 DEF PrefixSet, Order
    <3>5. Joined(PrefixSet(l, j), {l[k]})
      <4>1. PICK u \in PrefixSet(l, j) : {u, l[k]} \in graph
        BY <3>1 DEF Order
      <4>2. l[k] \in Neighbors(PrefixSet(l, j))
        BY <3>3, <3>4, <4>1 DEF Neighbors
      <4> QED BY <4>2 DEF Joined
    <3> QED BY <1>1, <3>1, <3>2, <3>3, <3>4, <3>5, UnionLinked
  <2> QED BY <2>1, <2>2
<1> HIDE DEF Good, rank
<1>4. Hereditary(1..N, rank, Good)
  BY <1>3 DEF Hereditary
<1>5. \A k \in 1..N : k \in Good
  BY <1>2, <1>4, RankInduction
<1>6. PrefixSet(l, N) = All
  <2>1. \A i, j \in 1..N : l[i] = l[j] => i = j
    BY DEF Order
  <2>2. PrefixSet(l, N) = ToSet(l) /\ ToSet(l) \in SUBSET Relations
    BY <1>0, ToSetFacts DEF PrefixSet
  <2>3. Cardinality(ToSet(l)) = N
    <3>1. l \in Bijection(1..N, ToSet(l))
      <4>1. l \in [1..N -> ToSet(l)]
        BY <1>0 DEF ToSet
      <4>2. \A r \in ToSet(l) : \E i \in 1..N : l[i] = r
        BY <1>0 DEF ToSet
      <4> QED BY <2>1, <4>1, <4>2 DEF Bijection, Injection, Surjection, IsInjective
    <3>2. ExistsBijection(1..N, ToSet(l))
      BY <3>1 DEF ExistsBijection
    <3>3. IsFiniteSet(1..N) /\ Cardinality(1..N) = N
      BY <1>0, FS_Interval
    <3> QED BY <3>2, <3>3, FS_Bijection
  <2>4. ToSet(l) = Relations
    BY <1>0, <2>2, <2>3, FS_Subset DEF N
  <2> QED BY <2>2, <2>4 DEF All
<1> QED BY <1>1, <1>5, <1>6 DEF Good

LEMMA PrefixSums ==
  ASSUME TypeOK, GraphOK, NEW l, Order(l)
  PROVE  /\ PrefixCost(l, 1) = table[{l[1]}].cost
         /\ \A k \in 1..N : PrefixCost(l, k) \in Nat
         /\ \A k \in 1..(N - 1) :
              PrefixCost(l, k + 1) = PrefixCost(l, k) + table[{l[k + 1]}].cost + card[PrefixSet(l, k + 1)]
         /\ PrefixCost(l, N) = LeftDeepCost(l)
<1> DEFINE f == CostOfPlan
           g == PrefixCards(l)
<1>0. /\ N \in Nat /\ N # 0 /\ l \in Seq(Relations) /\ Len(l) = N
      /\ \A i, j \in 1..N : l[i] = l[j] => i = j
      /\ card \in [Subproblems -> Nat]
  BY NFacts DEF Order, TypeOK
<1>1. Numbers(f, Bottom) /\ SourceCost = SumFunctionOnSet(f, Bottom)
  BY TopFacts, CostsTyped, SourceCostFacts DEF Costs
<1>2. ASSUME NEW k \in 1..N
      PROVE  /\ PrefixSources(l, k) \in SUBSET Bottom /\ Numbers(f, PrefixSources(l, k))
             /\ f[{l[k]}] = table[{l[k]}].cost
  <2>1. \A i \in 1..k : l[i] \in Relations
    BY <1>0
  <2>2. PrefixSources(l, k) \in SUBSET Bottom
    BY <2>1 DEF PrefixSources, Bottom
  <2>3. Numbers(f, PrefixSources(l, k))
    <3> HIDE DEF f
    <3> QED BY <1>1, <2>2, FS_Subset DEF Numbers
  <2>4. {l[k]} \in Subproblems
    BY <1>0 DEF Subproblems
  <2> QED BY <2>2, <2>3, <2>4 DEF CostOfPlan
<1>3. ASSUME NEW k \in 1..N PROVE Numbers(g, 2..k)
  <2>1. ASSUME NEW i \in 2..k PROVE g[i] \in Nat
    <3>1. i \in 2..N /\ i \in 1..N
      BY <1>0
    <3>2. card[PrefixSet(l, i)] \in Nat
      BY <1>0, <3>1, PrefixFacts
    <3> QED BY <3>1, <3>2 DEF PrefixCards
  <2>2. IsFiniteSet(2..k)
    BY <1>0, FS_Interval
  <2> HIDE DEF g
  <2> QED BY <2>1, <2>2 DEF Numbers
<1> HIDE DEF f, g
<1>4. \A k \in 1..N : /\ SumFunctionOnSet(f, PrefixSources(l, k)) \in Nat
                      /\ SumFunctionOnSet(g, 2..k) \in Nat
  BY <1>2, <1>3, SumTyped
<1>5. \A k : PrefixCost(l, k) = SumFunctionOnSet(f, PrefixSources(l, k)) + SumFunctionOnSet(g, 2..k)
  BY DEF PrefixCost, f, g
<1>6. PrefixCost(l, 1) = table[{l[1]}].cost
  <2>1. 1 \in 1..N /\ 2..1 = {}
    BY <1>0
  <2>2. PrefixSources(l, 1) = {{l[1]}}
    BY DEF PrefixSources
  <2>3. SumFunctionOnSet(f, {{l[1]}}) = f[{l[1]}] + SumFunctionOnSet(f, {{l[1]}} \ {{l[1]}})
    BY <1>2, <2>1, <2>2, SumOf
  <2>4. {{l[1]}} \ {{l[1]}} = {}
    OBVIOUS
  <2>5. SumFunctionOnSet(f, {}) = 0 /\ SumFunctionOnSet(g, 2..1) = 0
    BY <2>1, SumEmpty
  <2>6. f[{l[1]}] = table[{l[1]}].cost /\ SumFunctionOnSet(f, PrefixSources(l, 1)) \in Nat
    BY <1>2, <1>4, <2>1
  <2>7. f[{l[1]}] \in Nat
    BY <1>2, <2>1, <2>2 DEF Numbers
  <2>8. f[{l[1]}] + 0 = f[{l[1]}]
    BY <2>7
  <2>9. SumFunctionOnSet(f, PrefixSources(l, 1)) = f[{l[1]}]
    BY <2>2, <2>3, <2>4, <2>5, <2>8, Zenon
  <2>10. PrefixCost(l, 1) = f[{l[1]}] + 0
    BY <1>5, <2>5, <2>9, Zenon
  <2> QED BY <2>6, <2>8, <2>10
<1>7. ASSUME NEW k \in 1..(N - 1)
      PROVE  PrefixCost(l, k + 1) = PrefixCost(l, k) + table[{l[k + 1]}].cost + card[PrefixSet(l, k + 1)]
  <2> PICK j \in 1..N : j = k + 1
    BY <1>0
  <2>0. k \in 1..N /\ j \in 2..j /\ j \in 2..N /\ (2..j) \ {j} = 2..k
    BY <1>0
  <2>1. /\ {l[j]} \in PrefixSources(l, j)
        /\ PrefixSources(l, j) \ {{l[j]}} = PrefixSources(l, k)
    <3>1. 1..j = (1..k) \cup {j} /\ \A i \in 1..k : i \in 1..N /\ i # j
      BY <1>0
    <3>2. \A i \in 1..k : {l[i]} # {l[j]}
      BY <1>0, <3>1
    <3>3. PrefixSources(l, j) = PrefixSources(l, k) \cup {{l[j]}}
      BY <3>1 DEF PrefixSources
    <3>4. {l[j]} \notin PrefixSources(l, k)
      BY <3>2 DEF PrefixSources
    <3> QED BY <3>3, <3>4
  <2>2. SumFunctionOnSet(f, PrefixSources(l, j)) = f[{l[j]}] + SumFunctionOnSet(f, PrefixSources(l, k))
    <3> PICK P, Q, x : P = PrefixSources(l, j) /\ Q = PrefixSources(l, k) /\ x = {l[j]}
      OBVIOUS
    <3>1. P \ {x} = Q
      BY <2>1
    <3>2. Numbers(f, P) /\ x \in P
      BY <1>2, <2>1
    <3>3. SumFunctionOnSet(f, P) = f[x] + SumFunctionOnSet(f, P \ {x})
      BY ONLY <3>2, SumOf
    <3> QED BY <3>1, <3>3, Zenon
  <2>3. SumFunctionOnSet(g, 2..j) = g[j] + SumFunctionOnSet(g, 2..k)
    BY <1>3, <2>0, SumOf
  <2>4. g[j] = card[PrefixSet(l, j)] /\ f[{l[j]}] = table[{l[j]}].cost
    BY <1>2, <2>0 DEF g, PrefixCards
  <2>5. g[j] \in Nat /\ f[{l[j]}] \in Nat
    BY <1>2, <1>3, <2>0, <2>1 DEF Numbers
  <2> PICK u \in Nat, v \in Nat : u = SumFunctionOnSet(f, PrefixSources(l, k)) /\ v = SumFunctionOnSet(g, 2..k)
    BY <1>4, <2>0
  <2>6. PrefixCost(l, k) = u + v /\ PrefixCost(l, j) = (f[{l[j]}] + u) + (g[j] + v)
    BY <1>5, <2>2, <2>3
  <2>7. PrefixCost(l, j) = PrefixCost(l, k) + f[{l[j]}] + g[j]
    <3> PICK x \in Nat, y \in Nat : x = f[{l[j]}] /\ y = g[j]
      BY <2>5
    <3>1. PrefixCost(l, j) = (x + u) + (y + v) /\ PrefixCost(l, k) = u + v
      BY <2>6, Zenon
    <3>2. (x + u) + (y + v) = (u + v) + x + y
      OBVIOUS
    <3> QED BY <3>1, <3>2, Zenon
  <2>8. PrefixCost(l, j) = PrefixCost(l, k) + table[{l[j]}].cost + card[PrefixSet(l, j)]
    BY <2>4, <2>7
  <2> QED BY <2>8, Zenon
<1>8. PrefixCost(l, N) = LeftDeepCost(l)
  <2>1. PrefixSources(l, N) = Bottom
    <3>1. \A r \in Relations : \E i \in 1..N : l[i] = r
      BY PrefixFacts DEF PrefixSet, All
    <3>2. \A i \in 1..N : l[i] \in Relations
      BY <1>0
    <3> QED BY <3>1, <3>2 DEF PrefixSources, Bottom
  <2>2. SumFunction(g) = SumFunctionOnSet(g, 2..N)
    <3>1. DOMAIN g = 2..N
      BY DEF g, PrefixCards
    <3> QED BY <3>1 DEF SumFunction
  <2>3. LeftDeepCost(l) = SourceCost + SumFunction(g)
    BY DEF LeftDeepCost, g, PrefixCards
  <2> QED BY <1>1, <1>5, <2>1, <2>2, <2>3
<1>9. \A k \in 1..N : PrefixCost(l, k) \in Nat
  BY <1>4, <1>5
<1> QED BY <1>6, <1>7, <1>8, <1>9

(* The plan is no worse than the left-deep one. *)
LEMMA PrefixPlans ==
  ASSUME TypeOK, GraphOK, NEW l, Order(l), NEW G, Scan(G, SliceCuts(l)), Finished
  PROVE  \A k \in 1..N : HasPlan(PrefixSet(l, k)) /\ table[PrefixSet(l, k)].cost <= PrefixCost(l, k)
<1>0. /\ N \in Nat /\ 1 \in 1..N /\ l \in Seq(Relations) /\ Len(l) = N
      /\ card \in [Subproblems -> Nat] /\ table \in [Subproblems -> Entries]
  BY NFacts DEF Order, TypeOK
<1> DEFINE Good == {k \in 1..N : HasPlan(PrefixSet(l, k)) /\ table[PrefixSet(l, k)].cost <= PrefixCost(l, k)}
           rank == [k \in 1..N |-> k - 1]
<1>1. rank \in [1..N -> Nat]
  BY <1>0
<1>2. ASSUME NEW k \in 1..N, \A j \in 1..N : rank[j] < rank[k] => j \in Good PROVE k \in Good
  <2>1. CASE k = 1
    <3>1. PrefixSet(l, 1) = {l[1]} /\ l[1] \in Relations
      BY <1>0 DEF PrefixSet
    <3>2. HasPlan(PrefixSet(l, 1))
      BY <3>1 DEF HasPlan, Singleton
    <3>3. table[{l[1]}].cost = PrefixCost(l, 1) /\ PrefixCost(l, 1) \in Nat
      BY <1>0, PrefixSums
    <3> QED BY <2>1, <3>1, <3>2, <3>3
  <2>2. CASE k # 1
    <3>1. PICK j \in 1..(N - 1) : k = j + 1 /\ j \in 1..N /\ rank[j] < rank[k] /\ j \in 1..(k - 1)
      BY <1>0, <2>2
    <3>2. HasPlan(PrefixSet(l, j)) /\ table[PrefixSet(l, j)].cost <= PrefixCost(l, j)
      BY <1>2, <3>1
    <3> PICK p : p = SliceCut(l, 1, j, k)
      OBVIOUS
    <3>3. p[1] = PrefixSet(l, j) /\ p[2] = {l[k]} /\ l[k] \in Relations
      <4>1. Slice(l, j + 1, k) = {l[k]}
        <5>1. (j + 1)..k = {k}
          BY <3>1
        <5> QED BY <5>1 DEF Slice
      <4>2. p[1] = Slice(l, 1, j)
        BY DEF SliceCut
      <4> QED BY <1>0, <3>1, <4>1, <4>2, PrefixFacts DEF SliceCut
    <3>4. Result(p) = PrefixSet(l, k)
      <4>1. <<1, k>> \in Bounds
        BY <1>0, <2>2 DEF Bounds
      <4>2. Result(p) = Slice(l, 1, k)
        BY <3>1, <4>1, SliceCutFacts
      <4> QED BY <4>2, PrefixFacts
    <3>5. p \in SliceCuts(l)
      <4>1. Linked(Slice(l, 1, k))
        BY PrefixFacts
      <4> QED BY <1>0, <3>1, <4>1, CutOfSlice
    <3>6. Beaten(p)
      BY <3>5, AllBeaten
    <3>7. HasPlan({l[k]})
      BY <3>3 DEF HasPlan, Singleton
    <3>8. HasPlan(PrefixSet(l, k)) /\ table[PrefixSet(l, k)].cost <= JoinCost(PrefixSet(l, j), {l[k]})
      BY <3>2, <3>3, <3>4, <3>6, <3>7 DEF Beaten
    <3>9. JoinCost(PrefixSet(l, j), {l[k]}) = card[PrefixSet(l, k)] + table[PrefixSet(l, j)].cost + table[{l[k]}].cost
      BY <3>3, <3>4 DEF JoinCost, Result
    <3>10. PrefixCost(l, k) = PrefixCost(l, j) + table[{l[k]}].cost + card[PrefixSet(l, k)] /\ PrefixCost(l, j) \in Nat
      BY <3>1, PrefixSums
    <3>11. /\ card[PrefixSet(l, k)] \in Nat /\ table[PrefixSet(l, k)].cost \in Nat
           /\ table[PrefixSet(l, j)].cost \in Nat /\ table[{l[k]}].cost \in Nat
      <4>1. PrefixSet(l, k) \in Subproblems /\ PrefixSet(l, j) \in Subproblems
        BY <3>1, PrefixFacts
      <4>2. {l[k]} \in Subproblems
        BY <3>3, SingletonLinked
      <4> QED BY <1>0, <4>1, <4>2 DEF Entries
    <3>12. table[PrefixSet(l, k)].cost <= PrefixCost(l, k)
      BY <3>2, <3>8, <3>9, <3>10, <3>11
    <3> QED BY <3>8, <3>12
  <2> QED BY <2>1, <2>2
<1> HIDE DEF Good, rank
<1>3. Hereditary(1..N, rank, Good)
  BY <1>2 DEF Hereditary
<1>4. \A k \in 1..N : k \in Good
  BY <1>1, <1>3, RankInduction
<1> QED BY <1>4 DEF Good

LEMMA LinScanIsBest ==
  ASSUME OrderingInv, NEW l \in Linearizations, NEW G, Scan(G, SliceCuts(l)), Finished
  PROVE  HasPlan(All) /\ IntervalBest(l) = {table[All].cost} /\ table[All].cost <= LeftDeepCost(l)
<1>0. TypeOK /\ SidesHavePlans /\ GraphOK /\ N \in Nat /\ 1 \in 1..N /\ N \in 1..N /\ 1 <= N
  BY NFacts DEF OrderingInv
<1>1. Order(l)
  BY <1>0, LinearizationsFacts
<1>2. PICK h : (\A w \in Intervals : h[w] = IntervalBody(l, w, h)) /\ IntervalBest(l) = h[<<1, N>>]
  BY <1>0, <1>1, IntervalEquation
<1>3. \A a, b \in 1..N : a <= b => h[<<a, b>>] = SliceValue(l, a, b)
  BY <1>0, <1>1, <1>2, FinalSlices
<1>4. IntervalBest(l) = SliceValue(l, 1, N)
  BY <1>0, <1>2, <1>3
<1>5. Slice(l, 1, N) = All /\ PrefixSet(l, N) = All
  BY <1>0, <1>1, PrefixFacts
<1>6. HasPlan(All) /\ table[All].cost <= LeftDeepCost(l)
  BY <1>0, <1>1, <1>5, PrefixPlans, PrefixSums
<1> QED BY <1>4, <1>5, <1>6 DEF SliceValue

(* The sequences that IKKBZ may choose do not change: the same definitions *)
(* with the graph, the cardinalities and the cost of the sources as        *)
(* parameters.                                                             *)
LighterIn(c, e, f) ==
  LET weight(g, h) == FoldSet(LAMBDA r, w : c[{r}] * w, c[g], h)
  IN  weight(e, f) < weight(f, e)
SpanningTreesIn(g, c) ==
  LET from[V \in SUBSET Relations] ==
        LET out == {e \in g : e \cap V # {} /\ ~(e \subseteq V)}
            lightest == {e \in out : \A f \in out : ~LighterIn(c, f, e)}
        IN  IF out = {} THEN {{}} ELSE UNION {{T \cup {e} : T \in from[V \cup e]} : e \in lightest}
  IN  from[{0}]
LowerRankIn(c, e, u, f, v) ==
  (c[e] - c[e \ {u}]) * c[{v}] < (c[f] - c[f \ {v}]) * c[{u}]
LinearizationsFromIn(c, tree, root) ==
  LET from[J \in SUBSET Relations] ==
        LET out == {d \in tree \X (Relations \ J) : d[2] \in d[1] /\ d[1] \cap J # {}}
            lowest == {d \in out : \A e \in out : ~LowerRankIn(c, e[1], e[2], d[1], d[2])}
        IN  IF out = {} THEN {<<>>}
            ELSE UNION {{<<d[2]>> \o l : l \in from[J \cup {d[2]}]} : d \in lowest}
  IN  {<<root>> \o l : l \in from[{root}]}
LeftDeepCostIn(c, s, l) == s + SumFunction([k \in 2..N |-> c[PrefixSet(l, k)]])
LinearizationsIn(g, c, s) ==
  UNION {
    LET of(root) == LinearizationsFromIn(c, tree, root)
        beats(l, m) == \/ LeftDeepCostIn(c, s, l) < LeftDeepCostIn(c, s, m)
                       \/ LeftDeepCostIn(c, s, l) = LeftDeepCostIn(c, s, m) /\ l[1] < m[1]
    IN  {l \in UNION {of(r) : r \in Relations} :
           \A r \in Relations \ {l[1]} : \E m \in of(r) : beats(l, m)} :
    tree \in SpanningTreesIn(g, c)}

LEMMA SameLinearizations ==
  ASSUME UNCHANGED <<graph, card, SourceCost>>
  PROVE  Linearizations' = Linearizations
<1>1. Linearizations = LinearizationsIn(graph, card, SourceCost)
  BY Zenon DEF Linearizations, LinearizationsIn, LinearizationsFrom, LinearizationsFromIn,
     SpanningTrees, SpanningTreesIn, Lighter, LighterIn, LowerRank, LowerRankIn, LeftDeepCost, LeftDeepCostIn
<1>2. Linearizations' = LinearizationsIn(graph', card', SourceCost')
  BY Zenon DEF Linearizations, LinearizationsIn, LinearizationsFrom, LinearizationsFromIn,
     SpanningTrees, SpanningTreesIn, Lighter, LighterIn, LowerRank, LowerRankIn, LeftDeepCost, LeftDeepCostIn,
     FoldSet, MapThenFoldSet, SumFunction, SumFunctionOnSet, FoldFunctionOnSet
<1> QED BY <1>1, <1>2, Zenon

LEMMA SameSliceCuts ==
  ASSUME UNCHANGED graph
  PROVE  \A l : SliceCuts(l)' = SliceCuts(l)
<1>1. \A S : Linked(S)' <=> Linked(S)
  BY SameGraph DEF Linked
<1>2. \A l : LinkedBounds(l)' = LinkedBounds(l)
  BY <1>1 DEF LinkedBounds, Slice, Bounds
<1> QED BY <1>2 DEF SliceCuts, CutsWithin, SliceCut, Slice

LinInv ==
  algo = "LinearizedDP" =>
    \/ tasks = <<<<"enumerate">>>> /\ NoPlans
    \/ \E l \in Linearizations : Scan(Subproblems, SliceCuts(l))

LEMMA LinInvStep ==
  ASSUME OrderingInv, CommitInv, LinInv, [OrderingNext]_orderingVars
  PROVE  LinInv'
<1>0. TypeOK /\ SidesHavePlans /\ TasksOK /\ GraphOK /\ [Next]_vars
  BY OrderingStep DEF OrderingInv
<1>a. SourceCost' = SourceCost /\ card' = card
  BY <1>0, SourceCostKept
<1>1. ASSUME NEW l \in Linearizations
      PROVE  /\ Order(l) /\ Scheme(Subproblems, SliceCuts(l)) /\ SliceCuts(l) \in SUBSET Splits
  <2>1. Order(l)
    BY <1>0, LinearizationsFacts
  <2>2. SliceCuts(l) \in SUBSET Splits
    BY <2>1, SliceCutsFacts
  <2>3. \A r \in Relations : {r} \in Subproblems
    BY DEF Subproblems
  <2>4. \A p \in Splits : Result(p) \in Subproblems
    BY ResultFacts
  <2> QED BY <2>1, <2>2, <2>3, <2>4 DEF Scheme
<1>2. ASSUME UNCHANGED <<graph, algo>>, NEW l \in Linearizations, NEW C, C = SliceCuts(l), Scan(Subproblems, C)'
      PROVE  LinInv'
  <2>1. l \in Linearizations'
    BY <1>a, <1>2, SameLinearizations
  <2>2. SliceCuts(l)' = C
    BY <1>2, SameSliceCuts
  <2>3. Scan(Subproblems, SliceCuts(l))'
    BY <1>2, <2>2
  <2> QED BY <2>1, <2>3 DEF LinInv
<1>3. CASE EnumNext /\ algo = "LinearizedDP"
  <2>0. UNCHANGED <<graph, algo>>
    BY <1>3 DEF EnumNext, Enumerate, SolveSubproblem, ConsiderJoin
  <2>1. CASE tasks = <<<<"enumerate">>>> /\ NoPlans
    <3>1. ~Finished => tasks[Next1][1] = "enumerate"
      <4>1. tasks \in Seq({<<"enumerate">>})
        BY <2>1
      <4>2. ~Finished => tasks[Next1] \in {<<"enumerate">>}
        BY <4>1, FirstApplies
      <4> QED BY <4>2
    <3>2. Enumerate
      BY <1>3, <3>1 DEF EnumNext, Enumerate, SolveSubproblem, ConsiderJoin
    <3>3. PICK l \in Linearizations : tasks' = Joins(LinearizedDP(l)) /\ UNCHANGED table
      BY <1>3, <3>2 DEF Enumerate, FirstTasks
    <3> PICK G, C, s : G = Subproblems /\ C = SliceCuts(l) /\ s = LinearizedDP(l)
      OBVIOUS
    <3>4. Exhausts(s, C) /\ ToSet(s) \subseteq C /\ C \in SUBSET Splits
      BY <1>1, <3>3, LinearizedDPExhausts
    <3>5. \A i \in 1..Len(s) : s[i] \in C
      BY <3>4, ToSetFacts DEF Exhausts
    <3>6. Scan(G, C)'
      BY <2>1, <3>3, <3>4, <3>5, ScanBegins
    <3> QED BY <1>2, <2>0, <3>6
  <2>2. CASE \E l \in Linearizations : Scan(Subproblems, SliceCuts(l))
    <3> PICK l \in Linearizations : Scan(Subproblems, SliceCuts(l))
      BY <2>2
    <3> PICK G, C : G = Subproblems /\ C = SliceCuts(l)
      OBVIOUS
    <3>1. ~Finished => tasks[Next1][1] = "join"
      <4>1. tasks \in Seq(JoinTasks)
        BY DEF Scan
      <4>2. ~Finished => tasks[Next1] \in JoinTasks
        BY <4>1, FirstApplies
      <4> QED BY <4>2, JoinTaskFacts
    <3>2. ConsiderJoin
      BY <1>3, <3>1 DEF EnumNext, Enumerate, SolveSubproblem, ConsiderJoin
    <3>3. Scheme(G, C) /\ Scan(G, C)
      BY <1>1
    <3>4. Scan(G, C)'
      BY <1>0, <3>2, <3>3, ScanStep
    <3> QED BY <1>2, <2>0, <3>4
  <2> QED BY <1>3, <2>1, <2>2 DEF LinInv
<1>4. CASE EnumNext /\ algo # "LinearizedDP"
  BY <1>4 DEF EnumNext, Enumerate, SolveSubproblem, ConsiderJoin, LinInv
<1>5. CASE SearchNext /\ UNCHANGED hs
  <2>1. algo = "TwoPhaseOptimizer" /\ algo' = algo
    BY <1>5 DEF SearchNext, Seed, Restart, Iterate, Try, Climb, EndClimb, Anneal, Propose, Accept, Commit,
       Idle, Evaluate, CommitInv
  <2> QED BY <2>1 DEF LinInv
<1>6. CASE HeuristicNext /\ UNCHANGED search
  <2>1. algo \in {"AStar", "HeuristicSearch"} /\ algo' = algo
    BY <1>6 DEF HeuristicNext, MaySearch, EndWith, CommitInv,
       StartSearch, Explore, ReachGoal, ExhaustBudget, FallBack
  <2> QED BY <2>1 DEF LinInv
<1>7. CASE UNCHANGED orderingVars
  <2>1. UNCHANGED <<graph, algo, card, table, tasks>>
    BY <1>7 DEF orderingVars, vars
  <2>2. ASSUME NEW C, Scan(Subproblems, C) PROVE Scan(Subproblems, C)'
    BY <2>1, <2>2 DEF Scan, PricedIn, Weighed, Open, Waiting, Beaten, HasPlan, JoinCost, UnionOf, Result, Join, Swapped
  <2>3. tasks = <<<<"enumerate">>>> /\ NoPlans => LinInv'
    BY <2>1 DEF LinInv, NoPlans
  <2>4. algo # "LinearizedDP" => LinInv'
    BY <2>1 DEF LinInv
  <2>5. ASSUME NEW l \in Linearizations, Scan(Subproblems, SliceCuts(l)) PROVE LinInv'
    <3> PICK C : C = SliceCuts(l)
      OBVIOUS
    <3>1. Scan(Subproblems, C)'
      BY <2>2, <2>5
    <3> QED BY <1>2, <2>1, <3>1
  <2> QED BY <2>3, <2>4, <2>5 DEF LinInv
<1> QED BY <1>3, <1>4, <1>5, <1>6, <1>7, Zenon DEF OrderingNext

(* The sliding window of LinearizedDP meets every slice of the sequence    *)
(* after the slices within it, and skips one only if it cannot be planned: *)
(* it leaves the best plan whose subproblems are all slices, and so one at *)
(* most as expensive as the left-deep plan that IKKBZ would take.          *)
THEOREM LinearizedPlansBest == OrderingSpec => [](LinearizedBest /\ (algo = "LinearizedDP" => BestPlans))
<1>1. OrderingInit => CommitInv /\ LinInv
  <2> SUFFICES ASSUME OrderingInit PROVE CommitInv /\ LinInv
    OBVIOUS
  <2>1. CommitInv
    BY DEF OrderingInit, SearchInit, CommitInv
  <2>2. NoPlans
    BY DEF OrderingInit, EnumInit, Init, InitTable, NoPlans
  <2> QED BY <2>1, <2>2 DEF OrderingInit, EnumInit, LinInv
<1>2. OrderingInv /\ (CommitInv /\ LinInv) /\ [OrderingNext]_orderingVars => (CommitInv /\ LinInv)'
  BY CommitStep, LinInvStep
<1>3. OrderingInv /\ LinInv => LinearizedBest /\ (algo = "LinearizedDP" => BestPlans)
  <2> SUFFICES ASSUME OrderingInv, LinInv, algo = "LinearizedDP", Finished
               PROVE  /\ HasPlan(All)
                      /\ \E l \in Linearizations :
                           IntervalBest(l) = {table[All].cost} /\ table[All].cost <= LeftDeepCost(l)
    BY DEF LinearizedBest, BestPlans, Exact
  <2>1. tasks # <<<<"enumerate">>>>
    <3> SUFFICES ASSUME tasks = <<<<"enumerate">>>> PROVE FALSE
      OBVIOUS
    <3>1. Applies(tasks[1]) /\ 1 \in 1..Len(tasks)
      BY DEF Applies
    <3> QED BY <3>1 DEF Finished
  <2>2. PICK l \in Linearizations : Scan(Subproblems, SliceCuts(l))
    BY <2>1 DEF LinInv
  <2> QED BY <2>2, LinScanIsBest
<1> QED BY OrderingInvariant, <1>1, <1>2, <1>3, PTL DEF OrderingSpec
===============================================================================
