---------------------------- MODULE PlanEnumerators ----------------------------
(***************************************************************************)
(* The plan enumerators of src/IR/PlanEnumerator.cpp on a connected query  *)
(* graph.  Each one is the order in which it considers joins: a list of    *)
(* tasks, taken one by one, that depends on the graph, the estimates and,  *)
(* through has_plan(), on the plan table.  A set of relations is a bit set *)
(* of the code, ordered by its value.                                      *)
(***************************************************************************)
EXTENDS PlanTable, Sequences, SequencesExt, FiniteSetsExt

CONSTANTS
  Graphs,       \* the query graphs considered, as sets of edges {u, v}
  Enumerators   \* the plan enumerators considered

VARIABLES graph, algo, tasks

N == Cardinality(Relations)
ASSUME BitSetsAssumption == Relations = 0..(N - 1)

(* Edges join two relations, and no part of a graph is cut off.            *)
ASSUME GraphsAssumption ==
  \A g \in Graphs :
    /\ \A e \in g : \E u, v \in Relations : u # v /\ e = {u, v}
    /\ \A S \in Subproblems \ {Relations} : \E u \in S, v \in Relations \ S : {u, v} \in g

-----------------------------------------------------------------------------
(* Sequences, and bit sets *)

Flatten(s) == FlattenSeq(s)

(* SelectSeq, of the elements of s that are in F. *)
Within(s, F) ==
  LET kept[i \in 0..Len(s)] ==
        IF i = 0 THEN <<>> ELSE kept[i - 1] \o (IF s[i] \in F THEN <<s[i]>> ELSE <<>>)
  IN  kept[Len(s)]

(* The first of the least elements of a sequence of numbers. *)
FirstLeast(v) ==
  CHOOSE i \in 1..Len(v) : \A j \in 1..Len(v) : v[i] <= v[j] /\ (j < i => v[i] < v[j])

(* All sets in the order of their values, and that order. *)
Bits ==
  LET of[k \in 0..N] ==
        IF k = 0 THEN <<{}>> ELSE of[k - 1] \o [i \in 1..Len(of[k - 1]) |-> of[k - 1][i] \cup {k - 1}]
  IN  of[N]
Lesser(S, T) == S # T /\ Max((S \ T) \cup (T \ S)) \in T
ByValue(F)   == Within(Bits, F)
Ascending(S) == Within([i \in 1..N |-> i - 1], S)

(* The non-empty strict subsets of S, by least_subset() and next_subset(). *)
SubsetsInOrder == [S \in Subproblems |-> ByValue((SUBSET S) \ {{}, S})]
OfSize(k) == ByValue({S \in Subproblems : Cardinality(S) = k})

-----------------------------------------------------------------------------
(* The query graph *)

Neighbors(S) == {v \in Relations \ S : \E u \in S : {u, v} \in graph}
Joined(L, R) == Neighbors(L) \cap R # {}

(* reachable(), by adding neighbors until nothing changes. *)
Reach(src, S) ==
  LET grow[k \in 0..N] ==
        IF k = 0 THEN src \cap S
        ELSE LET R == grow[k - 1] IN R \cup (Neighbors(R) \cap S)
  IN  grow[N]
Connected(S) == Reach({Min(S)}, S) = S

(* for_each_CSG_undirected(): the connected subsets of super that contain  *)
(* a vertex of source, from each source breadth first, level by level.  X  *)
(* is what a search must not add any more.                                 *)
Extensions(super, S, X) ==
  LET nbrs == (Neighbors(S) \cap super) \ X
      some == ByValue((SUBSET nbrs) \ {{}})
  IN  [i \in 1..Len(some) |-> <<S \cup some[i], X \cup nbrs>>]
SearchFrom(super, S, X) ==
  LET level[k \in 0..N] ==
        IF k = 0 THEN <<<<S, X>>>>
        ELSE LET last == level[k - 1]
             IN  Flatten([i \in 1..Len(last) |-> Extensions(super, last[i][1], last[i][2])])
      found(q) == [i \in 1..Len(q) |-> q[i][1]]
  IN  Flatten([k \in 1..N |-> found(level[k - 1])])

ConnectedSubgraphs(super, source) ==
  LET from == Ascending(source \cap super)
  IN  Flatten([i \in 1..Len(from) |->
        SearchFrom(super, {from[i]}, {u \in source \cap super : u > from[i]})])

(* MinCutAGaT: the cuts of S into two connected parts.  The worklist is a  *)
(* stack: of the vertices that extend C the last one comes first.          *)
RestConnected(S, C, T) ==
  LET near == Neighbors(T) \cap (S \ C)
  IN  Cardinality(near) <= 1 \/ near \subseteq Reach({Min(near)}, S \ C)
CutVertices(S, C, X) == Reverse(Ascending((Neighbors(C) \cap S) \ X))
MinCuts(S) ==
  LET cuts[entry \in (SUBSET S) \X (SUBSET S) \X (SUBSET S)] ==
        LET C == entry[1]
            X == entry[2]
            T == entry[3]
            T1   == IF RestConnected(S, C, T) THEN {} ELSE C
            grow == CutVertices(S, C, X)
            more == [i \in 1..Len(grow) |->
                      cuts[<<C \cup {grow[i]}, X \cup {v \in ToSet(grow) : v < grow[i]}, T1 \cup {grow[i]}>>]]
        IN  (IF RestConnected(S, C, T) THEN <<<<C, S \ C>>>> ELSE <<>>) \o
            (IF Cardinality(C) + 1 >= Cardinality(S) THEN <<>> ELSE Flatten(more))
  IN  cuts[<<{Min(S)}, {}, {Min(S)}>>]

-----------------------------------------------------------------------------
(* The joins that the enumerators consider, in order *)

All == Relations
Dissect(S) == [i \in 1..Len(SubsetsInOrder[S]) |->
                <<SubsetsInOrder[S][i], S \ SubsetsInOrder[S][i]>>]
DissectAll(F) == Flatten([i \in 1..Len(F) |-> Dissect(F[i])])
Pairs(F, G) == Flatten([i \in 1..Len(F) |-> [j \in 1..Len(G) |-> <<F[i], G[j]>>]])
DisjointMutant(s) == Within(s, {p \in ToSet(s) : p[1] \cap p[2] = {}})
Disjoint(s) == Within(s, {p \in ToSet(s) : p[1] \cap p[2] = {} /\ Joined(p[1], p[2])})
(* Of the two orientations of a dissection, the one whose right side holds *)
(* the highest relation: the loop ends at the singleton of that relation.  *)
HalfOf(s) == Within(s, {p \in ToSet(s) : Max(p[1]) < Max(p[2])})

AllInOrder == ByValue({S \in Subproblems : Cardinality(S) > 1})
ConnectedOnes == {S \in Subproblems : Connected(S)}
AllConnected == Within(AllInOrder, ConnectedOnes)

DPsize ==
  Flatten([s \in 1..(N - 1) |-> Flatten([s1 \in 1..s |->
    Disjoint(Pairs(OfSize(s1), OfSize(s + 1 - s1)))])])

(* Not the mirror images; of two sets of one size the lesser comes first. *)
DPsizeOptHalfMutant(s) == (s - 1) \div 2
DPsizeOptHalf(s) == s \div 2
DPsizeOpt ==
  Flatten([s \in 1..(N - 1) |-> Flatten([s1 \in 1..DPsizeOptHalf(s + 1) |->
    LET ps == Disjoint(Pairs(OfSize(s1), OfSize(s + 1 - s1)))
    IN  IF 2 * s1 = s + 1 THEN Within(ps, {p \in ToSet(ps) : Lesser(p[1], p[2])}) ELSE ps])])

DPsizeSub ==
  Flatten([s \in 1..(N - 1) |-> DissectAll(Within(OfSize(s + 1), ConnectedOnes))])

DPsub    == DissectAll(AllConnected)
DPsubOpt == HalfOf(DPsub)
PEall    == HalfOf(DissectAll(AllInOrder))

(* for_each_CSG_pair_undirected() *)
DPccp ==
  LET first == ConnectedSubgraphs(All, All)
      partners(S) == ConnectedSubgraphs({v \in All \ S : v <= Max(S)}, Neighbors(S))
  IN  Flatten([i \in 1..Len(first) |->
        LET second == partners(first[i])
        IN  [j \in 1..Len(second) |-> <<first[i], second[j]>>]])

(* GOO: join the two nodes with the smallest result, the first such pair of *)
(* the array; the last node takes the place of the right one.               *)
BestPair(nodes) ==
  LET k   == Len(nodes)
      may == Disjoint(Flatten([i \in 1..k |-> [j \in 1..(k - i) |-> <<nodes[i], nodes[i + j]>>]]))
  IN  may[FirstLeast([i \in 1..Len(may) |-> card[may[i][1] \cup may[i][2]]])]
Merged(nodes) ==
  LET best == BestPair(nodes)
      k    == Len(nodes)
  IN  [i \in 1..(k - 1) |->
        CASE nodes[i] = best[1] -> best[1] \cup best[2]
          [] nodes[i] = best[2] -> nodes[k]
          [] OTHER -> nodes[i]]
GOOFrom(nodes) ==
  LET after[i \in 0..(Len(nodes) - 1)] == IF i = 0 THEN nodes ELSE Merged(after[i - 1])
  IN  [i \in 1..(Len(nodes) - 1) |-> BestPair(after[i - 1])]
GOO == GOOFrom([i \in 1..N |-> {i - 1}])

(* TDGOO: cut into the two parts with the smallest results, until all are  *)
(* single relations; the joins are considered in reverse order.            *)
BestCut(S) ==
  LET cuts == MinCuts(S)
  IN  cuts[FirstLeast([i \in 1..Len(cuts) |-> card[cuts[i][1]] + card[cuts[i][2]]])]
TDGOOFrom(worklist) ==
  LET below[S \in Subproblems] ==
        IF Singleton(S) THEN <<>>
        ELSE LET best == BestCut(S) IN below[best[1]] \o below[best[2]] \o <<best>>
  IN  Flatten([i \in 1..Len(worklist) |-> below[worklist[i]]])
TDGOO == TDGOOFrom(<<All>>)

-----------------------------------------------------------------------------
(* IKKBZ and LinearizedDP.  Priority queues may return any of several      *)
(* least elements.                                                         *)

(* minimum_spanning_forest() by Prim, weighed by the selectivity of joins. *)
Lighter(e, f) ==
  LET weight(g, h) == FoldSet(LAMBDA r, w : card[{r}] * w, card[g], h)
  IN  weight(e, f) < weight(f, e)
SpanningTrees ==
  LET from[V \in SUBSET Relations] ==
        LET out == {e \in graph : e \cap V # {} /\ ~(e \subseteq V)}
            lightest == {e \in out : \A f \in out : ~Lighter(f, e)}
        IN  IF out = {} THEN {{}} ELSE UNION {{T \cup {e} : T \in from[V \cup e]} : e \in lightest}
  IN  from[{0}]

(* linearize(): always the relation of the least rank, from a given root.  *)
LowerRank(e, u, f, v) ==
  (card[e] - card[e \ {u}]) * card[{v}] < (card[f] - card[f \ {v}]) * card[{u}]
LinearizationsFrom(tree, root) ==
  LET from[J \in SUBSET Relations] ==
        LET out == {c \in tree \X (Relations \ J) : c[2] \in c[1] /\ c[1] \cap J # {}}
            lowest == {c \in out : \A d \in out : ~LowerRank(d[1], d[2], c[1], c[2])}
        IN  IF out = {} THEN {<<>>}
            ELSE UNION {{<<c[2]>> \o l : l \in from[J \cup {c[2]}]} : c \in lowest}
  IN  {<<root>> \o l : l \in from[{root}]}

PrefixSet(l, k) == {l[i] : i \in 1..k}
SourceCost == SumFunction([S \in {{r} : r \in Relations} |-> table[S].cost])
LeftDeepCost(l) == SourceCost + SumFunction([k \in 2..N |-> card[PrefixSet(l, k)]])

(* The cheapest one, of equally cheap ones that of the first root. *)
Linearizations ==
  UNION {
    LET of(root) == LinearizationsFrom(tree, root)
        beats(l, m) == \/ LeftDeepCost(l) < LeftDeepCost(m)
                       \/ LeftDeepCost(l) = LeftDeepCost(m) /\ l[1] < m[1]
    IN  {l \in UNION {of(r) : r \in Relations} :
           \A r \in Relations \ {l[1]} : \E m \in of(r) : beats(l, m)} :
    tree \in SpanningTrees}

RightDeep(l) == [k \in 1..(N - 1) |-> <<{l[k + 1]}, PrefixSet(l, k)>>]

(* The sequence slides to one end, grows there, and slides back: those of  *)
(* an even length move to the right.                                       *)
Windows ==
  Flatten([w \in 1..(N - 1) |-> [k \in 1..(N - w) |->
    IF w % 2 = 1 THEN <<k, k + w>> ELSE <<N - w - k + 1, N - k + 1>>]])

Slice(l, i, j) == {l[k] : k \in i..j}
SplitPointsMutant(w) == w[2] - w[1] - 1
SplitPoints(w) == w[2] - w[1]
LinearizedDP(l) ==
  LET ws == Within(Windows, {w \in ToSet(Windows) : Connected(Slice(l, w[1], w[2]))})
  IN  Flatten([i \in 1..Len(ws) |-> [k \in 1..SplitPoints(ws[i]) |->
        <<Slice(l, ws[i][1], ws[i][1] + k - 1), Slice(l, ws[i][1] + k, ws[i][2])>>]])

-----------------------------------------------------------------------------
(* The tasks: to run an enumerator; to consider a join; top down, to solve *)
(* a subproblem; to visit a join only if its subproblem has no plan yet.   *)

Join(p)  == <<"join", p[1], p[2]>>
Solve(S) == <<"solve", S>>
Joins(s) == [i \in 1..Len(s) |-> Join(s[i])]

(* LinearizedDP does nothing for a single source. *)
FirstTasks ==
  CASE algo = "PEall"     -> {Joins(PEall)}
    [] algo = "DPsize"    -> {Joins(DPsize)}
    [] algo = "DPsizeOpt" -> {Joins(DPsizeOpt)}
    [] algo = "DPsizeSub" -> {Joins(DPsizeSub)}
    [] algo = "DPsub"     -> {Joins(DPsub)}
    [] algo = "DPsubOpt"  -> {Joins(DPsubOpt)}
    [] algo = "DPccp"     -> {Joins(DPccp)}
    [] algo = "GOO"       -> {Joins(GOO)}
    [] algo = "TDGOO"     -> {Joins(TDGOO)}
    [] algo = "IKKBZ"     -> {Joins(RightDeep(l)) : l \in Linearizations}
    [] algo = "LinearizedDP" -> {Joins(LinearizedDP(l)) : l \in Linearizations}
    [] algo \in {"TDbasic", "TDMinCutAGaT"} -> {<<Solve(All)>>}
    [] OTHER -> {}

(* PlanGen() of TDbasic, and the partitioning of TDMinCutAGaT. *)
Partition(S) ==
  IF algo = "TDbasic"
    THEN Within(Dissect(S), {p \in ToSet(Dissect(S)) :
                               Min(p[1]) < Min(p[2]) /\ Connected(p[1]) /\ Connected(p[2])})
    ELSE MinCuts(S)
SubTasksMutant(S) ==
  LET ps == Partition(S)
  IN  Flatten([i \in 1..Len(ps) |-> <<Solve(ps[i][1]), Join(ps[i]), Solve(ps[i][2])>>])
SubTasks(S) ==
  LET ps == Partition(S)
  IN  Flatten([i \in 1..Len(ps) |-> <<Solve(ps[i][1]), Solve(ps[i][2]), Join(ps[i])>>])

(* The enumerators that test has_plan() before a join, and skip it: a      *)
(* subproblem that is not connected has no plan.  The others rely on the   *)
(* order of their joins, whether they assert it or not.                    *)
TestsPlans == {"DPsize", "DPsizeOpt", "DPsizeSub", "DPsub", "DPsubOpt", "LinearizedDP"}
Applies(task) ==
  CASE task[1] = "enumerate" -> TRUE
    [] task[1] = "solve" -> ~HasPlan(task[2])
    [] task[1] = "join"  -> algo \in TestsPlans => HasPlan(task[2]) /\ HasPlan(task[3])
    [] task[1] = "visit" -> ~HasPlan(task[2] \cup task[3])

Finished == \A i \in 1..Len(tasks) : ~Applies(tasks[i])

EnumInit ==
  /\ Init
  /\ graph \in Graphs /\ algo \in Enumerators
  /\ tasks = <<<<"enumerate">>>>

(* The first task that applies; those before it are dropped. *)
Next1 == CHOOSE i \in 1..Len(tasks) : Applies(tasks[i]) /\ \A j \in 1..(i - 1) : ~Applies(tasks[j])
Rest  == SubSeq(tasks, Next1 + 1, Len(tasks))

Enumerate ==
  /\ ~Finished /\ tasks[Next1][1] = "enumerate"
  /\ tasks' \in FirstTasks
  /\ UNCHANGED <<card, table, graph, algo>>

SolveSubproblem ==
  /\ ~Finished /\ tasks[Next1][1] = "solve"
  /\ tasks' = SubTasks(tasks[Next1][2]) \o Rest
  /\ UNCHANGED <<card, table, graph, algo>>

ConsiderJoin ==
  /\ ~Finished /\ tasks[Next1][1] \in {"join", "visit"}
  /\ Update(tasks[Next1][2], tasks[Next1][3])
  /\ tasks' = Rest
  /\ UNCHANGED <<graph, algo>>

EnumNext == Enumerate \/ SolveSubproblem \/ ConsiderJoin

-----------------------------------------------------------------------------
(* construct_join_order(): below each join its sides are constructed       *)
(* first; then it takes the conditions, still left, whose sources it has.  *)

TakenMutant(S, left) == {e \in left : e \cap S # {}}
Taken(S, left)       == {e \in left : e \subseteq S}

Construct ==
  LET construct[call \in Subproblems \X SUBSET graph] ==
        LET S == call[1]
            a == construct[<<table[S].left, call[2]>>]
            b == construct[<<table[S].right, a.left>>]
            taken == Taken(S, b.left)
        IN  IF table[S].left = {} THEN [joins |-> {}, left |-> call[2]]
            ELSE [joins |-> a.joins \cup b.joins \cup {<<S, taken>>}, left |-> b.left \ taken]
  IN  construct[<<All, graph>>]

-----------------------------------------------------------------------------
(* Properties *)

Exact == {"PEall", "DPsize", "DPsizeOpt", "DPsizeSub", "DPsub", "DPsubOpt", "DPccp",
          "TDbasic", "TDMinCutAGaT", "AStar"}

(* The cost of the best plan, by definition: over all ways to cut S into   *)
(* two parts that have plans.                                              *)
BestCost(crossProducts) ==
  LET best[S \in Subproblems] ==
        IF Singleton(S) THEN table[S].cost
        ELSE card[S] + Min({best[L] + best[S \ L] : L \in
               {L \in (SUBSET S) \ {{}, S} :
                  crossProducts \/ (Connected(L) /\ Connected(S \ L))}})
  IN  [S \in {T \in Subproblems : crossProducts \/ Connected(T)} |-> best[S]]

(* PlanTable.hpp:111, c(): "the cost of the best plan".  Every enumerator  *)
(* ends with a plan for the query.  Whichever order an exact one considers *)
(* joins in, what it leaves in the table is the best plan of each          *)
(* subproblem.                                                             *)
BestPlans ==
  Finished =>
    /\ HasPlan(All)
    /\ algo \in Exact =>
         LET best == BestCost(algo = "PEall") IN
         \A S \in Subproblems : HasPlan(S) => S \in DOMAIN best /\ table[S].cost = best[S]

(* Every join that an enumerator makes is one that the plan table allows:  *)
(* disjoint sides with plans.  Where has_plan() is not tested, they have   *)
(* plans by the order of the joins only (the assertions of PEall and       *)
(* TDMinCutAGaT, and of PlanTableBase::update for the models of the sides).*)
Table == INSTANCE PlanTable
ImplementsPlanTable == Table!Spec

(* The best plan whose subproblems are all slices of a sequence l: the set *)
(* of its cost, empty if there is none.                                   *)
IntervalBest(l) ==
  LET best[w \in (1..N) \X (1..N)] ==
        LET S == Slice(l, w[1], w[2])
            costs == UNION {{card[S] + c[1] + c[2] : c \in best[<<w[1], k>>] \X best[<<k + 1, w[2]>>]} :
                            k \in w[1]..(w[2] - 1)}
        IN  IF w[1] = w[2] THEN {table[S].cost}
            ELSE IF Connected(S) /\ costs # {} THEN {Min(costs)}
            ELSE {}
  IN  best[<<1, N>>]

(* LinearizedDP::operator(): the sliding window meets every slice after    *)
(* the slices within it, so that the plan is the best one for a sequence   *)
(* that IKKBZ may choose, and at most as expensive as IKKBZ's own plan.    *)
LinearizedBest ==
  Finished /\ algo = "LinearizedDP" =>
    \E l \in Linearizations :
      IntervalBest(l) = {table[All].cost} /\ table[All].cost <= LeftDeepCost(l)

(* No enumerator but PEall and the randomised one joins subproblems that   *)
(* no condition of the query connects.                                     *)
NoCrossProducts ==
  algo \notin {"PEall", "TwoPhaseOptimizer"} =>
    \A S \in Subproblems : table[S].left # {} => Joined(table[S].left, table[S].right)

(* Each condition of the query is applied exactly once, by the join that   *)
(* brings its sources together, whatever the shape of the plan, and no     *)
(* matter at which point the plan is taken from the table.                 *)
ConditionsAppliedOnce ==
  HasPlan(All) =>
    LET plan == Construct IN
    /\ plan.left = {}
    /\ \A j \in plan.joins :
         j[2] = {e \in graph : e \cap table[j[1]].left # {} /\ e \cap table[j[1]].right # {}}
=============================================================================
