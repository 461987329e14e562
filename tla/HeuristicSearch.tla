---------------------------- MODULE HeuristicSearch ----------------------------
(***************************************************************************)
(* Join ordering as a search for a shortest path: genericAStar and its     *)
(* StateManager of util/HeuristicSearch.hpp, with the states, expansions   *)
(* and heuristics of IR/HeuristicSearchPlanEnumerator.hpp.                 *)
(*                                                                         *)
(* A state is a set of disjoint subproblems that cover the query           *)
(* (SubproblemsArray).  Bottom up the search joins two of them, top down   *)
(* it cuts one; the joins on the path it finds go to the plan table.       *)
(* Which of several equally promising states comes first is left open.     *)
(***************************************************************************)
EXTENDS PlanEnumerators

CONSTANT Configurations  \* the ways to search that are considered

VARIABLE hs   \* the search: config, phase, known, leastPathCost, budget

Unlimited == -1
ASSUME ConfigurationsAssumption ==
  /\ Configurations \subseteq
       [topDown : BOOLEAN, heuristic : {"zero", "sum", "GOO"}, lazy : BOOLEAN,
        weight : Nat \ {0}, beam : {"none", "fixed", "dynamic"}, pruning : BOOLEAN,
        upperBound : BOOLEAN, budget : Nat \cup {Unlimited}]
  /\ \A config \in Configurations : config.upperBound => config.pruning

known   == hs.known
topDown == hs.config.topDown
usesBeam == hs.config.beam # "none"

-----------------------------------------------------------------------------
(* States, expansions and heuristics *)

Bottom == {{r} : r \in Relations}
Top    == {All}
Goal   == IF topDown THEN Bottom ELSE Top

(* The final join costs the same in every plan, and is left out. *)
ActionCost(S) == IF S = All THEN 0 ELSE card[S]

(* BottomUpComplete: what is less than the last join is not joined again. *)
JoinPairs(P, marked) ==
  {p \in P \X P : Lesser(p[1], p[2]) /\ ~Lesser(p[2], marked) /\ Joined(p[1], p[2])}
Joinings(P, marked) ==
  {[state |-> (P \ {p[1], p[2]}) \cup {p[1] \cup p[2]}, marked |-> p[1] \cup p[2]] :
     p \in JoinPairs(P, marked)}

(* TopDownComplete: only the first subproblem that can be cut is cut. *)
Cuttings(P) ==
  LET S == ByValue({Q \in P : ~Singleton(Q)})[1]
  IN  {[state |-> (P \ {S}) \cup {c[1], c[2]}, marked |-> S] : c \in ToSet(MinCuts(S))}

Sizes(F) == SumFunctionOnSet(card, F)
Completion(P) == GOOFrom(ByValue(P))
CompletionTopDown(P) == TDGOOFrom(ByValue(P))

Heuristic(P) ==
  CASE hs.config.heuristic = "zero" \/ (hs.config.heuristic = "sum" /\ P = Top) -> 0
    [] hs.config.heuristic = "sum" /\ P # Top -> Sizes(IF topDown THEN P \ Bottom ELSE P)
    [] hs.config.heuristic = "GOO" ->
         IF topDown THEN MapThenSumSet(LAMBDA p : card[p[1]] + card[p[2]], ToSet(CompletionTopDown(P)))
                    ELSE MapThenSumSet(LAMBDA p : ActionCost(p[1] \cup p[2]), ToSet(Completion(P)))
Admissible(config) == config.heuristic = "zero" \/ (config.heuristic = "sum" /\ config.topDown)

(* HeuristicSearchPlanEnumerator.cpp:596: "found plans are optimal when    *)
(* the search method is optimal and the heuristic is admissible".          *)
Optimal(config) ==
  /\ Admissible(config) \/ config.lazy
  /\ config.beam = "none" /\ config.weight = 1 /\ config.budget = Unlimited

(* for_each_successor_eagerly() and for_each_successor_lazily() *)
SuccessorH(P, Q) ==
  CASE hs.config.lazy                          -> known[P].h
    [] ~hs.config.lazy /\ Q \in DOMAIN known   -> known[Q].h
    [] ~hs.config.lazy /\ Q \notin DOMAIN known -> hs.config.weight * Heuristic(Q)

Successors(P) ==
  {[state |-> s.state, marked |-> s.marked, parent |-> P,
    g |-> known[P].g + ActionCost(s.marked), h |-> SuccessorH(P, s.state)] :
     s \in IF topDown THEN Cuttings(P) ELSE Joinings(P, known[P].marked)}

-----------------------------------------------------------------------------
(* The state manager: all states ever seen, each in a queue or not.  With  *)
(* a beam there is no regular queue: who was kept out of the beam remains  *)
(* labelled "regular", but is never popped.                                *)

Queue == IF usesBeam THEN "beam" ELSE "regular"
Queued == {P \in DOMAIN known : known[P].queue = Queue}
Tops == {P \in Queued : \A Q \in Queued : known[P].g + known[P].h <= known[Q].g + known[Q].h}

(* Costs that are known to be needed at least. *)
MinPathCost(s) == IF Admissible(hs.config) THEN s.g + (s.h \div hs.config.weight) ELSE s.g
PrunedByCost(s) == hs.config.pruning /\ MinPathCost(s) >= hs.leastPathCost

(* push(): a state seen before is reconsidered if its path has become      *)
(* cheaper, or if it enters the beam after it was kept out.                *)
Remembered(s, queue) == [g |-> s.g, h |-> s.h, parent |-> s.parent, marked |-> s.marked, queue |-> queue]
DecreasedMutant(old, s, queue) == [old EXCEPT !.g = s.g, !.queue = queue]
Decreased(old, s, queue) == [old EXCEPT !.g = s.g, !.parent = s.parent, !.queue = queue]
Pushed(s, beamed) ==
  LET old == known[s.state]
      queue == IF beamed = usesBeam THEN Queue ELSE old.queue
  IN  CASE s.state \notin DOMAIN known -> Remembered(s, IF beamed THEN "beam" ELSE "regular")
        [] s.state \in DOMAIN known /\ (s.g < old.g \/ (beamed /\ old.queue = "regular")) ->
             Decreased(old, s, queue)
        [] OTHER -> old

(* beam(), beam_dynamic(): the most promising successors. *)
BeamWidth(n) ==
  CASE hs.config.beam = "none"    -> 0
    [] hs.config.beam = "fixed"   -> Min({2, n})
    [] hs.config.beam = "dynamic" -> (n + 4) \div 5
Beams(C) ==
  {B \in kSubset(BeamWidth(Cardinality(C)), C) :
     \A s \in B, t \in C \ B : s.g + s.h <= t.g + t.h}

-----------------------------------------------------------------------------
(* The search *)

NoSearch == [phase |-> "none"]
Infinity == Sizes(Subproblems) + 1

(* The upper bound is the cost of the plan of GOO; a plan that is just as  *)
(* expensive is not pruned.                                                *)
GOOCost == LET s == GOO IN SumFunction([i \in 1..Len(s) |-> ActionCost(s[i][1] \cup s[i][2])])
Searching(config) ==
  LET start == IF config.topDown THEN Top ELSE Bottom
  IN  [config |-> config, phase |-> "search", budget |-> config.budget,
       leastPathCost |-> IF config.upperBound THEN GOOCost + 1 ELSE Infinity,
       known |-> [P \in {start} |->
                   [g |-> 0, h |-> 0, parent |-> {}, marked |-> IF config.topDown THEN All ELSE {0},
                    queue |-> IF config.beam # "none" THEN "beam" ELSE "regular"]]]

StartSearch ==
  /\ algo \in {"AStar", "HeuristicSearch"} /\ hs = NoSearch
  /\ \E config \in Configurations :
       /\ algo = "AStar" <=> Optimal(config)
       /\ hs' = Searching(config)
  /\ UNCHANGED <<card, table, graph, algo, tasks>>

MaySearch == hs # NoSearch /\ hs.phase = "search"
InBudget  == hs.budget # 0
Spent     == IF hs.budget = Unlimited THEN Unlimited ELSE hs.budget - 1

(* explore_state(): the state leaves the queue, its successors are pushed. *)
Explore ==
  /\ MaySearch /\ InBudget
  /\ \E P \in Tops \ {Goal} :
       LET C == Successors(P)
           kept == {s \in C : ~PrunedByCost(s)}
           goals == {s \in kept : s.state = Goal}
           pushed == {s.state : s \in kept}
           after(Q, B) ==
             IF Q \in pushed THEN LET s == CHOOSE s \in kept : s.state = Q IN Pushed(s, s \in B)
             ELSE IF Q = P THEN [known[P] EXCEPT !.queue = "none"] ELSE known[Q]
       IN  \E B \in Beams(C) :
             hs' = [hs EXCEPT
               !.budget = Spent,
               !.leastPathCost = IF hs.config.pruning /\ goals # {} THEN Min({s.g : s \in goals}) ELSE @,
               !.known = [Q \in DOMAIN known \cup pushed |-> after(Q, B)]]
  /\ UNCHANGED <<card, table, graph, algo, tasks>>

(* reconstruct_plan_bottom_up(), reconstruct_plan_top_down(): the joins on *)
(* the path from the initial state, bottom up.                             *)
Delta(before, after) == LET d == ByValue(before \ after) IN <<d[1], d[2]>>
PlanTo(P) ==
  LET planTo[Q \in DOMAIN known] ==
        LET parent == known[Q].parent
        IN  IF parent = {} THEN <<>>
            ELSE IF topDown THEN <<Delta(Q, parent)>> \o planTo[parent]
                            ELSE planTo[parent] \o <<Delta(parent, Q)>>
  IN  planTo[P]

EndWith(phase, joins) ==
  /\ tasks' = Joins(joins)
  /\ hs' = [hs EXCEPT !.phase = phase]
  /\ UNCHANGED <<card, table, graph, algo>>

ReachGoal ==
  /\ MaySearch /\ InBudget /\ Goal \in Tops
  /\ EndWith("goal", PlanTo(Goal))

(* Without budget, the nearest state to a goal, of those the cheapest one, *)
(* is completed greedily.                                                  *)
Nearest ==
  LET f(P) == known[P].g + (known[P].h \div hs.config.weight)
      nearer(P, Q) == IF topDown THEN Cardinality(P) > Cardinality(Q) ELSE Cardinality(P) < Cardinality(Q)
      last == {P \in DOMAIN known : \A Q \in DOMAIN known : ~nearer(Q, P)}
  IN  {P \in last : \A Q \in last : f(P) <= f(Q)}

ExhaustBudget ==
  /\ MaySearch /\ ~InBudget /\ Queued # {}
  /\ \E P \in Nearest :
       EndWith("budget", IF topDown THEN CompletionTopDown(P) \o PlanTo(P)
                                    ELSE PlanTo(P) \o Completion(P))

(* All successors were pruned: the plan of the upper bound is used, or     *)
(* another enumerator.                                                     *)
FallBack ==
  /\ MaySearch /\ Queued = {}
  /\ EndWith("fallback", IF hs.config.upperBound THEN GOO ELSE DPccp)

HeuristicNext == StartSearch \/ Explore \/ ReachGoal \/ ExhaustBudget \/ FallBack

-----------------------------------------------------------------------------
(* Properties *)

Sought == hs # NoSearch /\ hs.phase # "search"

(* StateManager::push() rewires the parents of states while paths to their *)
(* successors exist.  Still the plan that is reconstructed in the end      *)
(* costs no more than the search said the goal does, and a search that     *)
(* ends keeps below the plan that bounds it.                               *)
CostOf(plan) == plan + card[All] + SourceCost
PlanAsFound ==
  Sought /\ Finished =>
    /\ hs.phase = "goal" => table[All].cost <= CostOf(known[Goal].g)
    /\ hs.config.upperBound /\ hs.phase # "budget" => table[All].cost <= CostOf(GOOCost)

(* decrease_g(), HeuristicSearchPlanEnumerator.hpp:341:                     *)
(* M_insist(new_g <= this->g()): a state keeps the cheapest path that was  *)
(* found, so that it is no further than its expanded predecessors say.     *)
KeepsCheapestPath ==
  MaySearch =>
    \A P \in DOMAIN known : known[P].queue = "none" =>
      \A s \in Successors(P) : s.state \in DOMAIN known => known[s.state].g <= s.g
=============================================================================
