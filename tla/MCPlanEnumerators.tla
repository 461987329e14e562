--------------------------- MODULE MCPlanEnumerators ---------------------------
(* Instances of the plan enumerators for TLC. *)
EXTENDS JoinOrdering

Four == 0..3

Chain   == {{0, 1}, {1, 2}, {2, 3}}
Zigzag  == {{2, 0}, {0, 3}, {3, 1}}
Star    == {{2, 0}, {2, 1}, {2, 3}}
Cycle   == {{0, 2}, {2, 1}, {1, 3}, {3, 0}}
Paw     == {{0, 1}, {1, 2}, {0, 2}, {2, 3}}
Clique  == {{u, v} : u, v \in Four} \ {{u} : u \in Four}
MCGraphs == {Chain, Zigzag, Star, Cycle, Paw, Clique}

(* Results of joins are large but for at most two selective ones. *)
Selective(F) ==
  [S \in (SUBSET Relations) \ {{}} |->
     IF Cardinality(S) = 1 THEN 4 ELSE IF S \in F THEN Cardinality(S) - 1 ELSE 8 + Cardinality(S)]
MCCardinalities ==
  LET some == {S \in Subproblems : Cardinality(S) \in {2, 3}}
  IN  {Selective({})} \cup {Selective({S, T}) : S, T \in some}

(* Six relations: a cycle of the relations 1 to 5, and 0 next to 3.  It is *)
(* best to build the cycle as a chain from 5 downwards, and to join 0 last. *)
Six == 0..5
PendantCycle == {{1, 2}, {2, 3}, {3, 4}, {4, 5}, {5, 1}, {3, 0}}
SixGraphs == {PendantCycle}
SixCardinalities ==
  {[S \in Subproblems |->
      IF 0 \in S /\ Cardinality(S) > 1 THEN 40 ELSE Selective({{4, 5}, {3, 4, 5}, {2, 3, 4, 5}})[S]]}

AllEnumerators == Exact \cup {"GOO", "TDGOO", "IKKBZ", "LinearizedDP", "TwoPhaseOptimizer", "HeuristicSearch"}

(* Ways to search that are registered in HeuristicSearchPlanEnumerator.cpp. *)
AStar(down, h) ==
  [topDown |-> down, heuristic |-> h, lazy |-> FALSE, weight |-> 1, beam |-> "none",
   pruning |-> FALSE, upperBound |-> FALSE, budget |-> Unlimited]
Pruning(c) == [c EXCEPT !.pruning = TRUE]
Bounded(c) == [c EXCEPT !.pruning = TRUE, !.upperBound = TRUE]
Beam(c)    == [c EXCEPT !.beam = "fixed"]
Lazy       == [AStar(FALSE, "sum") EXCEPT !.lazy = TRUE]
MCConfigurations ==
  {AStar(FALSE, "zero"), AStar(TRUE, "sum"), AStar(FALSE, "sum"), AStar(TRUE, "GOO"), Lazy,
   Pruning(AStar(TRUE, "zero")), Bounded(AStar(FALSE, "zero")), Bounded(AStar(FALSE, "GOO")),
   Beam(AStar(FALSE, "zero")), Bounded(Beam(AStar(FALSE, "zero"))),
   [AStar(FALSE, "GOO") EXCEPT !.beam = "dynamic"],
   [AStar(FALSE, "sum") EXCEPT !.weight = 2],
   [AStar(FALSE, "zero") EXCEPT !.budget = 3],
   [AStar(TRUE, "zero") EXCEPT !.budget = 1], [Bounded(AStar(TRUE, "GOO")) EXCEPT !.budget = 2]}
BeamConfigurations == {Beam(AStar(FALSE, "zero"))}

(* The randomised search does not look at the graph; the heuristic search  *)
(* is explored with {0, 1} as one of the selective joins.                  *)
SearchCardinalities == {Selective({{0, 1}, {0, 1, 2}}), Selective({{1, 3}, {0, 2, 3}})}
MCInit ==
  /\ OrderingInit
  /\ algo \in {"AStar", "HeuristicSearch"} => card[{0, 1}] = 1
  /\ algo = "TwoPhaseOptimizer" => graph = Chain /\ card \in SearchCardinalities
MCSpec == MCInit /\ [][OrderingNext]_orderingVars
=============================================================================
