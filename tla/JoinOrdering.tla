------------------------------ MODULE JoinOrdering ------------------------------
(***************************************************************************)
(* Join ordering as a whole, optimize_join_order() of src/IR/Optimizer.cpp: *)
(* one enumerator, deterministic, randomised or searching, considers joins *)
(* for one query graph and leaves the plans in the plan table.             *)
(***************************************************************************)
EXTENDS TwoPhaseOptimizer, HeuristicSearch

OrderingInit == EnumInit /\ SearchInit /\ hs = NoSearch

OrderingNext ==
  \/ EnumNext /\ UNCHANGED <<search, hs>>
  \/ SearchNext /\ UNCHANGED hs
  \/ HeuristicNext /\ UNCHANGED search

orderingVars == <<vars, graph, algo, tasks, search, hs>>
OrderingSpec == OrderingInit /\ [][OrderingNext]_orderingVars
=============================================================================
