--------------------------- MODULE TwoPhaseOptimizer ---------------------------
(***************************************************************************)
(* The randomised plan enumerator of src/IR/TwoPhaseOptimizer.cpp for two  *)
(* and more relations: iterative improvement from random join orders, then *)
(* simulated annealing, then the joins of the best order are committed to  *)
(* the plan table.  A state of the search is a sequence of join pairs.     *)
(*                                                                         *)
(* Climbs end at a local minimum; how long annealing goes on is left open, *)
(* and probabilities become choices.                                       *)
(***************************************************************************)
EXTENDS PlanEnumerators

CONSTANT MaxRestarts   \* bounds the restarts of the iterative improvement

VARIABLE search

None == <<>>
(* generate_random_state(): the union goes back to the end it came from.   *)
RandomStates ==
  {[k \in 1..(N - 1) |-> <<PrefixSet(l, k), {l[k + 1]}>>] :
     l \in {order \in [1..N -> Relations] : IsInjective(order)}}

ApplyCommutation(s, i) == [s EXCEPT ![i] = <<@[2], @[1]>>]
(* The second assignment reads the pair that the first one has changed.    *)
ApplyAssociativity(s, i) ==
  IF s[i][2] # s[i + 1][1] THEN s
  ELSE [s EXCEPT ![i] = <<@[1], s[i + 1][2]>>, ![i + 1] = <<s[i + 1][2], @[1]>>]
GenerateNeighbors(s) ==
  [i \in 1..Len(s) |-> ApplyCommutation(s, i)]
  \o [i \in 1..(Len(s) - 1) |-> ApplyAssociativity(s, i)]

(* compute_state_cost(): what the plan table says, once all is visited. *)
Visits(s) == [i \in 1..Len(s) |-> <<"visit", s[i][1], s[i][2]>>]
StateCost(s) == SumFunction([i \in 1..Len(s) |-> table[s[i][1] \cup s[i][2]].cost])

SearchInit ==
  search = [phase |-> "seed", restarts |-> 0, current |-> None, best |-> None,
            improved |-> FALSE, neighbors |-> <<>>]

Idle(phase) == algo = "TwoPhaseOptimizer" /\ search.phase = phase

(* Every evaluation of a state first visits its joins. *)
Evaluate(s) ==
  /\ tasks' = Visits(s)
  /\ UNCHANGED <<card, table, graph, algo>>

Seed ==
  /\ Idle("seed")
  /\ \E s \in RandomStates :
       /\ Evaluate(s)
       /\ search' = [search EXCEPT !.phase = "restart", !.current = s, !.best = s]

Restart ==
  /\ Idle("restart") /\ Finished /\ search.restarts < MaxRestarts
  /\ \E s \in RandomStates :
       /\ Evaluate(s)
       /\ search' = [search EXCEPT !.phase = "climb", !.restarts = @ + 1,
                                   !.current = s, !.improved = TRUE]

(* One iteration of a climb goes through the neighbors that the current    *)
(* state has at its start, and moves to each one that is cheaper.          *)
Iterate ==
  /\ Idle("climb") /\ Finished /\ search.neighbors = <<>> /\ search.improved
  /\ search' = [search EXCEPT !.improved = FALSE, !.neighbors = GenerateNeighbors(search.current)]
  /\ UNCHANGED <<card, table, graph, algo, tasks>>

Try ==
  /\ Idle("climb") /\ Finished /\ search.neighbors # <<>>
  /\ Evaluate(Head(search.neighbors))
  /\ search' = [search EXCEPT !.phase = "climbing"]

Cheaper(s, t) == IF StateCost(s) < StateCost(t) THEN s ELSE t
Climb ==
  /\ Idle("climbing") /\ Finished
  /\ LET new == Head(search.neighbors) IN
     search' = [search EXCEPT !.phase = "climb", !.neighbors = Tail(@),
                              !.current = Cheaper(new, @),
                              !.improved = @ \/ StateCost(new) < StateCost(search.current)]
  /\ UNCHANGED <<card, table, graph, algo, tasks>>

EndClimb ==
  /\ Idle("climb") /\ Finished /\ search.neighbors = <<>> /\ ~search.improved
  /\ search' = [search EXCEPT !.phase = "restart", !.best = Cheaper(search.current, @)]
  /\ UNCHANGED <<card, table, graph, algo, tasks>>

Anneal ==
  /\ Idle("restart") /\ Finished /\ search.restarts = MaxRestarts
  /\ search' = [search EXCEPT !.phase = "anneal", !.current = search.best]
  /\ UNCHANGED <<card, table, graph, algo, tasks>>

(* Annealing tries one neighbor at a time, and may move to one that is     *)
(* more expensive.                                                         *)
Propose ==
  /\ Idle("anneal") /\ Finished
  /\ \E s \in ToSet(GenerateNeighbors(search.current)) :
       /\ Evaluate(s)
       /\ search' = [search EXCEPT !.phase = "annealing", !.neighbors = <<s>>]

Accept ==
  /\ Idle("annealing") /\ Finished
  /\ LET new == Head(search.neighbors)  old == search.current
         worse == StateCost(old) < StateCost(new)
     IN \E taken \in {new} \cup IF worse THEN {old} ELSE {} :
          search' = [search EXCEPT !.phase = "anneal", !.neighbors = <<>>, !.current = taken,
                       !.best = IF StateCost(new) < StateCost(old) THEN Cheaper(new, @) ELSE @]
  /\ UNCHANGED <<card, table, graph, algo, tasks>>

(* update_plan_table() *)
CommitTasksMutant(s) == Visits(s)
CommitTasks(s) == Joins(s)
Commit ==
  /\ Idle("anneal") /\ Finished
  /\ tasks' = CommitTasks(search.best)
  /\ search' = [search EXCEPT !.phase = "committed"]
  /\ UNCHANGED <<card, table, graph, algo>>

SearchNext ==
  Seed \/ Restart \/ Iterate \/ Try \/ Climb \/ EndClimb \/ Anneal \/ Propose \/ Accept \/ Commit

-----------------------------------------------------------------------------
(* What a state's own joins cost, whatever the plan table holds.           *)
TreeCost(s) == SourceCost + SumFunction([i \in 1..Len(s) |-> card[s[i][1] \cup s[i][2]]])

(* The table holds the first plan visited for each subproblem, not the     *)
(* plan of the state that was chosen.  Committing that state makes up for  *)
(* it: the final plan is never more expensive than the chosen join order.  *)
CommittedPlan ==
  search.phase = "committed" /\ Finished => table[All].cost <= TreeCost(search.best)
=============================================================================
