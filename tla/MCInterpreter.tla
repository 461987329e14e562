----------------------------- MODULE MCInterpreter -----------------------------
(* Plans of the shapes that the optimizer builds: filters on the sources,  *)
(* joins, a grouping, the projection, the ordering and the limit, on top   *)
(* of nested queries that end in a limit of their own.                     *)
EXTENDS Interpreter

Scan(max)         == [op |-> "scan", kids |-> << >>, max |-> max]
Filter(k, on, cl) == [op |-> "filter", kids |-> <<k>>, on |-> on, clause |-> cl]
Join(l, r, on)    == [op |-> "join", kids |-> <<l, r>>, on |-> on]
Loops(l, r, on)   == [op |-> "loops", kids |-> <<l, r>>, on |-> on]
Group(k, on)      == [op |-> "group", kids |-> <<k>>, on |-> on]
Aggregate(k)      == [op |-> "aggregate", kids |-> <<k>>]
Project(ks)       == [op |-> "project", kids |-> ks, expr |-> [v \in Domain |-> 1 - v]]
Sort(k, on)       == [op |-> "sort", kids |-> <<k>>, on |-> on]
Limit(k, off, l)  == [op |-> "limit", kids |-> <<k>>, offset |-> off, limit |-> l]
PrintRows(k)      == [op |-> "print", kids |-> <<k>>]

(* The schema that the operators are given as a plan is built. *)
Resolved(p) ==
  LET schema[n \in 1..Len(p)] ==
        IF p[n].op \in {"group", "aggregate"} \/ p[n].kids = << >> THEN {n}
        ELSE UNION {schema[k] : k \in Range(p[n].kids)}
  IN [n \in 1..Len(p) |-> p[n] @@ [schema |-> schema[n]]]

BuiltPlans == <<
  << Scan(3), Filter(1, 1, {{0}, {1}}), Scan(3), Join(2, 3, <<1, 3>>), Project(<<4>>), PrintRows(5) >>,
  << Scan(2), Scan(3), Join(1, 2, <<1, 2>>), Project(<<3>>), Sort(4, 2), Limit(5, 1, 2), PrintRows(6) >>,
  << Scan(2), Scan(3), Project(<<2>>), Limit(3, 1, 2), Filter(4, 2, {{1}}), Join(1, 5, <<1, 2>>), Project(<<6>>),
     Limit(7, 0, 1), PrintRows(8) >>,
  << Scan(3), Project(<<1>>), Limit(2, 0, 2), Scan(2), Join(3, 4, <<1, 4>>), Group(5, 1), Project(<<6>>),
     Limit(7, 0, 2), PrintRows(8) >>,
  << Scan(2), Scan(2), Join(1, 2, <<1, 2>>), Scan(2), Join(3, 4, <<2, 4>>), Aggregate(5), PrintRows(6) >>,
  << Scan(2), Scan(2), Scan(2), Join(2, 3, <<2, 3>>), Join(1, 4, <<1, 3>>), Project(<<5>>), PrintRows(6) >>,
  << Scan(3), Scan(3), Loops(1, 2, <<1, 2>>), Project(<<3>>), Limit(4, 0, 3), PrintRows(5) >>,
  << Project(<< >>), PrintRows(1) >> >>
BuiltCharPlans == << << Scan(2), Group(1, 1), PrintRows(2) >>,
                << Scan(1), Scan(1), Join(1, 2, <<1, 2>>), Project(<<3>>), PrintRows(4) >> >>

ThePlans  == [k \in 1..Len(BuiltPlans) |-> Resolved(BuiltPlans[k])]
CharPlans == [k \in 1..Len(BuiltCharPlans) |-> Resolved(BuiltCharPlans[k])]

TheMaps   == 1..9
Attribute == [pos : 1..3, val : Domain]
BaseRows  == UNION {[{n} -> Attribute] : n \in 1..4}
TheValues == BaseRows \cup UNION {[{n, m} -> Attribute] : n \in 1..3, m \in 1..4}
TheHash   == [k \in Domain |-> k]
CharKeySet == {<<r, n>> : r \in BaseRows, n \in 1..4}
CharHash  == [k \in CharKeySet |-> 0]
=============================================================================
