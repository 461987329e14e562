------------------------------ MODULE Interpreter ------------------------------
(***************************************************************************)
(* The interpreter (backend/Interpreter.cpp): a plan is evaluated by       *)
(* pushing blocks of tuples through its pipelines.  Interpreter visits an  *)
(* operator to run it; the operator that starts a pipeline fills its block *)
(* and pushes it to its parent, which visits the block and pushes on; a    *)
(* join that builds, a grouping and a sort end a pipeline.  A block is a   *)
(* fixed array of slots and a mask of those that are alive, owned by the   *)
(* operator that writes it and reused for every push.                      *)
(*                                                                         *)
(* The stack holds the visitors in progress, the innermost first: it says  *)
(* what has still to be done once a push returns, and it is what the       *)
(* exception of a satisfied limit unwinds.                                 *)
(*                                                                         *)
(* A tuple is a function from the scans it stems from to the position and  *)
(* the value of one attribute; a grouping yields tuples of its own.        *)
(***************************************************************************)
EXTENDS RefCountingHashMap, Sequences, FiniteSetsExt, SequencesExt, Functions

CONSTANTS
  Plans,      \* sequence of plans: sequences of operators, children first
  Domain,     \* the values of an attribute
  C,          \* capacity of a block, 64 in the program
  CharKeys    \* are the attributes character sequences?

ASSUME CapacityAssumption == C \in Nat \ {0}
ASSUME DomainAssumption == 0 \in Domain

(* A plan is a tree of operators; the root prints.  The schema of an       *)
(* operator says which tuples it yields, and an operator refers to the     *)
(* schemas of its children.  Filters and limits erase in the block that    *)
(* they are given, which is none that a hash join writes.                  *)
IsTree(p) ==
  /\ \A n \in 1..Len(p) : p[n].kids \in Seq(1..(n - 1)) /\ (p[n].op = "print" <=> n = Len(p))
  /\ \A n \in 1..(Len(p) - 1) : \E m \in 1..Len(p) : n \in Range(p[m].kids)
  /\ \A m, n \in 1..Len(p) : \A i \in DOMAIN p[m].kids, j \in DOMAIN p[n].kids :
       p[m].kids[i] = p[n].kids[j] => m = n /\ i = j
HasArity(node) ==
  \/ node.op = "scan" /\ Len(node.kids) = 0 /\ node.max \in Nat
  \/ node.op = "project" /\ Len(node.kids) \in 0..1
  \/ node.op \in {"print", "filter", "limit", "group", "aggregate", "sort"} /\ Len(node.kids) = 1
  \/ node.op \in {"join", "loops"} /\ Len(node.kids) = 2
IsTyped(p, n) ==
  LET node == p[n]  from(i) == p[node.kids[i]].schema IN
  /\ node.schema =
       IF node.op \in {"group", "aggregate"} \/ node.kids = << >> THEN {n}
       ELSE IF node.op \in {"join", "loops"} THEN from(1) \cup from(2) ELSE from(1)
  /\ node.op \in {"filter", "sort", "group"} => node.on \in from(1)
  /\ node.op \in {"join", "loops"} => node.on[1] \in from(1) /\ node.on[2] \in from(2)
  /\ node.op = "project" /\ node.kids # << >> => node.expr \in [Domain -> Domain]
  /\ node.op \in {"filter", "limit"} => p[node.kids[1]].op # "join"
ASSUME PlansAssumption ==
  \A k \in 1..Len(Plans) :
    LET p == Plans[k] IN
    /\ Len(p) \in Nat \ {0} /\ 1..Len(p) \subseteq Maps
    /\ IsTree(p)
    /\ \A n \in 1..Len(p) : HasArity(p[n]) /\ IsTyped(p, n)

VARIABLES
  q,       \* the number of the plan
  tables,  \* scan -> rows of its table
  stack,   \* visitors in progress, innermost first
  blocks,  \* operator -> its block
  data,    \* operator -> what its OperatorData keeps
  output   \* the tuples that the root was given
vars == <<q, tables, stack, blocks, data, output, maps, ins>>

plan      == Plans[q]
Ops       == 1..Len(plan)
Root      == Len(plan)
Is(n, op) == plan[n].op = op
Scans     == {n \in Ops : Is(n, "scan")}
Parent(n) == CHOOSE m \in Ops : n \in Range(plan[m].kids)

BlockSlots == 0..(C - 1)
NoRow      == << >>
Rank(b, s) == Cardinality({t \in b.mask : t < s})

(* Visitors.  A push frame walks over block `from`, of which todo is left. *)
Running(n)    == [do |-> "run", at |-> n, from |-> n, todo |-> {}, hits |-> {}, left |-> << >>, cur |-> 0, i |-> 0]
top           == Head(stack)
Below         == Tail(stack)
Input         == blocks[top.from]
Return        == stack' = Below
Continue(f)   == stack' = <<f>> \o Below
CallFrom(f, g) == stack' = <<g, f>> \o Below
TailCall(g)   == stack' = <<g>> \o Below
At(do, op)    == stack # << >> /\ top.do = do /\ Is(top.at, op)

(* Pushing a block that n has just filled: the parent takes it over, with *)
(* f, if any, to return to.                                               *)
Filled(n, row, mask) == blocks' = [blocks EXCEPT ![n] = [row |-> row, mask |-> mask]]
PushedTo(n)  == [Running(Parent(n)) EXCEPT !.do = "push", !.from = n, !.todo = blocks'[n].mask]
Push(n)      == TailCall(PushedTo(n))
PushThen(n, f) == CallFrom(f, PushedTo(n))

(* The rows of a sequence after the first i, as many as a block holds, in  *)
(* the first slots of the block of n.                                      *)
NextRows(rs, i)      == SubSeq(rs, i + 1, Min({i + C, Len(rs)}))
FirstSlots(k)     == 0..(k - 1)
FilledWith(n, rs) == [s \in BlockSlots |-> IF s < Len(rs) THEN rs[s + 1] ELSE blocks[n].row[s]]

-----------------------------------------------------------------------------
(* Values.  A key of character sequences holds the address of the copy     *)
(* that was made for it, and Value::operator== compares the addresses: a   *)
(* key equals no other.                                                    *)
Value(row, s) == row[s].val
Key(row, s)   == IF CharKeys THEN <<row, s>> ELSE Value(row, s)

Passes(n, row)    == \E Pred \in plan[n].clause : Value(row, plan[n].on) \in Pred
Projected(n, row) == [s \in DOMAIN row |-> [row[s] EXCEPT !.val = plan[n].expr[@]]]
Single(n, pos, v) == [s \in {n} |-> [pos |-> pos, val |-> v]]
Joined(l, r)      == [s \in DOMAIN l \cup DOMAIN r |-> IF s \in DOMAIN l THEN l[s] ELSE r[s]]
Theta(n, l, r)    == Value(l, plan[n].on[1]) < Value(r, plan[n].on[2])
Before(n, r, t)   == Value(r, plan[n].on) < Value(t, plan[n].on)

-----------------------------------------------------------------------------
(* Interpreter: running an operator.                                       *)

(* Print, filter and projection only run their child. *)
RunChild ==
  /\ stack # << >> /\ top.do = "run"
  /\ plan[top.at].op \in {"print", "filter", "project"} /\ plan[top.at].kids # << >>
  /\ TailCall(Running(plan[top.at].kids[1]))
  /\ UNCHANGED <<q, tables, blocks, data, output, maps, ins>>

(* A scan fills its block as long as there are rows. *)
RunScan ==
  /\ At("run", "scan")
  /\ LET n == top.at  rs == NextRows(tables[n], top.i) IN
     IF rs = << >> THEN Return /\ UNCHANGED blocks
     ELSE /\ Filled(n, FilledWith(n, rs), FirstSlots(Len(rs)))
          /\ PushThen(n, [top EXCEPT !.i = @ + Len(rs)])
  /\ UNCHANGED <<q, tables, data, output, maps, ins>>

(* A join collects its left child, in a hash table or in a buffer, and if  *)
(* there is a tuple it runs the right one, which produces the output.      *)
CollectedNone(n) ==
  IF Is(n, "join") THEN Size(maps[n]) = 0 ELSE data[n].rows = << >>
RunJoin ==
  /\ At("run", "join") \/ At("run", "loops")
  /\ LET n == top.at IN
     IF top.i = 2 \/ (top.i = 1 /\ CollectedNone(n)) THEN Return /\ UNCHANGED data
     ELSE /\ data' = [data EXCEPT ![n].active = top.i + 1]
          /\ CallFrom([top EXCEPT !.i = @ + 1], Running(plan[n].kids[top.i + 1]))
  /\ UNCHANGED <<q, tables, blocks, output, maps, ins>>

(* A projection without a child is evaluated once, on one empty tuple. *)
RunConstants ==
  /\ At("run", "project") /\ plan[top.at].kids = << >>
  /\ LET n == top.at IN
     /\ Filled(n, FilledWith(n, << Single(n, 1, 0) >>), {0})
     /\ Push(n)
  /\ UNCHANGED <<q, tables, data, output, maps, ins>>

(* The frame of a limit is where the unwinding of the stack ends. *)
RunLimit ==
  /\ At("run", "limit")
  /\ IF top.i = 0 THEN CallFrom([top EXCEPT !.i = 1], Running(plan[top.at].kids[1])) ELSE Return
  /\ UNCHANGED <<q, tables, blocks, data, output, maps, ins>>

(* A grouping emits its groups in any order, a sort its buffer, ties in    *)
(* any order.                                                              *)
Orders(n) ==
  LET rs == data[n].rows IN
  {[i \in 1..Len(rs) |-> rs[o[i]]] : o \in
     {o \in SetToSeqs(1..Len(rs)) :
        Is(n, "sort") => \A i, j \in 1..Len(o) : i < j => ~Before(n, rs[o[j]], rs[o[i]])}}

(* Grouping, aggregation and sort first run their child ... *)
RunBreaker ==
  /\ stack # << >> /\ top.do = "run" /\ plan[top.at].op \in {"group", "sort", "aggregate"}
  /\ top.i = 0
  /\ CallFrom([top EXCEPT !.i = 1], Running(plan[top.at].kids[1]))
  /\ UNCHANGED <<q, tables, blocks, data, output, maps, ins>>

(* ... then they order what was collected.  The data of a sort comes with  *)
(* its first block: as() asserts that it is there before the test whether  *)
(* it is.  The process ends at a sort that was given no block ...          *)
SortsNothing == At("run", "sort") /\ top.i = 1 /\ ~data[top.at].fed
OrderResult ==
  /\ stack # << >> /\ top.do = "run" /\ plan[top.at].op \in {"group", "sort", "aggregate"}
  /\ top.i = 1 /\ ~SortsNothing
  /\ \E o \in Orders(top.at) : Continue([top EXCEPT !.i = 2, !.left = o])
  /\ UNCHANGED <<q, tables, blocks, data, output, maps, ins>>

(* ... and emit full blocks and a last one for the remainder, even if      *)
(* nothing is left for it.                                                 *)
EmitResult ==
  /\ stack # << >> /\ top.do = "run" /\ plan[top.at].op \in {"group", "sort", "aggregate"}
  /\ top.i = 2
  /\ LET n == top.at  rs == NextRows(top.left, 0) IN
     /\ Filled(n, FilledWith(n, rs), FirstSlots(Len(rs)))
     /\ IF Len(rs) = C /\ ~Is(n, "aggregate")
          THEN PushThen(n, [top EXCEPT !.left = SubSeq(@, C + 1, Len(@))])
          ELSE Push(n)
  /\ UNCHANGED <<q, tables, data, output, maps, ins>>

-----------------------------------------------------------------------------
(* Pipeline: an operator visits a block.                                   *)

PushPrint ==
  /\ At("push", "print")
  /\ output' = output \o [i \in 1..Cardinality(Input.mask) |->
                            Input.row[CHOOSE s \in Input.mask : Rank(Input, s) = i - 1]]
  /\ Return
  /\ UNCHANGED <<q, tables, blocks, data, maps, ins>>

(* Filters and limits erase in the block they are given and pass it on. *)
Erased(m, keep) == [blocks EXCEPT ![m].mask = {s \in @ : keep[s]}]

PushFilter ==
  /\ At("push", "filter")
  /\ LET n == top.at  m == top.from IN
     /\ blocks' = Erased(m, [s \in Input.mask |-> Passes(n, Input.row[s])])
     /\ IF blocks'[m].mask # {}
          THEN TailCall([top EXCEPT !.at = Parent(n), !.todo = blocks'[m].mask])
          ELSE Return
  /\ UNCHANGED <<q, tables, data, output, maps, ins>>

InLimit(n, k) == plan[n].offset <= k /\ k < plan[n].offset + plan[n].limit
PushLimit ==
  /\ At("push", "limit") /\ top.i = 0
  /\ LET n == top.at  m == top.from  done == [top EXCEPT !.i = 1] IN
     /\ blocks' = Erased(m, [s \in Input.mask |-> InLimit(n, data[n].count + Rank(Input, s))])
     /\ data' = [data EXCEPT ![n].count = @ + Cardinality(Input.mask)]
     /\ IF blocks'[m].mask # {}
          THEN CallFrom(done, [top EXCEPT !.at = Parent(n), !.todo = blocks'[m].mask])
          ELSE Continue(done)
  /\ UNCHANGED <<q, tables, output, maps, ins>>

(* Once the limit is reached, the stack is unwound to the innermost run of *)
(* a limit, which may be that of another one, nested in its input.         *)
Catches(f) == f.do = "run" /\ Is(f.at, "limit")
UnwindMutant ==
  stack' = SubSeq(stack, 1 + (CHOOSE k \in 1..Len(stack) : Catches(stack[k])
                                /\ \A l \in (k + 1)..Len(stack) : ~Catches(stack[l])), Len(stack))
Unwind ==
  stack' = SubSeq(stack, 1 + (CHOOSE k \in 1..Len(stack) : Catches(stack[k])
                                /\ \A l \in 1..(k - 1) : ~Catches(stack[l])), Len(stack))
LimitReached ==
  /\ At("push", "limit") /\ top.i = 1
  /\ IF data[top.at].count >= plan[top.at].offset + plan[top.at].limit THEN Unwind ELSE Return
  /\ UNCHANGED <<q, tables, blocks, data, output, maps, ins>>

PushProjection ==
  /\ At("push", "project")
  /\ LET n == top.at IN
     /\ Filled(n, [s \in BlockSlots |-> IF s \in Input.mask THEN Projected(n, Input.row[s]) ELSE NoRow],
               Input.mask)
     /\ Push(n)
  /\ UNCHANGED <<q, tables, data, output, maps, ins>>

(* A grouping adds each tuple to the group of its key; a group is a tuple  *)
(* of the key and the number of its tuples.                                *)
GroupKey(n, row) == IF Is(n, "group") THEN Value(row, plan[n].on) ELSE 0
SameGroup(n, g, row) == Is(n, "aggregate") \/ (~CharKeys /\ g[n].val = GroupKey(n, row))
Grouped(n, groups, row) ==
  IF \E i \in 1..Len(groups) : SameGroup(n, groups[i], row)
    THEN [i \in 1..Len(groups) |->
            IF SameGroup(n, groups[i], row) THEN [groups[i] EXCEPT ![n].pos = @ + 1] ELSE groups[i]]
    ELSE Append(groups, Single(n, 1, GroupKey(n, row)))

(* Grouping, aggregation, sort and the left side of nested loops collect   *)
(* one tuple after the other.                                              *)
Collected(n, rows, row) ==
  IF plan[n].op \in {"group", "aggregate"} THEN Grouped(n, rows, row) ELSE Append(rows, row)
PushCollect ==
  /\ \/ At("push", "group") \/ At("push", "aggregate") \/ At("push", "sort")
     \/ At("push", "loops") /\ data[top.at].active = 1
  /\ LET n == top.at  s == Min(top.todo) IN
     IF top.todo = {} THEN data' = [data EXCEPT ![n].fed = TRUE] /\ Return
     ELSE /\ data' = [data EXCEPT ![n].fed = TRUE, ![n].rows = Collected(n, @, Input.row[s])]
          /\ Continue([top EXCEPT !.todo = @ \ {s}])
  /\ UNCHANGED <<q, tables, blocks, output, maps, ins>>

(* The right side of nested loops: the block is combined with one buffered *)
(* tuple after the other.                                                  *)
PushLoops ==
  /\ At("push", "loops") /\ data[top.at].active = 2
  /\ LET n == top.at  f == [top EXCEPT !.i = @ + 1] IN
     IF top.i = Len(data[n].rows) THEN Return /\ UNCHANGED blocks
     ELSE LET l == data[n].rows[top.i + 1]
              mask == {s \in Input.mask : Theta(n, l, Input.row[s])}
          IN /\ Filled(n, [s \in BlockSlots |-> IF s \in mask THEN Joined(l, Input.row[s]) ELSE NoRow], mask)
             /\ IF mask # {} THEN PushThen(n, f) ELSE Continue(f)
  /\ UNCHANGED <<q, tables, data, output, maps, ins>>

(* The left side of a hash join inserts its tuples one by one. *)
Building == At("push", "join") /\ data[top.at].active = 1
Build ==
  /\ Building /\ ins.element = NoElement
  /\ IF top.todo = {} THEN Return /\ UNCHANGED mapVars
     ELSE LET n == top.at  s == Min(top.todo)  row == Input.row[s] IN
          /\ StartInsert(n, <<Key(row, plan[n].on[1]), row>>)
          /\ Continue([top EXCEPT !.todo = @ \ {s}])
  /\ UNCHANGED <<q, tables, blocks, data, output>>
Insert ==
  /\ Building
  /\ Rehash \/ FinishInsert
  /\ UNCHANGED <<q, tables, stack, blocks, data, output>>

(* The right side probes.  The tuples that match are written to one slot   *)
(* after the other; the block is pushed when another match meets it full,  *)
(* and at the end with what is in it.                                      *)
Probing == At("push", "join") /\ data[top.at].active = 2
FillMutant(n) == blocks[n].mask
Fill(n) == BlockSlots
NextProbe ==
  /\ Probing /\ top.hits = {} /\ top.todo # {}
  /\ LET n == top.at  s == Min(top.todo) IN
     /\ blocks' = [blocks EXCEPT ![n].mask = Fill(n)]
     /\ Continue([top EXCEPT !.todo = @ \ {s}, !.cur = s,
                             !.hits = Matches(maps[n], Key(Input.row[s], plan[n].on[2]))])
  /\ UNCHANGED <<q, tables, data, output, maps, ins>>

BlockFull(f) == f.i = C
ProbeHit ==
  /\ Probing /\ top.hits # {}
  /\ LET n == top.at  m == maps[n]  row == Input.row[top.cur]  p == Min(top.hits)
         built == m.at[Probe(m, Bucket(m, Key(row, plan[n].on[2])), p)][2]
     IN IF BlockFull(top)
          THEN UNCHANGED blocks /\ PushThen(n, [top EXCEPT !.i = 0])
          ELSE /\ blocks' = [blocks EXCEPT ![n].row[top.i] = Joined(built, row)]
               /\ Continue([top EXCEPT !.hits = @ \ {p}, !.i = @ + 1])
  /\ UNCHANGED <<q, tables, data, output, maps, ins>>

ProbeEnd ==
  /\ Probing /\ top.hits = {} /\ top.todo = {}
  /\ LET n == top.at IN
     IF top.i = 0 THEN Return /\ UNCHANGED blocks
     ELSE Filled(n, blocks[n].row, FirstSlots(top.i)) /\ Push(n)
  /\ UNCHANGED <<q, tables, data, output, maps, ins>>

-----------------------------------------------------------------------------
Rows(n) == UNION {[1..k -> Domain] : k \in 0..plan[n].max}
Init ==
  /\ q \in 1..Len(Plans)
  /\ tables \in {[n \in Scans |-> [i \in 1..Len(t[n]) |-> Single(n, i, t[n][i])]] :
                   t \in {t \in [Scans -> UNION {Rows(n) : n \in Scans}] : \A n \in Scans : t[n] \in Rows(n)}}
  /\ stack = << Running(Root) >>
  /\ blocks = [n \in Ops |-> [row |-> [s \in BlockSlots |-> NoRow], mask |-> {0}]]
  /\ data = [n \in Ops |->
       [fed |-> FALSE, count |-> 0, active |-> 0,
        rows |-> IF Is(n, "aggregate") THEN << Single(n, 0, 0) >> ELSE << >>]]
  /\ output = << >>
  /\ \E c \in Capacities : maps = [j \in Maps |-> EmptyMap(c)]
  /\ ins = [into |-> Root, element |-> NoElement, old |-> EmptyMap(0), runner |-> 0]

Run  == RunChild \/ RunScan \/ RunJoin \/ RunConstants \/ RunLimit
          \/ RunBreaker \/ OrderResult \/ EmitResult
Walk == PushPrint \/ PushFilter \/ PushLimit \/ LimitReached \/ PushProjection \/ PushCollect
          \/ PushLoops \/ Build \/ Insert \/ NextProbe \/ ProbeHit \/ ProbeEnd
Done == (stack = << >> \/ SortsNothing) /\ UNCHANGED vars
Next == Run \/ Walk \/ Done
Spec == Init /\ [][Next]_vars

-----------------------------------------------------------------------------
(* What the plan means: the possible sets of tuples of an operator. *)
Same(n, r, t) == Is(n, "sort") => ~Before(n, r, t) /\ ~Before(n, t, r)
Window(n, kid, R) ==
  {S \in SUBSET R : \A r \in R :
     LET first == Cardinality({t \in R : Is(kid, "sort") /\ Before(kid, t, r)})
         ties  == Cardinality({t \in R : Same(kid, t, r)})
     IN Cardinality({t \in S : Same(kid, t, r)})
          = Cardinality({k \in first..(first + ties - 1) : InLimit(n, k)})}
Groups(n, R) ==
  {Single(n, Cardinality({t \in R : GroupKey(n, t) = GroupKey(n, r)}), GroupKey(n, r)) : r \in R}
Results[n \in Ops] ==
  LET node == plan[n]
      kid  == IF node.kids = << >> THEN {} ELSE Results[node.kids[1]]
      Meets(l, r) == IF Is(n, "join") THEN Value(l, node.on[1]) = Value(r, node.on[2]) ELSE Theta(n, l, r)
      JoinOf(L, R) == {Joined(p[1], p[2]) : p \in {p \in L \X R : Meets(p[1], p[2])}}
  IN CASE node.op = "scan" -> {Range(tables[n])}
       [] node.op \in {"print", "sort"} -> kid
       [] node.op = "filter" -> {{r \in R : Passes(n, r)} : R \in kid}
       [] node.op \in {"join", "loops"} -> {JoinOf(L, R) : L \in kid, R \in Results[node.kids[2]]}
       [] node.op = "project" /\ node.kids = << >> -> {{Single(n, 1, 0)}}
       [] node.op = "project" /\ node.kids # << >> -> {{Projected(n, r) : r \in R} : R \in kid}
       [] node.op = "limit" -> UNION {Window(n, node.kids[1], R) : R \in kid}
       [] node.op = "group" -> {Groups(n, R) : R \in kid}
       [] node.op = "aggregate" -> {{Single(n, Cardinality(R), 0)} : R \in kid}
Ordering == {n \in Ops : Is(n, "sort") /\ (Parent(n) = Root \/ Parent(Parent(n)) = Root)}

(* When the plan has been run, the root was given the tuples that the plan *)
(* means, each once, and in the order that it asks for - however they were *)
(* cut into blocks, and whichever run the exception of a limit stopped.  A *)
(* run that ends before, at the assertion of as(), ends at a sort that has *)
(* nothing to sort.                                                        *)
ResultCorrect ==
  /\ stack = << >> =>
       /\ Range(output) \in Results[Root]
       /\ Cardinality(Range(output)) = Len(output)
       /\ \A n \in Ordering : \A i, j \in 1..Len(output) : i < j => ~Before(n, output[j], output[i])
  /\ SortsNothing => {} \in Results[plan[top.at].kids[1]]

(* What M_insist says where a block or a table is written: the slot that a *)
(* match is written to is alive, and a table that is rehashed stays below  *)
(* its watermark.                                                          *)
SlotsAlive ==
  stack # << >> /\ Probing /\ top.hits # {} /\ ~BlockFull(top) => top.i \in blocks[top.at].mask
InsistsHold == SlotsAlive /\ BelowWatermark
=============================================================================
