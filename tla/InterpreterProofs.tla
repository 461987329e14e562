--------------------------- MODULE InterpreterProofs ---------------------------
(* Proofs about Interpreter, for every set of plans that are trees of      *)
(* operators, every capacity of the blocks and every content of the        *)
(* tables: the visitors on the stack never disturb each other's blocks,    *)
(* the exception of a limit is caught, and the hash tables of the joins    *)
(* are used as RefCountingHashMap says.                                    *)
EXTENDS Interpreter, RefCountingHashMapProofs, SequenceTheorems, WellFoundedInduction

-----------------------------------------------------------------------------
(* Plans. *)

PlanOK == q \in 1..Len(Plans)
Kid(n, i) == plan[n].kids[i]
Joins == {n \in Ops : Is(n, "join") \/ Is(n, "loops")}

LEMMA PlanFacts ==
  ASSUME PlanOK
  PROVE  /\ Root \in Nat \ {0} /\ Ops = 1..Root /\ Ops \subseteq Maps
         /\ IsTree(plan) /\ \A n \in Ops : HasArity(plan[n]) /\ IsTyped(plan, n)
<1>1. q \in 1..Len(Plans)
  BY DEF PlanOK
<1>2. /\ Len(plan) \in Nat \ {0} /\ 1..Len(plan) \subseteq Maps
      /\ IsTree(plan) /\ \A n \in 1..Len(plan) : HasArity(plan[n]) /\ IsTyped(plan, n)
  BY <1>1, PlansAssumption DEF plan
<1> QED BY <1>2 DEF Root, Ops

(* Every operator but the root has one parent, above it.                   *)
LEMMA Kids ==
  ASSUME PlanOK, NEW n \in Ops
  PROVE  /\ plan[n].kids \in Seq(1..(n - 1)) /\ (Is(n, "print") <=> n = Root)
         /\ \A i \in 1..Len(plan[n].kids) :
              Kid(n, i) \in Ops /\ Kid(n, i) < n /\ Kid(n, i) # Root /\ Parent(Kid(n, i)) = n
<1>1. /\ Root \in Nat \ {0} /\ Ops = 1..Root /\ n \in Nat
      /\ \A m \in 1..Len(plan) : plan[m].kids \in Seq(1..(m - 1)) /\ (plan[m].op = "print" <=> m = Len(plan))
      /\ \A m, k \in 1..Len(plan) : \A i \in DOMAIN plan[m].kids, j \in DOMAIN plan[k].kids :
           plan[m].kids[i] = plan[k].kids[j] => m = k /\ i = j
  <2>1. Root \in Nat \ {0} /\ Ops = 1..Root /\ n \in Nat /\ IsTree(plan)
    BY PlanFacts
  <2> QED BY <2>1 DEF IsTree
<1>2. \A m \in Ops : plan[m].kids \in Seq(1..(m - 1)) /\ (Is(m, "print") <=> m = Root)
  BY <1>1 DEF Ops, Root, Is
<1>3. ASSUME NEW i \in 1..Len(plan[n].kids)
      PROVE  Kid(n, i) \in Ops /\ Kid(n, i) < n /\ Kid(n, i) # Root /\ Parent(Kid(n, i)) = n
  <2>a. plan[n].kids \in Seq(1..(n - 1)) /\ i \in 1..Len(plan[n].kids)
    BY <1>2
  <2>b. plan[n].kids[i] \in 1..(n - 1)
    BY <2>a, ElementOfSeq
  <2>1. plan[n].kids \in Seq(1..(n - 1)) /\ plan[n].kids[i] \in 1..(n - 1)
    BY <2>a, <2>b
  <2>2. Kid(n, i) \in Ops /\ Kid(n, i) < n /\ Kid(n, i) # Root
    BY <1>1, <2>1 DEF Kid
  <2>3. Kid(n, i) \in Range(plan[n].kids)
    BY <2>1 DEF Kid, Range
  <2>4. ASSUME NEW m \in Ops, Kid(n, i) \in Range(plan[m].kids) PROVE m = n
    <3>1. PICK j \in DOMAIN plan[m].kids : plan[m].kids[j] = plan[n].kids[i]
      BY <2>4 DEF Range, Kid
    <3>2. i \in DOMAIN plan[n].kids
      BY <2>1
    <3> QED BY <1>1, <3>1, <3>2 DEF Ops
  <2>5. Parent(Kid(n, i)) = n
    BY <2>3, <2>4 DEF Parent
  <2> QED BY <2>2, <2>5
<1> QED BY <1>2, <1>3

LEMMA Parents ==
  ASSUME PlanOK, NEW n \in Ops, n # Root
  PROVE  /\ Parent(n) \in Ops /\ n < Parent(n) /\ ~Is(Parent(n), "scan")
         /\ \E i \in 1..Len(plan[Parent(n)].kids) : Kid(Parent(n), i) = n
<1>1. Root \in Nat \ {0} /\ Ops = 1..Root /\ Len(plan) = Root
  BY PlanFacts DEF Root
<1>2. PICK m \in Ops : n \in Range(plan[m].kids)
  <2>1. n \in 1..(Len(plan) - 1)
    BY <1>1
  <2> QED BY <2>1, PlanFacts DEF IsTree, Ops
<1>3. plan[m].kids \in Seq(1..(m - 1))
  BY Kids
<1>4. PICK i \in 1..Len(plan[m].kids) : Kid(m, i) = n
  BY <1>2, <1>3 DEF Range, Kid
<1>5. Parent(n) = m /\ n < m
  BY <1>4, Kids
<1>6. ~Is(m, "scan")
  <2>1. HasArity(plan[m]) /\ Len(plan[m].kids) # 0
    BY <1>3, <1>4, PlanFacts
  <2> QED BY <2>1 DEF HasArity, Is
<1> QED BY <1>4, <1>5, <1>6

(* The operators from n up to the root.                                    *)
UpFrom(n) ==
  {a \in Ops : \A S \in SUBSET Ops : n \in S /\ (\A m \in S \ {Root} : Parent(m) \in S) => a \in S}

LEMMA UpFromRoot == ASSUME PlanOK PROVE UpFrom(Root) = {Root}
<1>1. Root \in Ops
  BY PlanFacts
<1>2. ASSUME NEW a \in UpFrom(Root) PROVE a = Root
  <2>1. {Root} \in SUBSET Ops /\ Root \in {Root} /\ \A m \in {Root} \ {Root} : Parent(m) \in {Root}
    BY <1>1
  <2> QED BY <2>1 DEF UpFrom
<1>3. Root \in UpFrom(Root)
  BY <1>1 DEF UpFrom
<1> QED BY <1>2, <1>3

LEMMA Upward ==
  ASSUME PlanOK, NEW n \in Ops
  PROVE  /\ n \in UpFrom(n) /\ \A a \in UpFrom(n) : a \in Ops /\ n <= a
         /\ n # Root => UpFrom(n) = {n} \cup UpFrom(Parent(n))
<1>1. Root \in Nat \ {0} /\ Ops = 1..Root
  BY PlanFacts
<1>2. n \in UpFrom(n) /\ UpFrom(n) \subseteq Ops
  BY DEF UpFrom
<1>3. ASSUME NEW a \in UpFrom(n) PROVE n <= a
  <2> DEFINE S == {x \in Ops : n <= x}
  <2>1. S \in SUBSET Ops /\ n \in S
    BY <1>1
  <2>2. ASSUME NEW m \in S \ {Root} PROVE Parent(m) \in S
    <3>1. Parent(m) \in Ops /\ m < Parent(m) /\ n <= m
      BY Parents
    <3> QED BY <1>1, <3>1
  <2> HIDE DEF S
  <2>3. a \in S
    BY <2>1, <2>2 DEF UpFrom
  <2> QED BY <2>3 DEF S
<1>4. ASSUME n # Root PROVE UpFrom(n) = {n} \cup UpFrom(Parent(n))
  <2>1. Parent(n) \in Ops
    BY <1>4, Parents
  <2>2. ASSUME NEW a \in UpFrom(Parent(n)) PROVE a \in UpFrom(n)
    <3>1. a \in Ops
      BY DEF UpFrom
    <3>2. ASSUME NEW S \in SUBSET Ops, n \in S, \A m \in S \ {Root} : Parent(m) \in S PROVE a \in S
      <4>1. Parent(n) \in S
        BY <1>4, <3>2
      <4> QED BY <3>2, <4>1 DEF UpFrom
    <3> QED BY <3>1, <3>2 DEF UpFrom
  <2>3. ASSUME NEW a \in UpFrom(n) PROVE a \in {n} \cup UpFrom(Parent(n))
    <3> DEFINE S == {n} \cup UpFrom(Parent(n))
    <3>1. S \in SUBSET Ops /\ n \in S
      BY <2>1 DEF UpFrom
    <3>2. Parent(n) \in UpFrom(Parent(n))
      BY <2>1 DEF UpFrom
    <3>3. ASSUME NEW m \in UpFrom(Parent(n)), m # Root PROVE Parent(m) \in UpFrom(Parent(n))
      <4>1. m \in Ops /\ Parent(m) \in Ops
        BY <3>3, Parents DEF UpFrom
      <4>2. ASSUME NEW T \in SUBSET Ops, Parent(n) \in T, \A x \in T \ {Root} : Parent(x) \in T
            PROVE  Parent(m) \in T
        <5>1. m \in T
          BY <4>2 DEF UpFrom
        <5> QED BY <3>3, <4>2, <5>1
      <4> QED BY <4>1, <4>2 DEF UpFrom
    <3>4. \A m \in S \ {Root} : Parent(m) \in S
      BY <3>2, <3>3
    <3> HIDE DEF S
    <3>5. a \in S
      BY <3>1, <3>4 DEF UpFrom
    <3> QED BY <3>5 DEF S
  <2> QED BY <1>2, <2>2, <2>3
<1> QED BY <1>2, <1>3, <1>4
-----------------------------------------------------------------------------
(* The stack. *)

Frames(st)    == {st[k] : k \in 1..Len(st)}
Deeper(st, k) == {st[l] : l \in (k + 1)..Len(st)}

(* Runs are below pushes.  A run is of an operator below those that run    *)
(* already; pushes climb up the plan.  Every limit on the way up to the    *)
(* root is one that runs.                                                  *)
Placed(f, B) ==
  /\ f.do = "run" => \A g \in B : g.do = "run" /\ f.at < g.at
  /\ f.do = "push" => \A g \in B : g.do = "push" => g.at < f.at
  /\ \A p \in UpFrom(f.at) : Is(p, "limit") /\ (f.do = "run" => p # f.at) =>
       \E g \in B : Catches(g) /\ g.at = p
Stacked(st) == \A k \in 1..Len(st) : Placed(st[k], Deeper(st, k))

LEMMA OneMore ==
  ASSUME NEW F, NEW st \in Seq(F), NEW f \in F
  PROVE  /\ <<f>> \o st \in Seq(F) /\ Len(<<f>> \o st) = Len(st) + 1
         /\ Head(<<f>> \o st) = f /\ Tail(<<f>> \o st) = st
         /\ \A k \in 1..(Len(st) + 1) : (<<f>> \o st)[k] = IF k = 1 THEN f ELSE st[k - 1]
         /\ Frames(<<f>> \o st) = {f} \cup Frames(st)
<1> DEFINE t == <<f>> \o st
<1>1. /\ t \in Seq(F) /\ Len(t) = Len(st) + 1 /\ Len(st) \in Nat
      /\ \A k \in 1..(Len(st) + 1) : t[k] = IF k = 1 THEN f ELSE st[k - 1]
  OBVIOUS
<1>2. Head(t) = f /\ Tail(t) = st
  OBVIOUS
<1> HIDE DEF t
<1>3. Frames(t) = {f} \cup Frames(st)
  <2>1. t[1] = f /\ 1 \in 1..Len(t)
    BY <1>1
  <2>2. \A k \in 1..Len(st) : k + 1 \in 1..Len(t) /\ t[k + 1] = st[k]
    BY <1>1
  <2>3. \A k \in 1..Len(t) : k = 1 \/ (k - 1 \in 1..Len(st) /\ t[k] = st[k - 1])
    BY <1>1
  <2> QED BY <2>1, <2>2, <2>3 DEF Frames
<1> QED BY <1>1, <1>2, <1>3 DEF t

LEMMA Pushed ==
  ASSUME NEW F, NEW st \in Seq(F), NEW f \in F, Stacked(st), Placed(f, Frames(st))
  PROVE  Stacked(<<f>> \o st)
<1> DEFINE t == <<f>> \o st
<1>1. /\ Len(t) = Len(st) + 1 /\ Len(st) \in Nat
      /\ \A k \in 1..(Len(st) + 1) : t[k] = IF k = 1 THEN f ELSE st[k - 1]
  BY OneMore
<1> HIDE DEF t
<1>2. ASSUME NEW k \in 1..Len(t) PROVE Placed(t[k], Deeper(t, k))
  <2>1. Deeper(t, k) = IF k = 1 THEN Frames(st) ELSE Deeper(st, k - 1)
    <3>1. \A l \in (k + 1)..Len(t) : l - 1 \in k..Len(st) /\ l - 1 \in 1..Len(st) /\ t[l] = st[l - 1]
      BY <1>1
    <3>2. \A l \in k..Len(st) : l + 1 \in (k + 1)..Len(t) /\ t[l + 1] = st[l]
      BY <1>1
    <3>3. Deeper(t, k) = {st[l] : l \in k..Len(st)}
      <4>1. ASSUME NEW x \in Deeper(t, k) PROVE x \in {st[l] : l \in k..Len(st)}
        <5>1. PICK l \in (k + 1)..Len(t) : x = t[l]
          BY DEF Deeper
        <5>2. l - 1 \in k..Len(st) /\ x = st[l - 1]
          BY <3>1, <5>1
        <5> QED BY <5>2
      <4>2. ASSUME NEW x \in {st[l] : l \in k..Len(st)} PROVE x \in Deeper(t, k)
        <5>1. PICK l \in k..Len(st) : x = st[l]
          OBVIOUS
        <5>2. l + 1 \in (k + 1)..Len(t) /\ x = t[l + 1]
          BY <3>2, <5>1
        <5> QED BY <5>2 DEF Deeper
      <4> QED BY <4>1, <4>2
    <3>4. k # 1 => (k - 1) + 1 = k
      OBVIOUS
    <3> QED BY <3>3, <3>4 DEF Deeper, Frames
  <2>2. CASE k = 1
    BY <1>1, <2>1, <2>2
  <2>3. CASE k # 1
    <3>1. k - 1 \in 1..Len(st) /\ t[k] = st[k - 1]
      BY <1>1, <2>3
    <3> QED BY <2>1, <2>3, <3>1 DEF Stacked
  <2> QED BY <2>2, <2>3
<1> QED BY <1>2 DEF Stacked, t

(* What is left after some of the innermost frames. *)
LEMMA Suffix ==
  ASSUME NEW F, NEW st \in Seq(F), Stacked(st), NEW k \in 1..Len(st),
         NEW t, t = SubSeq(st, 1 + k, Len(st))
  PROVE  t \in Seq(F) /\ Stacked(t) /\ Frames(t) = Deeper(st, k)
<1>1. /\ t \in Seq(F) /\ Len(t) = Len(st) - k /\ Len(st) \in Nat /\ k \in Nat
      /\ \A l \in 1..(Len(st) - k) : t[l] = st[l + k]
  OBVIOUS
<1>2. Frames(t) = Deeper(st, k)
  <2>1. \A l \in 1..Len(t) : l + k \in (k + 1)..Len(st) /\ t[l] = st[l + k]
    BY <1>1
  <2>2. \A l \in (k + 1)..Len(st) : l - k \in 1..Len(t) /\ t[l - k] = st[l]
    BY <1>1
  <2>3. ASSUME NEW x \in Frames(t) PROVE x \in Deeper(st, k)
    <3>1. PICK l \in 1..Len(t) : x = t[l]
      BY DEF Frames
    <3>2. l + k \in (k + 1)..Len(st) /\ x = st[l + k]
      BY <2>1, <3>1
    <3> QED BY <3>2 DEF Deeper
  <2>4. ASSUME NEW x \in Deeper(st, k) PROVE x \in Frames(t)
    <3>1. PICK l \in (k + 1)..Len(st) : x = st[l]
      BY DEF Deeper
    <3>2. l - k \in 1..Len(t) /\ x = t[l - k]
      BY <2>2, <3>1
    <3> QED BY <3>2 DEF Frames
  <2> QED BY <2>3, <2>4
<1>3. ASSUME NEW l \in 1..Len(t) PROVE Placed(t[l], Deeper(t, l))
  <2>1. l + k \in 1..Len(st) /\ t[l] = st[l + k]
    BY <1>1
  <2>2. Deeper(t, l) = Deeper(st, l + k)
    <3>1. \A x \in (l + 1)..Len(t) : x + k \in (l + k + 1)..Len(st) /\ t[x] = st[x + k]
      BY <1>1
    <3>2. \A x \in (l + k + 1)..Len(st) : x - k \in (l + 1)..Len(t) /\ t[x - k] = st[x]
      BY <1>1
    <3>3. ASSUME NEW x \in Deeper(t, l) PROVE x \in Deeper(st, l + k)
      <4>1. PICK y \in (l + 1)..Len(t) : x = t[y]
        BY DEF Deeper
      <4>2. y + k \in (l + k + 1)..Len(st) /\ x = st[y + k]
        BY <3>1, <4>1
      <4> QED BY <4>2 DEF Deeper
    <3>4. ASSUME NEW x \in Deeper(st, l + k) PROVE x \in Deeper(t, l)
      <4>1. PICK y \in (l + k + 1)..Len(st) : x = st[y]
        BY DEF Deeper
      <4>2. y - k \in (l + 1)..Len(t) /\ x = t[y - k]
        BY <3>2, <4>1
      <4> QED BY <4>2 DEF Deeper
    <3> QED BY <3>3, <3>4
  <2> QED BY <2>1, <2>2 DEF Stacked
<1> QED BY <1>1, <1>2, <1>3 DEF Stacked

LEMMA Popped ==
  ASSUME NEW F, NEW st \in Seq(F), st # << >>, Stacked(st)
  PROVE  /\ Head(st) \in F /\ Head(st) \in Frames(st)
         /\ Tail(st) \in Seq(F) /\ Stacked(Tail(st)) /\ Frames(Tail(st)) \subseteq Frames(st)
         /\ Placed(Head(st), Frames(Tail(st)))
<1>1. Len(st) \in Nat \ {0} /\ 1 \in 1..Len(st) /\ Head(st) = st[1] /\ st[1] \in F
  OBVIOUS
<1>2. Tail(st) = SubSeq(st, 1 + 1, Len(st))
  OBVIOUS
<1>3. Tail(st) \in Seq(F) /\ Stacked(Tail(st)) /\ Frames(Tail(st)) = Deeper(st, 1)
  BY <1>1, <1>2, Suffix
<1>4. Deeper(st, 1) \subseteq Frames(st) /\ st[1] \in Frames(st)
  BY <1>1 DEF Deeper, Frames
<1> QED BY <1>1, <1>3, <1>4 DEF Stacked

(* A frame that returns is below the one that is called. *)
LEMMA TwoMore ==
  ASSUME NEW F, NEW st \in Seq(F), NEW f \in F, NEW g \in F,
         Stacked(st), Placed(f, Frames(st)), Placed(g, {f} \cup Frames(st))
  PROVE  <<g, f>> \o st \in Seq(F) /\ Stacked(<<g, f>> \o st) /\ Frames(<<g, f>> \o st) = {f, g} \cup Frames(st)
<1> DEFINE t == <<f>> \o st
<1>1. t \in Seq(F) /\ Stacked(t) /\ Frames(t) = {f} \cup Frames(st)
  BY OneMore, Pushed
<1>2. <<g, f>> \o st = <<g>> \o t
  <2>1. /\ <<g, f>> \o st \in Seq(F) /\ <<g>> \o t \in Seq(F) /\ t \in Seq(F)
        /\ Len(<<g, f>> \o st) = Len(st) + 2 /\ Len(<<g>> \o t) = Len(st) + 2
    OBVIOUS
  <2>2. ASSUME NEW k \in 1..(Len(st) + 2) PROVE (<<g, f>> \o st)[k] = (<<g>> \o t)[k]
    OBVIOUS
  <2> HIDE DEF t
  <2> QED BY <2>1, <2>2, SeqEqual
<1> HIDE DEF t
<1>3. <<g>> \o t \in Seq(F) /\ Stacked(<<g>> \o t) /\ Frames(<<g>> \o t) = {g} \cup Frames(t)
  BY ZenonT(30), <1>1, OneMore, Pushed
<1> QED BY <1>1, <1>2, <1>3
-----------------------------------------------------------------------------
(* The invariant. *)

(* Tuples of a schema, and the tuples that n yields.                       *)
Tuples(S)   == [S -> [pos : Nat, val : Domain]]
TuplesOf(n) == Tuples(plan[n].schema)
AnyTuple    == UNION {TuplesOf(n) : n \in Ops}

Frame ==
  [do : {"run", "push"}, at : Ops, from : Ops, todo : SUBSET BlockSlots, hits : SUBSET Nat,
   left : Seq(AnyTuple), cur : BlockSlots, i : Nat]

(* The child whose tuples n is given: of two the one that runs.            *)
Feeder(n, d) == Kid(n, IF n \in Joins THEN d[n].active ELSE 1)

(* A join remembers the child on the side of which the visitors are.       *)
Steered(f, d) ==
  \A p \in UpFrom(f.at) : p \in Joins /\ p # f.at =>
    d[p].active \in 1..2 /\ Kid(p, d[p].active) \in UpFrom(f.at)

(* A join that probes: the matches that were written, and, as long as      *)
(* there are hits, the slots that stay alive, the tuple that probes and    *)
(* what it found in the table.                                             *)
Probes(f, b, ms) ==
  /\ f.i <= C
  /\ \A s \in 0..(f.i - 1) : b[f.at].row[s] \in TuplesOf(f.at)
  /\ f.hits # {} => /\ b[f.at].mask = BlockSlots
                    /\ b[f.from].row[f.cur] \in TuplesOf(f.from)
                    /\ f.hits \subseteq Matches(ms[f.at], Key(b[f.from].row[f.cur], plan[f.at].on[2]))

(* A visitor of a block reads tuples of the schema that it expects, from   *)
(* the block of an operator below.                                         *)
Visits(f, d, b, ms) ==
  /\ Len(plan[f.at].kids) # 0 /\ f.from < f.at /\ f.left = << >>
  /\ Is(f.from, "join") => f.at = Parent(f.from)
  /\ (Is(f.at, "join") /\ d[f.at].active = 2) \/ f.hits = {}
  /\ Is(f.at, "filter") => f.i = 0
  /\ f.at \in Joins => d[f.at].active \in 1..2
  /\ plan[f.from].schema = plan[Feeder(f.at, d)].schema
  /\ \A s \in f.todo \cup b[f.from].mask : b[f.from].row[s] \in TuplesOf(f.from)
  /\ Is(f.at, "loops") /\ d[f.at].active = 2 => f.i <= Len(d[f.at].rows)
  /\ Is(f.at, "join") => Probes(f, b, ms)

FrameOK(f, d, b, ms) ==
  /\ Steered(f, d)
  /\ f.left \in Seq(TuplesOf(f.at))
  /\ f.do = "run" /\ f.at \in Joins => f.i <= 2
  /\ f.do = "push" => Visits(f, d, b, ms)

TablesOK == \A n \in Scans : tables[n] \in Seq(TuplesOf(n))
BlocksOK(b) == b \in [Ops -> [row : [BlockSlots -> AnyTuple \cup {NoRow}], mask : SUBSET BlockSlots]]

(* Nested loops keep tuples of their left child, the others their own.     *)
KeptBy(n) == IF Is(n, "loops") THEN TuplesOf(Kid(n, 1)) ELSE TuplesOf(n)
Datum == [fed : BOOLEAN, count : Nat, active : 0..2, rows : Seq(AnyTuple)]
DataOK(d) ==
  /\ d \in [Ops -> Datum]
  /\ \A n \in Ops : d[n].rows \in Seq(KeptBy(n))

(* The table of a join holds tuples of its left child, also while it is    *)
(* rehashed, and only a join that builds inserts.                          *)
Holds(m, n) == \A s \in Occupied(m) : m.at[s][2] \in TuplesOf(Kid(n, 1))
TablesHold == \A n \in Ops : Is(n, "join") => Holds(maps[n], n)
Inserting ==
  ins.element # NoElement =>
    /\ stack # << >> /\ Building /\ ins.into = top.at
    /\ ins.element[2] \in TuplesOf(Kid(ins.into, 1)) /\ Holds(ins.old, ins.into)

StackOK(st, d, b, ms) ==
  st \in Seq(Frame) /\ Stacked(st) /\ \A f \in Frames(st) : FrameOK(f, d, b, ms)
InterpreterInv ==
  /\ PlanOK /\ TablesOK /\ BlocksOK(blocks) /\ DataOK(data)
  /\ MapInv /\ TablesHold /\ Inserting
  /\ StackOK(stack, data, blocks, maps)

(* What the proofs ask of the maps: that they take the tuples of every     *)
(* operator and the keys made of them.                                     *)
Storable ==
  \A k \in 1..Len(Plans) : \A n \in 1..Len(Plans[k]) :
    LET T == Tuples(Plans[k][n].schema) IN
    /\ T \subseteq Values
    /\ IF CharKeys THEN T \X Plans[k][n].schema \subseteq Keys ELSE Domain \subseteq Keys
-----------------------------------------------------------------------------
(* The plan stays. *)
LEMMA SamePlan ==
  ASSUME q' = q
  PROVE  /\ plan' = plan /\ Ops' = Ops /\ Root' = Root /\ Joins' = Joins /\ Scans' = Scans
         /\ AnyTuple' = AnyTuple /\ Frame' = Frame
         /\ \A n : UpFrom(n)' = UpFrom(n) /\ TuplesOf(n)' = TuplesOf(n) /\ Parent(n)' = Parent(n)
         /\ \A st : Stacked(st)' = Stacked(st)
         /\ \A f, d, b, ms : FrameOK(f, d, b, ms)' = FrameOK(f, d, b, ms)
<1>1. plan' = plan
  BY DEF plan
<1>2. Ops' = Ops /\ Root' = Root
  BY <1>1 DEF Ops, Root
<1>3. Joins' = Joins /\ Scans' = Scans
  BY <1>1, <1>2 DEF Joins, Scans, Is
<1>4. \A n : Parent(n)' = Parent(n)
  BY <1>1, <1>2 DEF Parent
<1>5. \A n : UpFrom(n)' = UpFrom(n)
  BY <1>2, <1>4 DEF UpFrom
<1>6. \A n : TuplesOf(n)' = TuplesOf(n)
  BY <1>1 DEF TuplesOf
<1>7. AnyTuple' = AnyTuple
  BY <1>2, <1>6 DEF AnyTuple
<1>8. Frame' = Frame
  BY <1>2, <1>7 DEF Frame
<1>9. \A st : Stacked(st)' = Stacked(st)
  BY <1>1, <1>5 DEF Stacked, Placed, Is, Catches
<1>10. \A f, d, b, ms : FrameOK(f, d, b, ms)' = FrameOK(f, d, b, ms)
  <2>1. \A f, d : Steered(f, d)' = Steered(f, d)
    BY <1>1, <1>3, <1>5 DEF Steered, Kid
  <2>2. \A n, d : Feeder(n, d)' = Feeder(n, d)
    BY <1>1, <1>3 DEF Feeder, Kid
  <2>3. \A f, b, ms : Probes(f, b, ms)' = Probes(f, b, ms)
    BY <1>1, <1>6 DEF Probes
  <2>4. \A f, d, b, ms : Visits(f, d, b, ms)' = Visits(f, d, b, ms)
    BY <1>1, <1>3, <1>4, <1>6, <2>2, <2>3 DEF Visits, Is
  <2> QED BY <1>3, <1>6, <2>1, <2>4 DEF FrameOK
<1> QED BY <1>1, <1>2, <1>3, <1>4, <1>5, <1>6, <1>7, <1>8, <1>9, <1>10
-----------------------------------------------------------------------------
(* Tuples. *)

LEMMA SingleTyped ==
  ASSUME NEW n, NEW pos \in Nat, NEW v \in Domain
  PROVE  Single(n, pos, v) \in Tuples({n})
BY DEF Single, Tuples

LEMMA JoinedTyped ==
  ASSUME NEW S, NEW T, NEW l \in Tuples(S), NEW r \in Tuples(T)
  PROVE  Joined(l, r) \in Tuples(S \cup T)
BY DEF Joined, Tuples

LEMMA ValueTyped ==
  ASSUME NEW S, NEW r \in Tuples(S), NEW s \in S
  PROVE  Value(r, s) \in Domain
BY DEF Value, Tuples

LEMMA ProjectedTyped ==
  ASSUME NEW n, NEW S, NEW r \in Tuples(S), plan[n].expr \in [Domain -> Domain]
  PROVE  Projected(n, r) \in Tuples(S)
BY DEF Projected, Tuples

(* The least of a set of slots or hits.                                    *)
LEMMA Least ==
  ASSUME NEW T \in SUBSET Nat, T # {}
  PROVE  Min(T) \in T /\ \A y \in T : Min(T) <= y
<1>1. PICK x \in T : \A y \in T : ~(<<y, x>> \in OpToRel(<, Nat))
  BY NatLessThanWellFounded, WFMin
<1>2. ASSUME NEW y \in T, ~(x <= y) PROVE FALSE
  <2>1. y < x
    BY <1>2
  <2>2. <<y, x>> \in Nat \X Nat /\ <<y, x>>[1] = y /\ <<y, x>>[2] = x
    OBVIOUS
  <2>3. <<y, x>> \in OpToRel(<, Nat)
    BY <2>1, <2>2, Zenon DEF OpToRel
  <2> QED BY <1>1, <2>3
<1> QED BY <1>1, <1>2 DEF Min

(* A block's worth of a sequence. *)
LEMMA NextRowsTyped ==
  ASSUME NEW T, NEW rs \in Seq(T), NEW i \in Nat
  PROVE  NextRows(rs, i) \in Seq(T) /\ Len(NextRows(rs, i)) \in Nat /\ Len(NextRows(rs, i)) <= C
<1> DEFINE m == Min({i + C, Len(rs)})
<1>1. C \in Nat \ {0} /\ Len(rs) \in Nat
  BY CapacityAssumption
<1>2. m \in Nat /\ m <= Len(rs) /\ m <= i + C
  <2>1. {i + C, Len(rs)} \in SUBSET Nat /\ {i + C, Len(rs)} # {}
    BY <1>1
  <2>2. m \in {i + C, Len(rs)} /\ \A y \in {i + C, Len(rs)} : m <= y
    BY <2>1, Least
  <2> HIDE DEF m
  <2> QED BY <1>1, <2>2
<1>3. NextRows(rs, i) = SubSeq(rs, i + 1, m)
  BY DEF NextRows
<1> HIDE DEF m
<1>4. /\ SubSeq(rs, i + 1, m) \in Seq(T)
      /\ Len(SubSeq(rs, i + 1, m)) = IF i + 1 <= m THEN m - i ELSE 0
  <2>1. \A k \in (i + 1)..m : k \in 1..Len(rs) /\ rs[k] \in T
    BY <1>1, <1>2
  <2> QED BY <1>1, <1>2, <2>1
<1> QED BY <1>1, <1>2, <1>3, <1>4

LEMMA FirstSlotsInBlock ==
  ASSUME NEW k \in Nat, k <= C
  PROVE  FirstSlots(k) \subseteq BlockSlots /\ 0 \in BlockSlots
BY CapacityAssumption DEF FirstSlots, BlockSlots

LEMMA FilledTyped ==
  ASSUME PlanOK, BlocksOK(blocks), NEW n \in Ops, NEW rs \in Seq(TuplesOf(n)), Len(rs) <= C
  PROVE  /\ FilledWith(n, rs) \in [BlockSlots -> AnyTuple \cup {NoRow}]
         /\ \A s \in FirstSlots(Len(rs)) : FilledWith(n, rs)[s] \in TuplesOf(n)
<1>1. blocks[n].row \in [BlockSlots -> AnyTuple \cup {NoRow}]
  BY DEF BlocksOK
<1>2. C \in Nat /\ Len(rs) \in Nat
  BY CapacityAssumption
<1>3. ASSUME NEW s \in BlockSlots, s < Len(rs) PROVE rs[s + 1] \in TuplesOf(n)
  <2>1. s + 1 \in 1..Len(rs)
    BY <1>2, <1>3 DEF BlockSlots
  <2> QED BY <2>1, ElementOfSeq
<1>4. TuplesOf(n) \subseteq AnyTuple
  BY DEF AnyTuple
<1>5. \A s \in FirstSlots(Len(rs)) : s \in BlockSlots /\ s < Len(rs)
  BY <1>2 DEF FirstSlots, BlockSlots
<1> QED BY <1>1, <1>3, <1>4, <1>5 DEF FilledWith

LEMMA OrdersTyped ==
  ASSUME NEW n, NEW T, data[n].rows \in Seq(T), NEW o \in Orders(n)
  PROVE  o \in Seq(T)
<1> DEFINE rs == data[n].rows  k == Len(rs)
<1>1. PICK p \in SetToSeqs(1..k) : o = [i \in 1..k |-> rs[p[i]]]
  BY DEF Orders
<1>2. k \in Nat /\ Cardinality(1..k) = k
  <2>1. k \in Nat
    OBVIOUS
  <2> HIDE DEF k
  <2>2. 1 \in Int /\ k \in Int
    BY <2>1
  <2>3. Cardinality(1..k) = IF 1 > k THEN 0 ELSE k - 1 + 1
    BY <2>2, FS_Interval
  <2> QED BY <2>1, <2>3
<1>3. p \in [1..k -> 1..k]
  <2> HIDE DEF k
  <2> QED BY <1>1, <1>2 DEF SetToSeqs
<1>4. \A i \in 1..k : rs[p[i]] \in T
  <2>1. \A j \in 1..k : rs[j] \in T
    BY ElementOfSeq
  <2> HIDE DEF rs, k
  <2> QED BY <1>3, <2>1
<1> HIDE DEF rs, k
<1> QED BY <1>1, <1>2, <1>4

LEMMA GroupedTyped ==
  ASSUME NEW n, NEW groups \in Seq(Tuples({n})), NEW row, GroupKey(n, row) \in Domain
  PROVE  Grouped(n, groups, row) \in Seq(Tuples({n}))
<1>1. \A i \in 1..Len(groups) : groups[i] \in Tuples({n})
  BY ElementOfSeq
<1>2. ASSUME NEW g \in Tuples({n}) PROVE [g EXCEPT ![n].pos = @ + 1] \in Tuples({n})
  BY DEF Tuples
<1>3. CASE \E i \in 1..Len(groups) : SameGroup(n, groups[i], row)
  <2>1. Grouped(n, groups, row) = [i \in 1..Len(groups) |->
          IF SameGroup(n, groups[i], row) THEN [groups[i] EXCEPT ![n].pos = @ + 1] ELSE groups[i]]
    BY <1>3 DEF Grouped
  <2>2. Grouped(n, groups, row) \in [1..Len(groups) -> Tuples({n})]
    BY <1>1, <1>2, <2>1
  <2>3. Len(groups) \in Nat
    OBVIOUS
  <2> QED BY <2>2, <2>3, SeqDef, Zenon
<1>4. CASE ~\E i \in 1..Len(groups) : SameGroup(n, groups[i], row)
  <2>1. Single(n, 1, GroupKey(n, row)) \in Tuples({n})
    BY SingleTyped
  <2>2. Grouped(n, groups, row) = Append(groups, Single(n, 1, GroupKey(n, row)))
    BY <1>4 DEF Grouped
  <2> QED BY <2>1, <2>2
<1> QED BY <1>3, <1>4
-----------------------------------------------------------------------------
(* Visitors. *)

LEMMA SamePlace ==
  ASSUME NEW f, NEW g, NEW B, Placed(f, B), g.do = f.do, g.at = f.at
  PROVE  Placed(g, B)
BY DEF Placed

(* A push to the parent, above what f stands on or above the frame that    *)
(* takes its place.                                                        *)
LEMMA ClimbPlaced ==
  ASSUME PlanOK, NEW f \in Frame, f.at # Root, NEW B \in SUBSET Frame, Placed(f, B),
         NEW g, g.do = "push", g.at = Parent(f.at)
  PROVE  Placed(g, B) /\ \A h \in Frame : h.at = f.at => Placed(g, {h} \cup B)
<1>1. /\ f.at \in Nat /\ f.at \in Ops /\ f.do \in {"run", "push"}
      /\ Parent(f.at) \in Nat /\ f.at < Parent(f.at) /\ Parent(f.at) \in Ops
      /\ Ops \subseteq Nat
  BY PlanFacts, Parents DEF Frame
<1>2. \A x \in B : x.at \in Nat /\ (x.do = "push" => x.at < g.at)
  <2>1. \A x \in B : x.at \in Nat
    BY <1>1 DEF Frame
  <2>2. \A x \in B : x.do = "push" => x.at < f.at
    BY <1>1 DEF Placed
  <2> QED BY <1>1, <2>1, <2>2
<1>3. ASSUME NEW p \in UpFrom(g.at), Is(p, "limit") PROVE \E x \in B : Catches(x) /\ x.at = p
  <2>1. p \in UpFrom(f.at) /\ p # f.at
    BY <1>1, Upward
  <2> QED BY <1>3, <2>1 DEF Placed
<1> QED BY <1>1, <1>2, <1>3 DEF Placed

LEMMA ClimbSteered ==
  ASSUME PlanOK, NEW f \in Frame, f.at # Root, NEW d, Steered(f, d), NEW g, g.at = Parent(f.at)
  PROVE  /\ Steered(g, d) /\ Feeder(g.at, d) = f.at /\ Len(plan[g.at].kids) # 0
         /\ g.at \in Joins => d[g.at].active \in 1..2
<1> DEFINE n == f.at  m == g.at
<1>1. n \in Ops /\ m \in Ops /\ n < m /\ Ops \subseteq Nat /\ ~Is(m, "scan")
  BY PlanFacts, Parents DEF Frame
<1>2. UpFrom(n) = {n} \cup UpFrom(m) /\ \A a \in UpFrom(m) : a \in Ops /\ m <= a
  BY <1>1, Upward
<1>3. m \in UpFrom(m)
  BY <1>1, Upward
<1>4. ASSUME NEW p \in UpFrom(m), p \in Joins
      PROVE  d[p].active \in 1..2 /\ Kid(p, d[p].active) \in UpFrom(n) /\ p # n
  <2>1. p \in UpFrom(n) /\ p \in Nat /\ n \in Nat /\ m \in Nat /\ m <= p
    BY <1>1, <1>2
  <2>2. p # n
    BY <1>1, <2>1
  <2> QED BY <1>4, <2>1, <2>2 DEF Steered
<1>5. ASSUME NEW p \in Ops, p # m, NEW i \in 1..Len(plan[p].kids) PROVE Kid(p, i) # n
  BY <1>5, Kids
<1>6. \A p \in Joins : Len(plan[p].kids) = 2 /\ p \in Ops
  BY PlanFacts DEF HasArity, Joins, Is
<1>7. Steered(g, d)
  <2>1. ASSUME NEW p \in UpFrom(m), p \in Joins, p # m
        PROVE  d[p].active \in 1..2 /\ Kid(p, d[p].active) \in UpFrom(m)
    <3>1. Kid(p, d[p].active) # n
      BY <1>2, <1>4, <1>5, <1>6, <2>1
    <3> QED BY <1>2, <1>4, <2>1, <3>1
  <2> QED BY <2>1 DEF Steered
<1>8. PICK i \in 1..Len(plan[m].kids) : Kid(m, i) = n
  BY <1>1, Parents DEF Frame
<1>9. Len(plan[m].kids) \in Nat \ {0}
  <2>1. plan[m].kids \in Seq(1..(m - 1))
    BY <1>1, Kids
  <2>2. Len(plan[m].kids) \in Nat
    BY <2>1
  <2> QED BY <1>8, <2>2
<1>10. Feeder(m, d) = n
  <2>1. CASE m \in Joins
    <3>1. d[m].active \in 1..2 /\ Kid(m, d[m].active) \in UpFrom(n)
      BY <1>3, <1>4, <2>1
    <3>2. Kid(m, d[m].active) < m /\ Kid(m, d[m].active) \in Nat /\ m \in Nat
      BY <1>1, <1>6, <2>1, <3>1, Kids
    <3>3. Kid(m, d[m].active) \notin UpFrom(m)
      <4>1. ~(m <= Kid(m, d[m].active))
        BY <3>2
      <4> QED BY <1>2, <4>1
    <3> QED BY <1>2, <2>1, <3>1, <3>3 DEF Feeder
  <2>2. CASE m \notin Joins
    <3>1. HasArity(plan[m])
      BY <1>1, PlanFacts
    <3>2. Len(plan[m].kids) = 1
      BY <1>1, <1>9, <2>2, <3>1 DEF HasArity, Joins, Is
    <3>3. i = 1
      BY <1>8, <3>2
    <3> QED BY <1>8, <2>2, <3>3 DEF Feeder
  <2> QED BY <2>1, <2>2
<1> QED BY <1>3, <1>4, <1>7, <1>9, <1>10

(* A run of a child. *)
LEMMA DescendPlaced ==
  ASSUME PlanOK, NEW f \in Frame, f.do = "run", NEW B \in SUBSET Frame, Placed(f, B),
         NEW i \in 1..Len(plan[f.at].kids), NEW g, g.do = "run", g.at = Kid(f.at, i)
  PROVE  /\ ~Is(f.at, "limit") => Placed(g, B)
         /\ \A h \in Frame : h.do = "run" /\ h.at = f.at => Placed(g, {h} \cup B)
<1> DEFINE n == f.at  k == g.at
<1>1. n \in Ops /\ k \in Ops /\ k < n /\ k # Root /\ Parent(k) = n /\ Ops \subseteq Nat
  BY PlanFacts, Kids DEF Frame
<1>2. UpFrom(k) = {k} \cup UpFrom(n)
  BY <1>1, Upward
<1>3. \A x \in B : x.at \in Nat /\ x.do = "run" /\ k < x.at
  <2>1. \A x \in B : x.at \in Nat /\ x.do = "run" /\ n < x.at
    BY <1>1 DEF Placed, Frame
  <2>2. n \in Nat /\ k \in Nat /\ k < n
    BY <1>1
  <2> HIDE DEF n, k
  <2> QED BY <2>1, <2>2
<1>4. ASSUME NEW p \in UpFrom(k), Is(p, "limit"), p # k, p # n PROVE \E x \in B : Catches(x) /\ x.at = p
  BY <1>2, <1>4 DEF Placed
<1>5. ~Is(n, "limit") => Placed(g, B)
  BY <1>3, <1>4 DEF Placed
<1>6. ASSUME NEW h \in Frame, h.do = "run", h.at = n PROVE Placed(g, {h} \cup B)
  <2>1. Is(n, "limit") => Catches(h)
    BY <1>6 DEF Catches
  <2>2. \A p \in UpFrom(k) : Is(p, "limit") /\ p # k => \E x \in {h} \cup B : Catches(x) /\ x.at = p
    BY <1>4, <1>6, <2>1
  <2> QED BY <1>1, <1>3, <1>6, <2>2 DEF Placed
<1> QED BY <1>5, <1>6

LEMMA DescendSteered ==
  ASSUME PlanOK, NEW f \in Frame, NEW d, Steered(f, d), NEW i \in 1..Len(plan[f.at].kids),
         f.at \in Joins => d[f.at].active = i, NEW g, g.at = Kid(f.at, i)
  PROVE  Steered(g, d)
<1> DEFINE n == f.at  k == g.at
<1>1. n \in Ops /\ k \in Ops /\ k < n /\ k # Root /\ Parent(k) = n
  BY Kids DEF Frame
<1>2. UpFrom(k) = {k} \cup UpFrom(n) /\ k \in UpFrom(k)
  BY <1>1, Upward
<1>3. n \in Joins => Len(plan[n].kids) = 2
  BY <1>1, PlanFacts DEF HasArity, Joins, Is
<1>4. ASSUME NEW p \in UpFrom(k), p \in Joins, p # k
      PROVE  d[p].active \in 1..2 /\ Kid(p, d[p].active) \in UpFrom(k)
  <2>1. CASE p = n
    BY <1>2, <1>3, <1>4, <2>1
  <2>2. CASE p # n
    BY <1>2, <1>4, <2>2 DEF Steered
  <2> QED BY <2>1, <2>2
<1> QED BY <1>4 DEF Steered
-----------------------------------------------------------------------------
(* A step of the innermost visitor spares what those below it rely on: the *)
(* data, blocks and tables of the operators below its own, except that it  *)
(* may erase in the block that it reads.                                   *)
Spares(f, d2, b2, ms2) ==
  /\ \A m \in Ops : m < f.at =>
       /\ d2[m] = data[m] /\ ms2[m] = maps[m] /\ b2[m].row = blocks[m].row
       /\ b2[m].mask \subseteq blocks[m].mask /\ (Is(m, "join") => b2[m].mask = blocks[m].mask)
  /\ \A m \in Ops : m # f.at \/ f.do = "push" => d2[m].active = data[m].active

LEMMA Pending ==
  ASSUME PlanOK, NEW f \in Frame, NEW B \in SUBSET Frame, Placed(f, B), NEW d2, NEW b2, NEW ms2,
         Spares(f, d2, b2, ms2), NEW g \in B, FrameOK(g, data, blocks, maps)
  PROVE  FrameOK(g, d2, b2, ms2)
<1>1. /\ f.at \in Ops /\ g.at \in Ops /\ f.do \in {"run", "push"} /\ g.do \in {"run", "push"}
      /\ g.from \in Ops /\ Ops \subseteq Nat
  BY PlanFacts DEF Frame
<1>2. f.do = "run" => g.do = "run" /\ f.at < g.at
  BY DEF Placed
<1>3. Steered(g, d2)
  <2>1. ASSUME NEW p \in UpFrom(g.at), p \in Joins, p # g.at
        PROVE  d2[p].active = data[p].active
    <3>1. p \in Ops /\ p \in Nat /\ g.at \in Nat /\ f.at \in Nat /\ g.at <= p
      BY <1>1, Upward
    <3>2. p # f.at \/ f.do = "push"
      BY <1>1, <1>2, <3>1
    <3> QED BY <3>1, <3>2 DEF Spares
  <2> QED BY <2>1 DEF Steered, FrameOK
<1>4. ASSUME g.do = "push" PROVE Visits(g, d2, b2, ms2)
  <2> DEFINE n == g.at  m == g.from
  <2>1. f.do = "push" /\ n < f.at /\ Visits(g, data, blocks, maps)
    BY <1>1, <1>2, <1>4 DEF Placed, FrameOK
  <2>2. m < n
    BY <2>1 DEF Visits
  <2>3. m < f.at
    <3>1. m \in Nat /\ n \in Nat /\ f.at \in Nat
      BY <1>1
    <3> QED BY <2>1, <2>2, <3>1
  <2>4. /\ d2[n] = data[n] /\ ms2[n] = maps[n] /\ b2[n].row = blocks[n].row
        /\ Is(n, "join") => b2[n].mask = blocks[n].mask
    BY <1>1, <2>1 DEF Spares
  <2>5. b2[m].row = blocks[m].row /\ b2[m].mask \subseteq blocks[m].mask
    BY <1>1, <2>3 DEF Spares
  <2>6. Is(n, "join") => Probes(g, b2, ms2)
    BY <2>1, <2>4, <2>5 DEF Visits, Probes
  <2>7. Feeder(n, d2) = Feeder(n, data)
    BY <2>4 DEF Feeder
  <2> HIDE DEF n, m
  <2>8. \A s \in g.todo \cup b2[m].mask : b2[m].row[s] \in TuplesOf(m)
    BY <2>1, <2>5 DEF Visits, m
  <2> QED BY <2>1, <2>4, <2>6, <2>7, <2>8 DEF Visits, n, m
<1> QED BY <1>3, <1>4 DEF FrameOK

(* What a step may leave on the stack.                                     *)
LEMMA Steps ==
  ASSUME PlanOK, StackOK(stack, data, blocks, maps), stack # << >>
  PROVE  /\ top \in Frame /\ FrameOK(top, data, blocks, maps)
         /\ Frames(Below) \in SUBSET Frame /\ Placed(top, Frames(Below))
         /\ \A d2, b2, ms2 : Spares(top, d2, b2, ms2) =>
              /\ StackOK(Below, d2, b2, ms2)
              /\ \A g \in Frame : Placed(g, Frames(Below)) /\ FrameOK(g, d2, b2, ms2) =>
                   StackOK(<<g>> \o Below, d2, b2, ms2)
              /\ \A f, g \in Frame :
                   /\ Placed(f, Frames(Below)) /\ FrameOK(f, d2, b2, ms2)
                   /\ Placed(g, {f} \cup Frames(Below)) /\ FrameOK(g, d2, b2, ms2)
                   => StackOK(<<g, f>> \o Below, d2, b2, ms2)
<1>1. stack \in Seq(Frame) /\ Stacked(stack)
  BY DEF StackOK
<1>2. /\ top \in Frame /\ top \in Frames(stack) /\ Below \in Seq(Frame) /\ Stacked(Below)
      /\ Frames(Below) \subseteq Frames(stack) /\ Placed(top, Frames(Below))
  BY <1>1, Popped DEF top, Below
<1>3. Frames(Below) \in SUBSET Frame
  <2>1. \A k \in 1..Len(Below) : Below[k] \in Frame
    BY <1>2, ElementOfSeq
  <2> QED BY <2>1 DEF Frames
<1>4. \A g \in Frames(stack) : FrameOK(g, data, blocks, maps)
  BY DEF StackOK
<1>5. ASSUME NEW d2, NEW b2, NEW ms2, Spares(top, d2, b2, ms2)
      PROVE  \A g \in Frames(Below) : FrameOK(g, d2, b2, ms2)
  BY <1>2, <1>3, <1>4, <1>5, Pending
<1>6. ASSUME NEW d2, NEW b2, NEW ms2, Spares(top, d2, b2, ms2)
      PROVE  StackOK(Below, d2, b2, ms2)
  BY <1>2, <1>5, <1>6 DEF StackOK
<1>7. ASSUME NEW d2, NEW b2, NEW ms2, Spares(top, d2, b2, ms2), NEW g \in Frame,
             Placed(g, Frames(Below)), FrameOK(g, d2, b2, ms2)
      PROVE  StackOK(<<g>> \o Below, d2, b2, ms2)
  <2>1. <<g>> \o Below \in Seq(Frame) /\ Frames(<<g>> \o Below) = {g} \cup Frames(Below)
    BY <1>2, OneMore
  <2>2. Stacked(<<g>> \o Below)
    BY <1>2, <1>7, Pushed
  <2> QED BY <1>5, <1>7, <2>1, <2>2 DEF StackOK
<1>8. ASSUME NEW d2, NEW b2, NEW ms2, Spares(top, d2, b2, ms2), NEW f \in Frame, NEW g \in Frame,
             Placed(f, Frames(Below)), FrameOK(f, d2, b2, ms2),
             Placed(g, {f} \cup Frames(Below)), FrameOK(g, d2, b2, ms2)
      PROVE  StackOK(<<g, f>> \o Below, d2, b2, ms2)
  <2>1. /\ <<g, f>> \o Below \in Seq(Frame) /\ Stacked(<<g, f>> \o Below)
        /\ Frames(<<g, f>> \o Below) = {f, g} \cup Frames(Below)
    BY <1>2, <1>8, TwoMore
  <2> QED BY <1>5, <1>8, <2>1 DEF StackOK
<1> QED BY <1>2, <1>3, <1>4, <1>6, <1>7, <1>8

LEMMA IsFrame ==
  ASSUME NEW do \in {"run", "push"}, NEW at \in Ops, NEW from \in Ops, NEW todo \in SUBSET BlockSlots,
         NEW hits \in SUBSET Nat, NEW left \in Seq(AnyTuple), NEW cur \in BlockSlots, NEW i \in Nat
  PROVE  [do |-> do, at |-> at, from |-> from, todo |-> todo, hits |-> hits, left |-> left,
          cur |-> cur, i |-> i] \in Frame
BY DEF Frame

LEMMA RunningOK ==
  ASSUME PlanOK, NEW n \in Ops, NEW d, NEW b, NEW ms, Steered(Running(n), d)
  PROVE  Running(n) \in Frame /\ FrameOK(Running(n), d, b, ms)
<1>1. 0 \in BlockSlots
  BY FirstSlotsInBlock, CapacityAssumption
<1>2. Running(n) \in Frame
  BY <1>1 DEF Running, Frame
<1> QED BY <1>2 DEF FrameOK, Running

(* Calling the run of a child. *)
LEMMA CallKid ==
  ASSUME PlanOK, StackOK(stack, data, blocks, maps), stack # << >>, top.do = "run",
         NEW i \in 1..Len(plan[top.at].kids), NEW d2, Spares(top, d2, blocks, maps),
         top.at \in Joins => d2[top.at].active = i,
         NEW g, g = Running(Kid(top.at, i))
  PROVE  /\ ~Is(top.at, "limit") => StackOK(<<g>> \o Below, d2, blocks, maps)
         /\ \A f \in Frame :
              /\ f.do = "run" /\ f.at = top.at /\ f.left = top.left
              /\ f.at \in Joins => f.i <= 2
              => StackOK(<<g, f>> \o Below, d2, blocks, maps)
<1>1. /\ top \in Frame /\ FrameOK(top, data, blocks, maps)
      /\ Frames(Below) \in SUBSET Frame /\ Placed(top, Frames(Below))
  BY Steps
<1>2. top.at \in Ops /\ Kid(top.at, i) \in Ops
  BY <1>1, Kids DEF Frame
<1>3. ASSUME NEW f, f.at = top.at PROVE Steered(f, d2)
  <2>1. \A p \in UpFrom(f.at) : p \in Joins /\ p # f.at => d2[p].active = data[p].active
    BY <1>2, <1>3, Upward DEF Spares
  <2> QED BY <1>1, <1>3, <2>1 DEF Steered, FrameOK
<1>4. Steered(top, d2)
  BY <1>3
<1>5. g.do = "run" /\ g.at = Kid(top.at, i)
  BY DEF Running
<1>6. g \in Frame /\ FrameOK(g, d2, blocks, maps)
  <2>1. Steered(g, d2)
    BY <1>1, <1>4, <1>5, DescendSteered
  <2> QED BY <1>2, <2>1, RunningOK
<1>7. /\ ~Is(top.at, "limit") => Placed(g, Frames(Below))
      /\ \A h \in Frame : h.do = "run" /\ h.at = top.at => Placed(g, {h} \cup Frames(Below))
  BY <1>1, <1>5, DescendPlaced
<1>8. ASSUME ~Is(top.at, "limit") PROVE StackOK(<<g>> \o Below, d2, blocks, maps)
  BY <1>6, <1>7, <1>8, Steps
<1>9. ASSUME NEW f \in Frame, f.do = "run", f.at = top.at, f.left = top.left, f.at \in Joins => f.i <= 2
      PROVE  StackOK(<<g, f>> \o Below, d2, blocks, maps)
  <2>1. Placed(f, Frames(Below))
    BY <1>1, <1>9, SamePlace
  <2>2. FrameOK(f, d2, blocks, maps)
    BY <1>1, <1>3, <1>9 DEF FrameOK
  <2> QED BY <1>6, <1>7, <1>9, <2>1, <2>2, Steps
<1> QED BY <1>8, <1>9

(* Going on with the same visitor. *)
LEMMA GoOn ==
  ASSUME PlanOK, StackOK(stack, data, blocks, maps), stack # << >>,
         NEW d2, NEW b2, NEW ms2, Spares(top, d2, b2, ms2),
         NEW f \in Frame, f.do = top.do, f.at = top.at, FrameOK(f, d2, b2, ms2)
  PROVE  StackOK(<<f>> \o Below, d2, b2, ms2)
<1>1. Placed(f, Frames(Below))
  BY Steps, SamePlace
<1> QED BY <1>1, Steps

(* Filling a block and pushing it to the parent. *)
Refilled(b2, n, row, mask) == b2 = [blocks EXCEPT ![n] = [row |-> row, mask |-> mask]]
Given(n, mask) == [Running(Parent(n)) EXCEPT !.do = "push", !.from = n, !.todo = mask]

LEMMA Emit ==
  ASSUME PlanOK, StackOK(stack, data, blocks, maps), stack # << >>, BlocksOK(blocks), DataOK(data),
         NEW n, n = top.at, n # Root, NEW row \in [BlockSlots -> AnyTuple \cup {NoRow}],
         NEW mask \in SUBSET BlockSlots, \A s \in mask : row[s] \in TuplesOf(n),
         NEW b2, Refilled(b2, n, row, mask), NEW g, g = Given(n, mask)
  PROVE  /\ BlocksOK(b2) /\ b2[n].mask = mask /\ b2[n].row = row
         /\ StackOK(<<g>> \o Below, data, b2, maps)
         /\ \A f \in Frame :
              f.do = top.do /\ f.at = top.at /\ FrameOK(f, data, b2, maps) =>
                StackOK(<<g, f>> \o Below, data, b2, maps)
<1>1. /\ top \in Frame /\ FrameOK(top, data, blocks, maps)
      /\ Frames(Below) \in SUBSET Frame /\ Placed(top, Frames(Below))
  BY Steps
<1>2. /\ n \in Ops /\ Parent(n) \in Ops /\ n < Parent(n) /\ Ops \subseteq Nat
  BY <1>1, PlanFacts, Parents DEF Frame
<1>3. BlocksOK(b2) /\ b2[n] = [row |-> row, mask |-> mask] /\ \A m \in Ops : m # n => b2[m] = blocks[m]
  BY <1>2 DEF BlocksOK, Refilled
<1>4. b2[n].row = row /\ b2[n].mask = mask
  BY <1>3
<1>5. Spares(top, data, b2, maps)
  <2>1. \A m \in Ops : m < n => m # n
    BY <1>2
  <2> QED BY <1>3, <2>1 DEF Spares
<1>6. /\ g.do = "push" /\ g.at = Parent(n) /\ g.from = n /\ g.todo = mask /\ g.hits = {}
      /\ g.left = << >> /\ g.i = 0
  BY DEF Running, Given
<1>7. g \in Frame
  <2>1. 0 \in BlockSlots
    BY FirstSlotsInBlock, CapacityAssumption
  <2>2. g = [do |-> "push", at |-> Parent(n), from |-> n, todo |-> mask, hits |-> {},
             left |-> << >>, cur |-> 0, i |-> 0]
    BY DEF Running, Given
  <2>3. << >> \in Seq(AnyTuple) /\ {} \in SUBSET Nat /\ 0 \in Nat /\ "push" \in {"run", "push"}
    OBVIOUS
  <2>4. [do |-> "push", at |-> Parent(n), from |-> n, todo |-> mask, hits |-> {},
         left |-> << >>, cur |-> 0, i |-> 0] \in Frame
    BY <1>2, <2>1, <2>3, IsFrame
  <2> QED BY <2>2, <2>4
<1>8. /\ Steered(g, data) /\ Feeder(g.at, data) = n /\ Len(plan[g.at].kids) # 0
      /\ g.at \in Joins => data[g.at].active \in 1..2
  BY <1>1, <1>6, ClimbSteered DEF FrameOK
<1>9. FrameOK(g, data, b2, maps)
  <2>1. Is(g.at, "join") => Probes(g, b2, maps)
    BY <1>6, CapacityAssumption DEF Probes
  <2>2. g.i <= Len(data[g.at].rows)
    <3>1. data[g.at].rows \in Seq(KeptBy(g.at))
      BY <1>2, <1>6 DEF DataOK
    <3>2. Len(data[g.at].rows) \in Nat
      BY <3>1
    <3> QED BY <1>6, <3>2
  <2>3. Is(g.from, "join") => g.at = Parent(g.from)
    BY <1>6
  <2>4. plan[g.from].schema = plan[Feeder(g.at, data)].schema
    BY <1>6, <1>8
  <2>5. \A s \in g.todo \cup b2[g.from].mask : b2[g.from].row[s] \in TuplesOf(g.from)
    BY <1>4, <1>6
  <2>6. g.from < g.at
    BY <1>2, <1>6
  <2>7. Visits(g, data, b2, maps)
    BY <1>6, <1>8, <2>1, <2>2, <2>3, <2>4, <2>5, <2>6 DEF Visits
  <2>8. g.left \in Seq(TuplesOf(g.at)) /\ g.do # "run"
    BY <1>6, EmptySeq
  <2> QED BY <1>8, <2>7, <2>8 DEF FrameOK
<1>10. Placed(g, Frames(Below)) /\ \A h \in Frame : h.at = top.at => Placed(g, {h} \cup Frames(Below))
  BY <1>1, <1>6, ClimbPlaced
<1>11. StackOK(<<g>> \o Below, data, b2, maps)
  BY <1>5, <1>7, <1>9, <1>10, Steps
<1>12. ASSUME NEW f \in Frame, f.do = top.do, f.at = top.at, FrameOK(f, data, b2, maps)
       PROVE  StackOK(<<g, f>> \o Below, data, b2, maps)
  <2>1. Placed(f, Frames(Below))
    BY <1>1, <1>12, SamePlace
  <2> QED BY <1>5, <1>7, <1>9, <1>10, <1>12, <2>1, Steps
<1> QED BY <1>3, <1>4, <1>11, <1>12
-----------------------------------------------------------------------------
(* Running operators.  A step leaves blocks, data and a stack as the       *)
(* invariant describes them.                                               *)
StepOK == BlocksOK(blocks') /\ DataOK(data') /\ StackOK(stack', data', blocks', maps')

LEMMA SparesAll == Spares(top, data, blocks, maps)
BY DEF Spares

LEMMA TopFacts ==
  ASSUME InterpreterInv, stack # << >>
  PROVE  /\ PlanOK /\ StackOK(stack, data, blocks, maps) /\ BlocksOK(blocks) /\ DataOK(data)
         /\ top \in Frame /\ FrameOK(top, data, blocks, maps)
         /\ top.at \in Ops /\ top.from \in Ops /\ top.i \in Nat /\ Root \in Nat /\ Ops = 1..Root
         /\ HasArity(plan[top.at]) /\ IsTyped(plan, top.at) /\ (Is(top.at, "print") <=> top.at = Root)
<1>1. PlanOK /\ StackOK(stack, data, blocks, maps) /\ BlocksOK(blocks) /\ DataOK(data)
  BY DEF InterpreterInv
<1>2. top \in Frame /\ FrameOK(top, data, blocks, maps)
  BY <1>1, Steps
<1>3. top.at \in Ops /\ top.from \in Ops /\ top.i \in Nat
  BY <1>2 DEF Frame
<1> QED BY <1>1, <1>2, <1>3, PlanFacts, Kids

LEMMA RunChildStep == ASSUME InterpreterInv, RunChild PROVE StepOK
<1> DEFINE n == top.at  g == Running(Kid(n, 1))
<1>1. /\ stack # << >> /\ top.do = "run" /\ plan[n].op \in {"print", "filter", "project"}
      /\ plan[n].kids # << >> /\ stack' = <<g>> \o Below
      /\ data' = data /\ blocks' = blocks /\ maps' = maps
  BY DEF RunChild, TailCall, Kid
<1>2. /\ PlanOK /\ StackOK(stack, data, blocks, maps) /\ n \in Ops /\ plan[n].kids \in Seq(1..(n - 1))
      /\ BlocksOK(blocks) /\ DataOK(data)
  BY <1>1, TopFacts, Kids
<1>3. 1 \in 1..Len(plan[n].kids)
  BY <1>1, <1>2, EmptySeq
<1>4. n \notin Joins /\ ~Is(n, "limit")
  BY <1>1 DEF Joins, Is
<1>5. StackOK(<<g>> \o Below, data, blocks, maps)
  <2> HIDE DEF n, g
  <2>1. n = top.at /\ g = Running(Kid(top.at, 1))
    BY DEF n, g
  <2> QED BY <1>1, <1>2, <1>3, <1>4, <2>1, CallKid, SparesAll
<1> QED BY <1>1, <1>2, <1>5 DEF StepOK

(* The data of one operator is replaced. *)
Updated(d2, n, e) == d2 = [data EXCEPT ![n] = e]

LEMMA UpdatedData ==
  ASSUME DataOK(data), NEW n \in Ops, NEW e, e \in Datum, e.rows \in Seq(KeptBy(n)),
         NEW d2, Updated(d2, n, e)
  PROVE  DataOK(d2) /\ d2[n] = e /\ \A m \in Ops : m # n => d2[m] = data[m]
<1>1. d2 = [data EXCEPT ![n] = e] /\ data \in [Ops -> Datum]
  BY DEF Updated, DataOK
<1>2. d2 \in [Ops -> Datum] /\ d2[n] = e /\ \A m \in Ops : m # n => d2[m] = data[m]
  BY <1>1
<1> QED BY <1>2 DEF DataOK

LEMMA RunJoinStep == ASSUME InterpreterInv, RunJoin PROVE StepOK
<1> DEFINE n == top.at
<1>1. /\ stack # << >> /\ top.do = "run" /\ n \in Ops /\ n \in Joins /\ PlanOK
      /\ StackOK(stack, data, blocks, maps) /\ BlocksOK(blocks) /\ DataOK(data) /\ top \in Frame
      /\ top.i \in 0..2 /\ Len(plan[n].kids) = 2
      /\ blocks' = blocks /\ maps' = maps
  <2>1. stack # << >> /\ top.do = "run" /\ (Is(n, "join") \/ Is(n, "loops")) /\ blocks' = blocks /\ maps' = maps
    BY DEF RunJoin, At
  <2>2. /\ n \in Ops /\ PlanOK /\ StackOK(stack, data, blocks, maps) /\ BlocksOK(blocks) /\ DataOK(data)
        /\ top \in Frame /\ FrameOK(top, data, blocks, maps) /\ top.i \in Nat /\ HasArity(plan[n])
    BY <2>1, TopFacts
  <2>3. n \in Joins
    BY <2>1, <2>2 DEF Joins
  <2>4. top.i <= 2
    BY <2>1, <2>2, <2>3 DEF FrameOK
  <2>5. Len(plan[n].kids) = 2
    BY <2>1, <2>2 DEF HasArity, Is
  <2> QED BY <2>1, <2>2, <2>3, <2>4, <2>5
<1>2. CASE top.i = 2 \/ (top.i = 1 /\ CollectedNone(n))
  <2>1. stack' = Below /\ data' = data
    BY <1>2 DEF RunJoin, Return
  <2> QED BY <1>1, <2>1, Steps, SparesAll DEF StepOK
<1>3. CASE ~(top.i = 2 \/ (top.i = 1 /\ CollectedNone(n)))
  <2> DEFINE k == top.i + 1  f == [top EXCEPT !.i = @ + 1]  g == Running(Kid(n, k))
  <2>1. data' = [data EXCEPT ![n].active = k] /\ stack' = <<g, f>> \o Below
    BY <1>3 DEF RunJoin, CallFrom, Kid
  <2>2. k \in 1..2
    BY <1>1, <1>3
  <2>3. /\ DataOK(data') /\ data'[n].active = k
        /\ \A m \in Ops : m # n => data'[m] = data[m]
    <3> DEFINE e == [data[n] EXCEPT !.active = k]
    <3>1. data' = [data EXCEPT ![n] = e]
      BY <2>1
    <3>2. data[n] \in Datum
      BY <1>1 DEF DataOK
    <3>3. k \in 0..2
      BY <2>2
    <3> HIDE DEF k
    <3>4. e \in Datum /\ e.rows = data[n].rows /\ e.active = k
      BY <3>2, <3>3 DEF Datum
    <3>5. e.rows \in Seq(KeptBy(n))
      BY <1>1, <3>4 DEF DataOK
    <3>6. DataOK(data) /\ n \in Ops
      BY <1>1
    <3> HIDE DEF e, n
    <3>a. Updated(data', n, e)
      BY <3>1 DEF Updated
    <3>7. DataOK(data') /\ data'[n] = e /\ \A m \in Ops : m # n => data'[m] = data[m]
      BY <3>4, <3>5, <3>6, <3>a, UpdatedData
    <3> QED BY <3>4, <3>7
  <2>4. Spares(top, data', blocks, maps)
    <3>1. \A m \in Ops : m < top.at => m # n
      BY <1>1, PlanFacts
    <3> QED BY <1>1, <2>3, <3>1 DEF Spares
  <2>5. f \in Frame /\ f.do = "run" /\ f.at = top.at /\ f.left = top.left /\ f.i = k
    BY <1>1, <2>2 DEF Frame
  <2> HIDE DEF f, g
  <2>6. StackOK(<<g, f>> \o Below, data', blocks, maps)
    <3>1. g = Running(Kid(top.at, k)) /\ k \in 1..Len(plan[top.at].kids)
      BY <1>1, <2>2 DEF g
    <3> HIDE DEF k, n
    <3>2. top.at \in Joins => data'[top.at].active = k
      BY <2>3 DEF n
    <3>3. f.i <= 2
      BY <2>2, <2>5
    <3> QED BY <1>1, <2>4, <2>5, <3>1, <3>2, <3>3, CallKid
  <2> QED BY <1>1, <2>1, <2>3, <2>6 DEF StepOK
<1> QED BY <1>2, <1>3

(* A limit, or a breaker before its child has run. *)
LEMMA CallFirstStep ==
  ASSUME InterpreterInv, stack # << >>, top.do = "run",
         plan[top.at].op \in {"limit", "group", "sort", "aggregate"}
  PROVE  StackOK(<<Running(plan[top.at].kids[1]), [top EXCEPT !.i = 1]>> \o Below, data, blocks, maps)
<1> DEFINE n == top.at  f == [top EXCEPT !.i = 1]  g == Running(Kid(n, 1))
<1>1. /\ PlanOK /\ StackOK(stack, data, blocks, maps) /\ top \in Frame /\ HasArity(plan[n])
  BY TopFacts
<1>2. 1 \in 1..Len(plan[n].kids) /\ n \notin Joins
  <2>1. Len(plan[n].kids) = 1
    BY <1>1 DEF HasArity
  <2>2. n \notin Joins
    BY DEF Joins, Is
  <2> QED BY <2>1, <2>2
<1>3. f \in Frame /\ f.do = "run" /\ f.at = top.at /\ f.left = top.left
  BY <1>1 DEF Frame
<1>4. g = Running(Kid(top.at, 1)) /\ plan[top.at].kids[1] = Kid(n, 1)
  BY DEF Kid
<1> HIDE DEF f, g
<1>5. StackOK(<<g, f>> \o Below, data, blocks, maps)
  BY <1>1, <1>2, <1>3, <1>4, CallKid, SparesAll
<1> QED BY <1>4, <1>5 DEF f, g

LEMMA RunLimitStep == ASSUME InterpreterInv, RunLimit PROVE StepOK
<1>1. /\ stack # << >> /\ top.do = "run" /\ plan[top.at].op = "limit"
      /\ blocks' = blocks /\ data' = data /\ maps' = maps
      /\ IF top.i = 0 THEN stack' = <<Running(plan[top.at].kids[1]), [top EXCEPT !.i = 1]>> \o Below
         ELSE stack' = Below
  BY DEF RunLimit, At, Is, CallFrom, Return
<1>2. PlanOK /\ StackOK(stack, data, blocks, maps) /\ BlocksOK(blocks) /\ DataOK(data)
  BY <1>1, TopFacts
<1>3. StackOK(<<Running(plan[top.at].kids[1]), [top EXCEPT !.i = 1]>> \o Below, data, blocks, maps)
  BY <1>1, CallFirstStep
<1>4. StackOK(Below, data, blocks, maps)
  BY <1>1, <1>2, Steps, SparesAll
<1> QED BY <1>1, <1>2, <1>3, <1>4 DEF StepOK

LEMMA RunBreakerStep == ASSUME InterpreterInv, RunBreaker PROVE StepOK
<1>1. /\ stack # << >> /\ top.do = "run" /\ plan[top.at].op \in {"group", "sort", "aggregate"}
      /\ blocks' = blocks /\ data' = data /\ maps' = maps
      /\ stack' = <<Running(plan[top.at].kids[1]), [top EXCEPT !.i = 1]>> \o Below
  BY DEF RunBreaker, CallFrom
<1>2. PlanOK /\ BlocksOK(blocks) /\ DataOK(data)
  BY <1>1, TopFacts
<1>3. StackOK(<<Running(plan[top.at].kids[1]), [top EXCEPT !.i = 1]>> \o Below, data, blocks, maps)
  BY <1>1, CallFirstStep
<1> QED BY <1>1, <1>2, <1>3 DEF StepOK

LEMMA OrderResultStep == ASSUME InterpreterInv, OrderResult PROVE StepOK
<1> DEFINE n == top.at
<1>1. /\ stack # << >> /\ top.do = "run" /\ plan[n].op \in {"group", "sort", "aggregate"}
      /\ blocks' = blocks /\ data' = data /\ maps' = maps
      /\ \E o \in Orders(n) : stack' = <<[top EXCEPT !.i = 2, !.left = o]>> \o Below
  BY DEF OrderResult, Continue
<1>2. /\ PlanOK /\ StackOK(stack, data, blocks, maps) /\ BlocksOK(blocks) /\ DataOK(data)
      /\ top \in Frame /\ FrameOK(top, data, blocks, maps) /\ n \in Ops
  BY <1>1, TopFacts
<1>3. ASSUME NEW o \in Orders(n)
      PROVE  StackOK(<<[top EXCEPT !.i = 2, !.left = o]>> \o Below, data, blocks, maps)
  <2> DEFINE f == [top EXCEPT !.i = 2, !.left = o]
  <2>1. o \in Seq(TuplesOf(n))
    <3>1. data[n].rows \in Seq(TuplesOf(n))
      BY <1>1, <1>2 DEF DataOK, KeptBy, Is
    <3> QED BY <3>1, OrdersTyped
  <2>2. o \in Seq(AnyTuple)
    BY <1>2, <2>1, SeqMonotonic DEF AnyTuple
  <2>3. f \in Frame /\ f.do = top.do /\ f.at = top.at /\ f.left = o
    BY <1>2, <2>2 DEF Frame
  <2>4. n \notin Joins
    BY <1>1 DEF Joins, Is
  <2> HIDE DEF f
  <2>5. FrameOK(f, data, blocks, maps)
    BY <1>1, <1>2, <2>1, <2>3, <2>4 DEF FrameOK, Steered
  <2>6. StackOK(<<f>> \o Below, data, blocks, maps)
    BY <1>1, <1>2, <2>3, <2>5, GoOn, SparesAll
  <2> QED BY <2>6 DEF f
<1> QED BY <1>1, <1>2, <1>3 DEF StepOK

LEMMA EmitStep ==
  ASSUME InterpreterInv, stack # << >>, NEW n, n = top.at, n # Root,
         NEW row \in [BlockSlots -> AnyTuple \cup {NoRow}], NEW mask \in SUBSET BlockSlots,
         \A s \in mask : row[s] \in TuplesOf(n), Filled(n, row, mask), data' = data, maps' = maps
  PROVE  /\ BlocksOK(blocks') /\ DataOK(data') /\ blocks'[n].row = row /\ blocks'[n].mask = mask
         /\ Push(n) => StepOK
         /\ \A f \in Frame :
              /\ f.do = top.do /\ f.at = top.at /\ FrameOK(f, data, blocks', maps)
              /\ PushThen(n, f)
              => StepOK
<1>1. PlanOK /\ StackOK(stack, data, blocks, maps) /\ BlocksOK(blocks) /\ DataOK(data)
  BY TopFacts
<1>2. Refilled(blocks', n, row, mask)
  BY DEF Filled, Refilled
<1> DEFINE g == Given(n, mask)
<1>3. g = Given(n, mask)
  OBVIOUS
<1> HIDE DEF g
<1>4. /\ BlocksOK(blocks') /\ blocks'[n].mask = mask /\ blocks'[n].row = row
      /\ StackOK(<<g>> \o Below, data, blocks', maps)
      /\ \A f \in Frame :
           f.do = top.do /\ f.at = top.at /\ FrameOK(f, data, blocks', maps) =>
             StackOK(<<g, f>> \o Below, data, blocks', maps)
  BY <1>1, <1>2, <1>3, Emit
<1>5. PushedTo(n) = g
  BY <1>3, <1>4 DEF PushedTo, Given
<1>6. Push(n) => stack' = <<g>> \o Below
  BY <1>5 DEF Push, TailCall
<1>7. \A f : PushThen(n, f) => stack' = <<g, f>> \o Below
  BY <1>5 DEF PushThen, CallFrom
<1> QED BY <1>1, <1>4, <1>6, <1>7 DEF StepOK

(* A run whose frame stays while what it filled its block with is pushed.  *)
LEMMA RunOn ==
  ASSUME InterpreterInv, stack # << >>, top.do = "run", top.at \notin Joins,
         NEW f, f \in Frame, f.do = "run", f.at = top.at, f.left \in Seq(TuplesOf(f.at)), NEW b2
  PROVE  FrameOK(f, data, b2, maps)
<1>1. Steered(top, data)
  BY TopFacts DEF FrameOK
<1> QED BY <1>1 DEF FrameOK, Steered

LEMMA RunScanStep == ASSUME InterpreterInv, RunScan PROVE StepOK
<1> DEFINE n == top.at  rs == NextRows(tables[n], top.i)  f == [top EXCEPT !.i = @ + Len(rs)]
<1>1. /\ stack # << >> /\ top.do = "run" /\ Is(n, "scan") /\ data' = data /\ maps' = maps
      /\ IF rs = << >> THEN stack' = Below /\ blocks' = blocks
         ELSE Filled(n, FilledWith(n, rs), FirstSlots(Len(rs))) /\ PushThen(n, f)
  BY DEF RunScan, At, Return
<1>2. /\ PlanOK /\ StackOK(stack, data, blocks, maps) /\ BlocksOK(blocks) /\ DataOK(data)
      /\ top \in Frame /\ FrameOK(top, data, blocks, maps) /\ n \in Ops /\ top.i \in Nat
      /\ (Is(n, "print") <=> n = Root)
  BY <1>1, TopFacts
<1>3. CASE rs = << >>
  BY <1>1, <1>2, <1>3, Steps, SparesAll DEF StepOK
<1>4. CASE rs # << >>
  <2>1. tables[n] \in Seq(TuplesOf(n))
    BY <1>1, <1>2 DEF InterpreterInv, TablesOK, Scans
  <2>2. rs \in Seq(TuplesOf(n)) /\ Len(rs) \in Nat /\ Len(rs) <= C
    BY <1>2, <2>1, NextRowsTyped
  <2>3. n # Root /\ n \notin Joins
    BY <1>1, <1>2 DEF Joins, Is
  <2> HIDE DEF rs
  <2>4. /\ FilledWith(n, rs) \in [BlockSlots -> AnyTuple \cup {NoRow}]
        /\ \A s \in FirstSlots(Len(rs)) : FilledWith(n, rs)[s] \in TuplesOf(n)
        /\ FirstSlots(Len(rs)) \in SUBSET BlockSlots
    BY <1>2, <2>2, FilledTyped, FirstSlotsInBlock
  <2>5. f \in Frame /\ f.do = top.do /\ f.at = top.at /\ f.left = top.left
    BY <1>2, <2>2 DEF Frame
  <2>6. Filled(n, FilledWith(n, rs), FirstSlots(Len(rs))) /\ PushThen(n, f)
    BY <1>1, <1>4
  <2> HIDE DEF f
  <2>7. FrameOK(f, data, blocks', maps)
    <3>1. f.left \in Seq(TuplesOf(f.at))
      BY <1>2, <2>5 DEF FrameOK
    <3> QED BY <1>1, <2>3, <2>5, <3>1, RunOn
  <2>8. n = top.at
    OBVIOUS
  <2> HIDE DEF n
  <2> QED BY <1>1, <2>3, <2>4, <2>5, <2>6, <2>7, <2>8, EmitStep
<1> QED BY <1>3, <1>4

LEMMA RunConstantsStep == ASSUME InterpreterInv, RunConstants PROVE StepOK
<1> DEFINE n == top.at  rs == << Single(n, 1, 0) >>
<1>1. /\ stack # << >> /\ top.do = "run" /\ Is(n, "project") /\ plan[n].kids = << >>
      /\ data' = data /\ maps' = maps /\ Filled(n, FilledWith(n, rs), {0}) /\ Push(n)
  BY DEF RunConstants, At
<1>2. /\ PlanOK /\ BlocksOK(blocks) /\ n \in Ops /\ IsTyped(plan, n) /\ (Is(n, "print") <=> n = Root)
  BY <1>1, TopFacts
<1>3. plan[n].schema = {n}
  BY <1>1, <1>2 DEF IsTyped
<1>4. Single(n, 1, 0) \in TuplesOf(n)
  <2>1. 0 \in Domain /\ 1 \in Nat
    BY DomainAssumption DEF DomainAssumption
  <2> QED BY <1>3, <2>1, SingleTyped DEF TuplesOf
<1>5. rs \in Seq(TuplesOf(n)) /\ Len(rs) = 1 /\ 1 <= C
  BY <1>4, CapacityAssumption
<1>6. FirstSlots(1) = {0}
  BY DEF FirstSlots
<1>7. n # Root
  BY <1>1, <1>2 DEF Is
<1> HIDE DEF rs
<1>8. /\ FilledWith(n, rs) \in [BlockSlots -> AnyTuple \cup {NoRow}]
      /\ \A s \in {0} : FilledWith(n, rs)[s] \in TuplesOf(n)
      /\ {0} \in SUBSET BlockSlots
  BY <1>2, <1>5, <1>6, FilledTyped, FirstSlotsInBlock
<1>9. n = top.at
  OBVIOUS
<1> HIDE DEF n
<1> QED BY <1>1, <1>7, <1>8, <1>9, EmitStep

LEMMA EmitResultStep == ASSUME InterpreterInv, EmitResult PROVE StepOK
<1> DEFINE n == top.at  rs == NextRows(top.left, 0)
           f == [top EXCEPT !.left = SubSeq(@, C + 1, Len(@))]
<1>1. /\ stack # << >> /\ top.do = "run" /\ plan[n].op \in {"group", "sort", "aggregate"}
      /\ data' = data /\ maps' = maps /\ Filled(n, FilledWith(n, rs), FirstSlots(Len(rs)))
      /\ Push(n) \/ PushThen(n, f)
  BY DEF EmitResult
<1>2. /\ PlanOK /\ BlocksOK(blocks) /\ top \in Frame /\ FrameOK(top, data, blocks, maps) /\ n \in Ops
      /\ (Is(n, "print") <=> n = Root)
  BY <1>1, TopFacts
<1>3. top.left \in Seq(TuplesOf(n)) /\ 0 \in Nat
  BY <1>2 DEF FrameOK
<1>4. rs \in Seq(TuplesOf(n)) /\ Len(rs) \in Nat /\ Len(rs) <= C
  BY <1>3, NextRowsTyped
<1>5. n # Root /\ n \notin Joins
  BY <1>1, <1>2 DEF Joins, Is
<1> HIDE DEF rs
<1>6. /\ FilledWith(n, rs) \in [BlockSlots -> AnyTuple \cup {NoRow}]
      /\ \A s \in FirstSlots(Len(rs)) : FilledWith(n, rs)[s] \in TuplesOf(n)
      /\ FirstSlots(Len(rs)) \in SUBSET BlockSlots
  BY <1>2, <1>4, FilledTyped, FirstSlotsInBlock
<1>7. SubSeq(top.left, C + 1, Len(top.left)) \in Seq(TuplesOf(n))
  <2>1. C \in Nat /\ Len(top.left) \in Nat
    BY <1>3, CapacityAssumption
  <2>2. \A k \in (C + 1)..Len(top.left) : top.left[k] \in TuplesOf(n)
    BY <1>3, <2>1, ElementOfSeq
  <2> QED BY <1>3, <2>1, <2>2
<1>8. f \in Frame /\ f.do = top.do /\ f.at = top.at /\ f.left \in Seq(TuplesOf(f.at))
  <2>1. SubSeq(top.left, C + 1, Len(top.left)) \in Seq(AnyTuple)
    BY <1>2, <1>7, SeqMonotonic DEF AnyTuple
  <2> QED BY <1>2, <1>7, <2>1 DEF Frame
<1>9. n = top.at
  OBVIOUS
<1> HIDE DEF f
<1>10. FrameOK(f, data, blocks', maps)
  BY <1>1, <1>5, <1>8, RunOn
<1> HIDE DEF n
<1> QED BY <1>1, <1>5, <1>6, <1>8, <1>9, <1>10, EmitStep
-----------------------------------------------------------------------------
(* Visiting blocks. *)

LEMMA TopVisits ==
  ASSUME InterpreterInv, stack # << >>, top.do = "push"
  PROVE  /\ Visits(top, data, blocks, maps) /\ Steered(top, data)
         /\ top.from < top.at /\ top.from # top.at /\ top.todo \in SUBSET BlockSlots
         /\ \A s \in top.todo \cup Input.mask : Input.row[s] \in TuplesOf(top.from)
         /\ Input.mask \in SUBSET BlockSlots
         /\ plan[top.from].schema = plan[Feeder(top.at, data)].schema
         /\ Len(plan[top.at].kids) # 0
<1>1. /\ FrameOK(top, data, blocks, maps) /\ BlocksOK(blocks) /\ top \in Frame
      /\ top.from \in Ops /\ top.at \in Ops /\ Root \in Nat /\ Ops = 1..Root
  BY TopFacts
<1>2. Visits(top, data, blocks, maps) /\ Steered(top, data)
  BY <1>1 DEF FrameOK
<1>3. Input = blocks[top.from] /\ Input.mask \in SUBSET BlockSlots
  BY <1>1 DEF Input, BlocksOK
<1>4. top.from < top.at
  BY <1>2 DEF Visits
<1>5. top.todo \in SUBSET BlockSlots
  BY <1>1 DEF Frame
<1>6. top.from # top.at
  BY <1>1, <1>4
<1> QED BY <1>2, <1>3, <1>4, <1>5, <1>6 DEF Visits

LEMMA PushPrintStep == ASSUME InterpreterInv, PushPrint PROVE StepOK
<1>1. stack # << >> /\ stack' = Below /\ data' = data /\ maps' = maps /\ blocks' = blocks
  BY DEF PushPrint, At, Return
<1>2. PlanOK /\ StackOK(stack, data, blocks, maps) /\ BlocksOK(blocks) /\ DataOK(data)
  BY <1>1, TopFacts
<1> QED BY <1>1, <1>2, Steps, SparesAll DEF StepOK

(* A filter or a limit erases in the block it is given and passes it on.   *)
Reduced(b2, m, K) == K \subseteq blocks[m].mask /\ b2 = [blocks EXCEPT ![m].mask = K]
SameBut(d2, n) ==
  DataOK(d2) /\ \A k \in Ops : (k # n => d2[k] = data[k]) /\ d2[k].active = data[k].active
Passed(n, K) == [top EXCEPT !.at = Parent(n), !.todo = K]

LEMMA PassOn ==
  ASSUME InterpreterInv, stack # << >>, top.do = "push", NEW n, n = top.at, NEW m, m = top.from,
         plan[n].op \in {"filter", "limit"}, top.i = 0, NEW K, NEW b2, Reduced(b2, m, K),
         NEW d2, SameBut(d2, n)
  PROVE  /\ BlocksOK(b2) /\ Spares(top, d2, b2, maps) /\ b2[m].mask = K
         /\ b2[m].row = blocks[m].row /\ \A k \in Ops : k # m => b2[k] = blocks[k]
         /\ Passed(n, K) \in Frame /\ FrameOK(Passed(n, K), d2, b2, maps)
         /\ Placed(Passed(n, K), Frames(Below))
         /\ \A h \in Frame : h.at = n => Placed(Passed(n, K), {h} \cup Frames(Below))
<1>1. /\ PlanOK /\ StackOK(stack, data, blocks, maps) /\ BlocksOK(blocks) /\ DataOK(data)
      /\ top \in Frame /\ n \in Ops /\ m \in Ops /\ Root \in Nat /\ Ops = 1..Root
      /\ HasArity(plan[n]) /\ IsTyped(plan, n) /\ (Is(n, "print") <=> n = Root)
  BY TopFacts
<1>a. /\ K \subseteq blocks[m].mask /\ DataOK(d2)
      /\ \A k \in Ops : (k # n => d2[k] = data[k]) /\ d2[k].active = data[k].active
  BY DEF Reduced, SameBut
<1>2. /\ Visits(top, data, blocks, maps) /\ Steered(top, data) /\ m < n
      /\ plan[m].schema = plan[Feeder(n, data)].schema
      /\ \A s \in Input.mask : Input.row[s] \in TuplesOf(m)
  BY TopVisits
<1>3. n # Root /\ n \notin Joins /\ ~Is(n, "join") /\ Len(plan[n].kids) = 1
  BY <1>1 DEF Joins, Is, HasArity
<1>4. Parent(n) \in Ops /\ n < Parent(n)
  BY <1>1, <1>3, Parents
<1>5. Feeder(n, data) = Kid(n, 1) /\ plan[m].schema = plan[n].schema /\ ~Is(Kid(n, 1), "join")
  <2>1. Feeder(n, data) = Kid(n, 1)
    BY <1>3 DEF Feeder
  <2>2. plan[n].kids # << >>
    <3>1. plan[n].kids \in Seq(1..(n - 1))
      BY <1>1, Kids
    <3>2. ASSUME plan[n].kids = << >> PROVE FALSE
      <4>1. Len(<< >>) = 0
        OBVIOUS
      <4>2. Len(plan[n].kids) = 0
        BY <3>2, <4>1, Zenon
      <4> QED BY SMTT(30), <1>3, <4>2
    <3> QED BY <3>2
  <2> QED BY <1>1, <1>2, <2>1, <2>2 DEF IsTyped, Kid, Is
<1>6. ~Is(m, "join")
  <2> SUFFICES ASSUME Is(m, "join") PROVE FALSE
    OBVIOUS
  <2>1. n = Parent(m)
    BY <1>2 DEF Visits
  <2>2. m # Root
    BY <1>1, <1>2, <1>3
  <2>3. PICK i \in 1..Len(plan[n].kids) : Kid(n, i) = m
    BY <1>1, <2>1, <2>2, Parents
  <2> QED BY <1>3, <1>5, <2>3
<1>7. /\ BlocksOK(b2) /\ b2[m].mask = K /\ b2[m].row = blocks[m].row
      /\ \A k \in Ops : k # m => b2[k] = blocks[k]
  <2>1. b2 = [blocks EXCEPT ![m].mask = K] /\ K \subseteq BlockSlots
    BY <1>1 DEF Reduced, BlocksOK
  <2> QED BY <1>1, <2>1 DEF BlocksOK
<1>8. Spares(top, d2, b2, maps)
  <2>1. \A k \in Ops : k < n => k # n
    BY <1>1
  <2>2. ASSUME NEW k \in Ops
        PROVE  /\ b2[k].row = blocks[k].row /\ b2[k].mask \subseteq blocks[k].mask
               /\ Is(k, "join") => b2[k].mask = blocks[k].mask
    BY <1>6, <1>7, <1>a
  <2> QED BY <1>a, <2>1, <2>2 DEF Spares
<1> DEFINE g == Passed(n, K)
<1>9. K \in SUBSET BlockSlots
  BY <1>1, <1>a DEF BlocksOK
<1>10. /\ g \in Frame /\ g.do = "push" /\ g.at = Parent(n) /\ g.from = m /\ g.todo = K
       /\ g.hits = top.hits /\ g.left = top.left /\ g.i = 0
  BY <1>1, <1>4, <1>9 DEF Passed, Frame
<1> HIDE DEF g
<1>11. Steered(top, d2)
  <2>1. \A p \in UpFrom(n) : d2[p].active = data[p].active
    BY <1>1, <1>a, Upward
  <2> QED BY <1>2, <2>1 DEF Steered
<1>12. /\ Steered(g, d2) /\ Feeder(g.at, d2) = n /\ Len(plan[g.at].kids) # 0
       /\ g.at \in Joins => d2[g.at].active \in 1..2
  BY <1>1, <1>3, <1>10, <1>11, ClimbSteered
<1>13. g.hits = {} /\ g.left = << >>
  BY <1>2, <1>3, <1>10 DEF Visits
<1>14. Visits(g, d2, b2, maps)
  <2>1. g.from < g.at
    <3>1. m \in Nat /\ n \in Nat /\ Parent(n) \in Nat
      BY <1>1, <1>4
    <3> QED BY <1>2, <1>4, <1>10, <3>1
  <2>2. plan[g.from].schema = plan[Feeder(g.at, d2)].schema
    BY <1>5, <1>10, <1>12
  <2>3. \A s \in g.todo \cup b2[g.from].mask : b2[g.from].row[s] \in TuplesOf(g.from)
    BY <1>a, <1>2, <1>7, <1>10 DEF Input
  <2>4. g.i <= Len(d2[g.at].rows)
    <3>1. d2[g.at].rows \in Seq(KeptBy(g.at))
      BY <1>4, <1>10, <1>a DEF DataOK
    <3>2. Len(d2[g.at].rows) \in Nat
      BY <3>1
    <3> QED BY <1>10, <3>2
  <2>5. Is(g.at, "join") => Probes(g, b2, maps)
    BY <1>10, <1>13, CapacityAssumption DEF Probes
  <2>6. ~Is(g.from, "join")
    BY <1>6, <1>10
  <2> QED BY <1>10, <1>12, <1>13, <2>1, <2>2, <2>3, <2>4, <2>5, <2>6 DEF Visits
<1>15. FrameOK(g, d2, b2, maps)
  <2>1. g.left \in Seq(TuplesOf(g.at)) /\ g.do # "run"
    BY <1>10, <1>13, EmptySeq
  <2> QED BY <1>12, <1>14, <2>1 DEF FrameOK
<1>16. Placed(g, Frames(Below)) /\ \A h \in Frame : h.at = n => Placed(g, {h} \cup Frames(Below))
  BY <1>1, <1>3, <1>10, Steps, ClimbPlaced
<1> QED BY <1>7, <1>8, <1>10, <1>15, <1>16 DEF g

LEMMA PushFilterStep == ASSUME InterpreterInv, PushFilter PROVE StepOK
<1> DEFINE n == top.at  m == top.from  keep == [s \in Input.mask |-> Passes(n, Input.row[s])]
           K == {s \in blocks[m].mask : keep[s]}
<1>1. /\ stack # << >> /\ top.do = "push" /\ Is(n, "filter") /\ data' = data /\ maps' = maps
      /\ blocks' = Erased(m, keep)
      /\ \/ stack' = <<[top EXCEPT !.at = Parent(n), !.todo = blocks'[m].mask]>> \o Below
         \/ stack' = Below
  BY DEF PushFilter, At, TailCall, Return
<1>2. /\ PlanOK /\ StackOK(stack, data, blocks, maps) /\ DataOK(data) /\ m \in Ops
  BY <1>1, TopFacts
<1>3. top.i = 0
  BY <1>1, TopVisits DEF Visits
<1>4. Reduced(blocks', m, K) /\ SameBut(data, n)
  BY <1>1, <1>2 DEF Erased, Reduced, SameBut
<1>5. n = top.at /\ m = top.from
  OBVIOUS
<1> HIDE DEF n, m, keep, K
<1>6. /\ BlocksOK(blocks') /\ Spares(top, data, blocks', maps) /\ blocks'[m].mask = K
      /\ Passed(n, K) \in Frame /\ FrameOK(Passed(n, K), data, blocks', maps)
      /\ Placed(Passed(n, K), Frames(Below))
  <2>1. plan[n].op \in {"filter", "limit"}
    BY <1>1 DEF Is
  <2> QED BY <1>1, <1>2, <1>3, <1>4, <1>5, <2>1, PassOn
<1>7. StackOK(<<Passed(n, K)>> \o Below, data, blocks', maps) /\ StackOK(Below, data, blocks', maps)
  BY <1>1, <1>2, <1>6, Steps
<1>8. stack' = <<Passed(n, K)>> \o Below \/ stack' = Below
  BY <1>1, <1>6 DEF Passed
<1> QED BY <1>1, <1>2, <1>6, <1>7, <1>8 DEF StepOK

LEMMA PushLimitStep == ASSUME InterpreterInv, PushLimit PROVE StepOK
<1> DEFINE n == top.at  m == top.from
           keep == [s \in Input.mask |-> InLimit(n, data[n].count + Rank(Input, s))]
           K == {s \in blocks[m].mask : keep[s]}
           f == [top EXCEPT !.i = 1]
           e == [data[n] EXCEPT !.count = @ + Cardinality(Input.mask)]
<1>1. /\ stack # << >> /\ top.do = "push" /\ Is(n, "limit") /\ top.i = 0 /\ maps' = maps
      /\ blocks' = Erased(m, keep) /\ data' = [data EXCEPT ![n] = e]
      /\ \/ stack' = <<[top EXCEPT !.at = Parent(n), !.todo = blocks'[m].mask], f>> \o Below
         \/ stack' = <<f>> \o Below
  BY DEF PushLimit, At, CallFrom, Continue
<1>2. /\ PlanOK /\ StackOK(stack, data, blocks, maps) /\ DataOK(data) /\ m \in Ops /\ n \in Ops
      /\ top \in Frame
  BY <1>1, TopFacts
<1>3. e \in Datum /\ e.rows = data[n].rows /\ e.active = data[n].active
  <2>1. data[n] \in Datum
    BY <1>2 DEF DataOK
  <2>2. Cardinality(Input.mask) \in Nat
    <3>1. IsFiniteSet(BlockSlots)
      <4>1. C - 1 \in Int
        BY CapacityAssumption
      <4> QED BY <4>1, FS_Interval DEF BlockSlots
    <3> QED BY <1>1, <3>1, TopVisits, FS_Subset, FS_CardinalityType
  <2> QED BY <2>1, <2>2 DEF Datum
<1>4. Updated(data', n, e) /\ e.rows \in Seq(KeptBy(n))
  BY <1>1, <1>2, <1>3 DEF Updated, DataOK
<1>5. Reduced(blocks', m, K) /\ K \subseteq blocks[m].mask
  BY <1>1 DEF Erased, Reduced
<1>6. n = top.at /\ m = top.from /\ plan[n].op \in {"filter", "limit"}
  BY <1>1 DEF Is
<1>7. f \in Frame /\ f.do = top.do /\ f.at = n /\ f = [top EXCEPT !.i = 1]
  BY <1>2 DEF Frame
<1> HIDE DEF n, m, keep, K, e, f
<1>8. /\ DataOK(data') /\ \A k \in Ops : (k # n => data'[k] = data[k]) /\ data'[k].active = data[k].active
  BY <1>2, <1>3, <1>4, UpdatedData
<1>a. SameBut(data', n)
  BY <1>8 DEF SameBut
<1>9. /\ BlocksOK(blocks') /\ Spares(top, data', blocks', maps) /\ blocks'[m].mask = K
      /\ blocks'[m].row = blocks[m].row
      /\ Passed(n, K) \in Frame /\ FrameOK(Passed(n, K), data', blocks', maps)
      /\ \A h \in Frame : h.at = n => Placed(Passed(n, K), {h} \cup Frames(Below))
  BY <1>1, <1>5, <1>6, <1>a, PassOn
<1>10. FrameOK(f, data', blocks', maps)
  <2>1. /\ Visits(top, data, blocks, maps) /\ Steered(top, data)
    BY <1>1, TopVisits
  <2>2. n \notin Joins /\ ~Is(n, "filter") /\ ~Is(n, "join") /\ ~Is(n, "loops")
    BY <1>1 DEF Joins, Is
  <2>3. Steered(f, data')
    <3>1. \A p \in UpFrom(n) : data'[p].active = data[p].active
      BY <1>2, <1>8, Upward
    <3> QED BY <1>6, <1>7, <2>1, <3>1 DEF Steered
  <2>4. f.todo = top.todo /\ f.hits = top.hits /\ f.from = m /\ f.left = top.left
    BY <1>2, <1>6, <1>7 DEF Frame
  <2>5. Feeder(n, data') = Feeder(n, data)
    BY <2>2 DEF Feeder
  <2>6. \A s \in f.todo \cup blocks'[m].mask : blocks'[m].row[s] \in TuplesOf(m)
    BY <1>5, <1>6, <1>9, <2>1, <2>4 DEF Visits
  <2>7. Visits(f, data', blocks', maps)
    BY <1>6, <1>7, <2>1, <2>2, <2>4, <2>5, <2>6 DEF Visits
  <2>8. f.left \in Seq(TuplesOf(f.at)) /\ f.do # "run"
    BY <1>1, <1>7, <2>7, EmptySeq DEF Visits
  <2> QED BY <2>3, <2>7, <2>8 DEF FrameOK
<1>11. Placed(f, Frames(Below))
  BY <1>1, <1>2, <1>6, <1>7, Steps, SamePlace
<1>b. StackOK(<<f>> \o Below, data', blocks', maps)
  BY <1>1, <1>2, <1>7, <1>9, <1>10, <1>11, Steps
<1>c. Placed(Passed(n, K), {f} \cup Frames(Below))
  BY <1>7, <1>9
<1>12. StackOK(<<Passed(n, K), f>> \o Below, data', blocks', maps)
  BY <1>1, <1>2, <1>7, <1>9, <1>10, <1>11, <1>c, Steps
<1>13. stack' = <<Passed(n, K), f>> \o Below \/ stack' = <<f>> \o Below
  BY <1>1, <1>9 DEF Passed
<1> QED BY <1>1, <1>8, <1>9, <1>b, <1>12, <1>13 DEF StepOK

(* The exception of a limit finds the run of one on the stack.             *)
LEMMA Caught ==
  ASSUME InterpreterInv, stack # << >>, top.do = "push", Is(top.at, "limit")
  PROVE  \E k \in 1..Len(stack) : Catches(stack[k]) /\ \A l \in 1..(k - 1) : ~Catches(stack[l])
<1>1. /\ PlanOK /\ StackOK(stack, data, blocks, maps) /\ top.at \in Ops /\ stack \in Seq(Frame)
      /\ Stacked(stack)
  BY TopFacts DEF StackOK
<1>2. Placed(top, Frames(Below)) /\ Frames(Below) \subseteq Frames(stack)
  BY <1>1, Popped DEF top, Below
<1>3. top.at \in UpFrom(top.at)
  BY <1>1, Upward
<1>4. PICK g \in Frames(Below) : Catches(g)
  BY <1>2, <1>3 DEF Placed
<1> DEFINE S == {k \in 1..Len(stack) : Catches(stack[k])}
<1>5. S \in SUBSET Nat /\ S # {}
  <2>1. PICK k \in 1..Len(stack) : g = stack[k]
    BY <1>2 DEF Frames
  <2>2. k \in S
    BY <1>4, <2>1
  <2> QED BY <2>2
<1>6. Min(S) \in S /\ \A y \in S : Min(S) <= y
  BY <1>5, Least
<1>7. PICK k \in S : \A y \in S : k <= y
  BY <1>6
<1>8. k \in 1..Len(stack) /\ Catches(stack[k]) /\ Len(stack) \in Nat
  BY <1>1
<1>9. ASSUME NEW l \in 1..(k - 1) PROVE ~Catches(stack[l])
  <2>1. l \in 1..Len(stack) /\ ~(k <= l)
    BY <1>8
  <2>2. l \notin S
    BY <1>7, <2>1
  <2> QED BY <2>1, <2>2
<1> HIDE DEF S
<1> QED BY <1>8, <1>9

LEMMA LimitReachedStep == ASSUME InterpreterInv, LimitReached PROVE StepOK
<1>1. /\ stack # << >> /\ top.do = "push" /\ Is(top.at, "limit")
      /\ blocks' = blocks /\ data' = data /\ maps' = maps /\ (Unwind \/ stack' = Below)
  BY DEF LimitReached, At, Return
<1>2. PlanOK /\ StackOK(stack, data, blocks, maps) /\ BlocksOK(blocks) /\ DataOK(data)
  BY <1>1, TopFacts
<1>3. CASE stack' = Below
  BY <1>1, <1>2, <1>3, Steps, SparesAll DEF StepOK
<1>4. CASE Unwind
  <2>1. \E k \in 1..Len(stack) : Catches(stack[k]) /\ \A l \in 1..(k - 1) : ~Catches(stack[l])
    BY <1>1, Caught
  <2>2. PICK k \in 1..Len(stack) : stack' = SubSeq(stack, 1 + k, Len(stack))
    BY <1>4, <2>1 DEF Unwind
  <2>3. stack \in Seq(Frame) /\ Stacked(stack) /\ \A f \in Frames(stack) : FrameOK(f, data, blocks, maps)
    BY <1>2 DEF StackOK
  <2>4. stack' \in Seq(Frame) /\ Stacked(stack') /\ Frames(stack') = Deeper(stack, k)
    BY <2>2, <2>3, Suffix
  <2>5. Deeper(stack, k) \subseteq Frames(stack)
    BY <2>3 DEF Deeper, Frames
  <2>6. StackOK(stack', data, blocks, maps)
    BY <2>3, <2>4, <2>5 DEF StackOK
  <2> QED BY <1>1, <1>2, <2>6 DEF StepOK
<1> QED BY <1>1, <1>3, <1>4

LEMMA PushProjectionStep == ASSUME InterpreterInv, PushProjection PROVE StepOK
<1> DEFINE n == top.at  m == top.from
           row == [s \in BlockSlots |-> IF s \in Input.mask THEN Projected(n, Input.row[s]) ELSE NoRow]
           mask == Input.mask
<1>1. /\ stack # << >> /\ top.do = "push" /\ Is(n, "project") /\ data' = data /\ maps' = maps
      /\ Filled(n, row, mask) /\ Push(n)
  BY DEF PushProjection, At
<1>2. /\ PlanOK /\ n \in Ops /\ m \in Ops /\ IsTyped(plan, n) /\ HasArity(plan[n]) /\ (Is(n, "print") <=> n = Root)
  BY <1>1, TopFacts
<1>3. /\ \A s \in mask : Input.row[s] \in TuplesOf(m)
      /\ mask \in SUBSET BlockSlots /\ plan[m].schema = plan[Feeder(n, data)].schema
      /\ Len(plan[n].kids) # 0
  BY <1>1, TopVisits
<1>4. plan[m].schema = plan[n].schema /\ plan[n].expr \in [Domain -> Domain]
  <2>1. n \notin Joins
    BY <1>1 DEF Joins, Is
  <2>2. Feeder(n, data) = plan[n].kids[1]
    BY <2>1 DEF Feeder, Kid
  <2>3. plan[n].kids # << >>
    <3>1. plan[n].kids = << >> => Len(plan[n].kids) = Len(<< >>)
      BY Zenon
    <3>2. Len(<< >>) = 0
      OBVIOUS
    <3> QED BY <1>3, <3>1, <3>2
  <2> QED BY <1>1, <1>2, <1>3, <2>2, <2>3 DEF IsTyped, Is
<1>5. \A s \in mask : Projected(n, Input.row[s]) \in TuplesOf(n)
  BY <1>3, <1>4, ProjectedTyped DEF TuplesOf
<1>6. TuplesOf(n) \subseteq AnyTuple
  BY <1>2 DEF AnyTuple
<1>7. row \in [BlockSlots -> AnyTuple \cup {NoRow}] /\ \A s \in mask : row[s] \in TuplesOf(n)
  BY <1>3, <1>5, <1>6
<1>8. n # Root /\ n = top.at
  BY <1>1, <1>2 DEF Is
<1> HIDE DEF n, row, mask
<1> QED BY <1>1, <1>3, <1>7, <1>8, EmitStep

(* A visitor that goes on with the same block, whatever became of its own. *)
LEMMA VisitOn ==
  ASSUME InterpreterInv, stack # << >>, top.do = "push", NEW d2, SameBut(d2, top.at), NEW b2, NEW ms2,
         b2[top.from] = blocks[top.from], NEW f \in Frame, f.do = "push", f.at = top.at, f.from = top.from,
         f.left = top.left, f.todo \subseteq top.todo, Is(top.at, "filter") => f.i = 0,
         (Is(top.at, "join") /\ data[top.at].active = 2) \/ f.hits = {},
         Is(top.at, "loops") /\ d2[top.at].active = 2 => f.i <= Len(d2[top.at].rows),
         Is(top.at, "join") => Probes(f, b2, ms2)
  PROVE  FrameOK(f, d2, b2, ms2)
<1>1. /\ Visits(top, data, blocks, maps) /\ Steered(top, data) /\ top.at \in Ops /\ PlanOK
      /\ \A k \in Ops : (k # top.at => d2[k] = data[k]) /\ d2[k].active = data[k].active
  BY TopVisits, TopFacts DEF SameBut
<1>2. Steered(f, d2)
  <2>1. \A p \in UpFrom(top.at) : d2[p].active = data[p].active
    BY <1>1, Upward
  <2> QED BY <1>1, <2>1 DEF Steered
<1>3. Feeder(f.at, d2) = Feeder(f.at, data)
  BY <1>1 DEF Feeder
<1>4. Visits(f, d2, b2, ms2)
  BY <1>1, <1>3 DEF Visits
<1>5. f.left \in Seq(TuplesOf(f.at)) /\ f.do # "run"
  BY <1>4, EmptySeq DEF Visits
<1> QED BY <1>2, <1>4, <1>5 DEF FrameOK

(* What a step at the top changes of its own data does not matter below.   *)
LEMMA SparesOwn ==
  ASSUME InterpreterInv, stack # << >>, NEW d2, SameBut(d2, top.at)
  PROVE  Spares(top, d2, blocks, maps)
<1>1. top.at \in Ops /\ Ops = 1..Root /\ Root \in Nat
  BY TopFacts
<1>2. \A k \in Ops : k < top.at => k # top.at
  BY <1>1
<1> QED BY <1>2 DEF Spares, SameBut

Collecting(n) ==
  plan[n].op \in {"group", "aggregate", "sort"} \/ (Is(n, "loops") /\ data[n].active = 1)

LEMMA CollectedTyped ==
  ASSUME InterpreterInv, stack # << >>, top.do = "push", NEW n, n = top.at, Collecting(n), NEW s \in top.todo
  PROVE  /\ Collected(n, data[n].rows, Input.row[s]) \in Seq(KeptBy(n))
         /\ Collected(n, data[n].rows, Input.row[s]) \in Seq(AnyTuple)
<1> DEFINE m == top.from  row == Input.row[s]
<1>1. /\ PlanOK /\ DataOK(data) /\ n \in Ops /\ IsTyped(plan, n) /\ HasArity(plan[n])
      /\ row \in TuplesOf(m) /\ plan[m].schema = plan[Feeder(n, data)].schema
      /\ Len(plan[n].kids) # 0
  BY TopFacts, TopVisits
<1>2. Feeder(n, data) = Kid(n, 1) /\ plan[m].schema = plan[Kid(n, 1)].schema
  <2>1. n \in Joins => data[n].active = 1
    BY DEF Collecting, Joins, Is
  <2> QED BY <1>1, <2>1 DEF Feeder
<1>3. data[n].rows \in Seq(KeptBy(n))
  BY <1>1 DEF DataOK
<1>4. row \in Tuples(plan[Kid(n, 1)].schema)
  BY <1>1, <1>2 DEF TuplesOf
<1>k. plan[n].kids # << >>
  <2>1. plan[n].kids = << >> => Len(plan[n].kids) = Len(<< >>)
    BY Zenon
  <2>2. Len(<< >>) = 0
    OBVIOUS
  <2> QED BY <1>1, <2>1, <2>2
<1> HIDE DEF row, m
<1>5. CASE plan[n].op \in {"group", "aggregate"}
  <2>1. plan[n].schema = {n} /\ KeptBy(n) = Tuples({n})
    BY <1>1, <1>5 DEF IsTyped, KeptBy, Is, TuplesOf
  <2>2. GroupKey(n, row) \in Domain
    <3>1. CASE Is(n, "group")
      <4>1. plan[n].on \in plan[Kid(n, 1)].schema
        BY <1>1, <3>1 DEF IsTyped, Is, Kid
      <4>2. Value(row, plan[n].on) \in Domain
        BY <1>4, <4>1, ValueTyped
      <4> QED BY <3>1, <4>2 DEF GroupKey
    <3>2. CASE ~Is(n, "group")
      BY <3>2, DomainAssumption DEF GroupKey, DomainAssumption
    <3> QED BY <3>1, <3>2
  <2>3. Grouped(n, data[n].rows, row) \in Seq(Tuples({n}))
    BY <1>3, <2>1, <2>2, GroupedTyped
  <2>4. Collected(n, data[n].rows, row) \in Seq(KeptBy(n))
    BY <1>5, <2>1, <2>3 DEF Collected
  <2>5. KeptBy(n) \subseteq AnyTuple
    BY <1>1, <1>5 DEF KeptBy, Is, AnyTuple
  <2> QED BY <2>4, <2>5, SeqMonotonic DEF row
<1>6. CASE Is(n, "sort") \/ Is(n, "loops")
  <2>1. row \in KeptBy(n)
    <3>1. CASE Is(n, "sort")
      <4>1. plan[n].schema = plan[Kid(n, 1)].schema
        BY <1>1, <1>k, <3>1 DEF IsTyped, Is, Kid
      <4> QED BY <1>4, <3>1, <4>1 DEF KeptBy, Is, TuplesOf
    <3>2. CASE Is(n, "loops")
      BY <1>4, <3>2 DEF KeptBy, TuplesOf
    <3> QED BY <1>6, <3>1, <3>2
  <2>2. Collected(n, data[n].rows, row) = Append(data[n].rows, row)
    BY <1>6 DEF Collected, Is
  <2>3. Append(data[n].rows, row) \in Seq(KeptBy(n))
    BY <1>3, <2>1
  <2>4. KeptBy(n) \subseteq AnyTuple
    <3>1. Kid(n, 1) \in Ops
      <4>1. Len(plan[n].kids) \in 1..2
        BY <1>1, <1>6 DEF HasArity, Is
      <4> QED BY <1>1, <4>1, Kids
    <3> QED BY <1>1, <3>1 DEF KeptBy, AnyTuple
  <2> QED BY <2>2, <2>3, <2>4, SeqMonotonic DEF row
<1> QED BY <1>5, <1>6 DEF Collecting, Is

LEMMA PushCollectStep == ASSUME InterpreterInv, PushCollect PROVE StepOK
<1> DEFINE n == top.at  s == Min(top.todo)
<1>1. /\ stack # << >> /\ top.do = "push" /\ Collecting(n) /\ blocks' = blocks /\ maps' = maps
  BY DEF PushCollect, At, Collecting, Is
<1>2. /\ PlanOK /\ StackOK(stack, data, blocks, maps) /\ BlocksOK(blocks) /\ DataOK(data)
      /\ top \in Frame /\ n \in Ops
  BY <1>1, TopFacts
<1>3. data[n] \in Datum /\ data[n].rows \in Seq(KeptBy(n))
  BY <1>2 DEF DataOK
<1>4. CASE top.todo = {}
  <2> DEFINE e == [data[n] EXCEPT !.fed = TRUE]
  <2>1. data' = [data EXCEPT ![n] = e] /\ stack' = Below
    BY <1>4 DEF PushCollect, Return
  <2>2. e \in Datum /\ e.rows = data[n].rows /\ e.active = data[n].active
    BY <1>3 DEF Datum
  <2> HIDE DEF e
  <2>3. SameBut(data', n)
    <3>1. Updated(data', n, e)
      BY <2>1 DEF Updated
    <3>2. DataOK(data') /\ data'[n] = e /\ \A k \in Ops : k # n => data'[k] = data[k]
      BY <1>2, <1>3, <2>2, <3>1, UpdatedData
    <3> QED BY <2>2, <3>2 DEF SameBut
  <2>4. Spares(top, data', blocks, maps)
    BY <1>1, <2>3, SparesOwn
  <2> QED BY <1>1, <1>2, <2>1, <2>3, <2>4, Steps DEF StepOK, SameBut
<1>5. CASE top.todo # {}
  <2> DEFINE rs == Collected(n, data[n].rows, Input.row[s])
             e == [data[n] EXCEPT !.fed = TRUE, !.rows = rs]
             f == [top EXCEPT !.todo = @ \ {s}]
  <2>1. stack' = <<f>> \o Below
    BY <1>5 DEF PushCollect, Continue
  <2>2. data' = [data EXCEPT ![n] = e]
    BY <1>2, <1>5 DEF PushCollect, DataOK
  <2>3. s \in top.todo
    <3>1. top.todo \in SUBSET Nat
      BY <1>2, CapacityAssumption DEF Frame, BlockSlots
    <3> QED BY <1>5, <3>1, Least
  <2>4. rs \in Seq(KeptBy(n)) /\ rs \in Seq(AnyTuple)
    BY <1>1, <2>3, CollectedTyped
  <2>5. f \in Frame /\ f.do = "push" /\ f.at = n /\ f.from = top.from /\ f.left = top.left
        /\ f.todo \subseteq top.todo /\ f.hits = top.hits
    BY <1>1, <1>2 DEF Frame
  <2> HIDE DEF rs, s, f
  <2>6. e \in Datum /\ e.rows = rs /\ e.active = data[n].active
    BY <1>3, <2>4 DEF Datum
  <2> HIDE DEF e
  <2>7. SameBut(data', n)
    <3>1. Updated(data', n, e)
      BY <2>2 DEF Updated
    <3>2. DataOK(data') /\ data'[n] = e /\ \A k \in Ops : k # n => data'[k] = data[k]
      BY <1>2, <2>4, <2>6, <3>1, UpdatedData
    <3> QED BY <2>6, <3>2 DEF SameBut
  <2>8. Spares(top, data', blocks, maps)
    BY <1>1, <2>7, SparesOwn
  <2>9. ~Is(n, "filter") /\ ~Is(n, "join") /\ f.hits = {} /\ ~(Is(n, "loops") /\ data'[n].active = 2)
    <3>1. ~Is(n, "filter") /\ ~Is(n, "join")
      BY <1>1 DEF Collecting, Is
    <3>2. f.hits = {}
      BY <1>1, <2>5, <3>1, TopVisits DEF Visits
    <3>3. data'[n].active = data[n].active
      BY <1>2, <2>7 DEF SameBut
    <3> QED BY <1>1, <3>1, <3>2, <3>3 DEF Collecting, Is
  <2>10. FrameOK(f, data', blocks, maps)
    BY <1>1, <2>5, <2>7, <2>9, VisitOn
  <2>11. StackOK(<<f>> \o Below, data', blocks, maps)
    BY <1>1, <1>2, <2>5, <2>8, <2>10, GoOn
  <2> QED BY <1>1, <1>2, <2>1, <2>7, <2>11 DEF StepOK, SameBut
<1> QED BY <1>4, <1>5

(* On its right side a join reads tuples of its right child.               *)
LEMMA RightSide ==
  ASSUME InterpreterInv, stack # << >>, top.do = "push", NEW n, n = top.at, n \in Joins, data[n].active = 2,
         NEW m, m = top.from
  PROVE  /\ n # Root /\ plan[n].on[2] \in plan[m].schema
         /\ \A l \in TuplesOf(Kid(n, 1)), r \in TuplesOf(m) : Joined(l, r) \in TuplesOf(n)
<1>1. /\ n \in Ops /\ IsTyped(plan, n) /\ HasArity(plan[n]) /\ (Is(n, "print") <=> n = Root)
      /\ plan[m].schema = plan[Feeder(n, data)].schema /\ Len(plan[n].kids) # 0
  BY TopFacts, TopVisits
<1>2. plan[m].schema = plan[Kid(n, 2)].schema
  BY <1>1 DEF Feeder
<1>3. Is(n, "join") \/ Is(n, "loops")
  BY DEF Joins
<1>4. plan[n].kids # << >>
  <2>1. plan[n].kids = << >> => Len(plan[n].kids) = Len(<< >>)
    BY Zenon
  <2>2. Len(<< >>) = 0
    OBVIOUS
  <2> QED BY <1>1, <2>1, <2>2
<1>5. /\ plan[n].schema = plan[Kid(n, 1)].schema \cup plan[m].schema
      /\ plan[n].on[2] \in plan[m].schema
  BY <1>1, <1>2, <1>3, <1>4 DEF IsTyped, Is, Kid
<1>6. \A l \in TuplesOf(Kid(n, 1)), r \in TuplesOf(m) : Joined(l, r) \in TuplesOf(n)
  BY <1>5, JoinedTyped DEF TuplesOf
<1>7. n # Root
  BY <1>1, <1>3 DEF Is
<1> QED BY <1>5, <1>6, <1>7

(* What a step at the top does to its own block does not matter below.     *)
LEMMA SparesBlock ==
  ASSUME InterpreterInv, stack # << >>, NEW b2, \A k \in Ops : k # top.at => b2[k] = blocks[k]
  PROVE  Spares(top, data, b2, maps)
<1>1. top.at \in Ops /\ Ops = 1..Root /\ Root \in Nat
  BY TopFacts
<1>2. \A k \in Ops : k < top.at => k # top.at
  BY <1>1
<1> QED BY <1>2 DEF Spares

LEMMA SameData == ASSUME InterpreterInv, NEW n PROVE SameBut(data, n)
BY DEF SameBut, InterpreterInv

LEMMA PushLoopsStep == ASSUME InterpreterInv, PushLoops PROVE StepOK
<1> DEFINE n == top.at  m == top.from  f == [top EXCEPT !.i = @ + 1]  l == data[n].rows[top.i + 1]
           mask == {s \in Input.mask : Theta(n, l, Input.row[s])}
           row == [s \in BlockSlots |-> IF s \in mask THEN Joined(l, Input.row[s]) ELSE NoRow]
<1>1. /\ stack # << >> /\ top.do = "push" /\ Is(n, "loops") /\ data[n].active = 2
      /\ data' = data /\ maps' = maps
      /\ IF top.i = Len(data[n].rows) THEN stack' = Below /\ blocks' = blocks
         ELSE Filled(n, row, mask) /\ (PushThen(n, f) \/ stack' = <<f>> \o Below)
  BY DEF PushLoops, At, Return, Continue
<1>2. /\ PlanOK /\ StackOK(stack, data, blocks, maps) /\ BlocksOK(blocks) /\ DataOK(data)
      /\ top \in Frame /\ n \in Ops /\ m \in Ops /\ top.i \in Nat
  BY <1>1, TopFacts
<1>3. CASE top.i = Len(data[n].rows)
  BY <1>1, <1>2, <1>3, Steps, SparesAll DEF StepOK
<1>4. CASE top.i # Len(data[n].rows)
  <2>1. data[n].rows \in Seq(TuplesOf(Kid(n, 1))) /\ Len(data[n].rows) \in Nat
    <3>1. data[n].rows \in Seq(TuplesOf(Kid(n, 1)))
      BY <1>1, <1>2 DEF DataOK, KeptBy
    <3> QED BY <3>1
  <2>2. top.i <= Len(data[n].rows)
    BY <1>1, TopVisits DEF Visits
  <2>3. l \in TuplesOf(Kid(n, 1))
    <3>1. top.i + 1 \in 1..Len(data[n].rows)
      BY <1>2, <1>4, <2>1, <2>2
    <3> QED BY <2>1, <3>1, ElementOfSeq
  <2>4. n \in Joins
    BY <1>1, <1>2 DEF Joins
  <2>5. n # Root /\ \A r \in TuplesOf(m) : Joined(l, r) \in TuplesOf(n)
    BY <1>1, <2>3, <2>4, RightSide
  <2>6. (\A s \in Input.mask : Input.row[s] \in TuplesOf(m)) /\ Input.mask \in SUBSET BlockSlots /\ m # n
    BY <1>1, TopVisits
  <2>7. TuplesOf(n) \subseteq AnyTuple
    BY <1>2 DEF AnyTuple
  <2>8. /\ row \in [BlockSlots -> AnyTuple \cup {NoRow}] /\ mask \in SUBSET BlockSlots
        /\ \A s \in mask : row[s] \in TuplesOf(n)
    <3>1. mask \in SUBSET BlockSlots /\ \A s \in mask : Joined(l, Input.row[s]) \in TuplesOf(n)
      BY <2>5, <2>6
    <3> HIDE DEF mask, l
    <3> QED BY <2>7, <3>1
  <2>9. /\ f \in Frame /\ f.do = "push" /\ f.at = top.at /\ f.from = top.from /\ f.left = top.left
        /\ f.todo \subseteq top.todo /\ f.hits = top.hits /\ f.i = top.i + 1
    <3>1. top \in Frame /\ top.do = "push"
      BY <1>1, <1>2
    <3> HIDE DEF n, m, mask, row, l
    <3>2. f.i = top.i + 1 /\ f \in Frame
      BY <3>1 DEF Frame
    <3> QED BY <3>1, <3>2 DEF Frame
  <2>10. Filled(n, row, mask) /\ (PushThen(n, f) \/ stack' = <<f>> \o Below)
    BY <1>1, <1>4
  <2>11. n = top.at /\ m = top.from
    OBVIOUS
  <2>12. f.i <= Len(data[n].rows)
    BY <1>2, <1>4, <2>1, <2>2, <2>9
  <2> HIDE DEF f, n, m, mask, row, l
  <2>13. BlocksOK(blocks') /\ DataOK(data')
    BY <1>1, <2>5, <2>8, <2>10, <2>11, EmitStep
  <2>14. \A k \in Ops : k # n => blocks'[k] = blocks[k]
    BY <1>2, <2>10 DEF Filled, BlocksOK
  <2>15. FrameOK(f, data, blocks', maps)
    <3>1. ~Is(n, "filter") /\ ~Is(n, "join") /\ f.hits = {}
      <4>1. ~Is(n, "filter") /\ ~Is(n, "join")
        BY <1>1 DEF Is
      <4> QED BY <1>1, <2>9, <2>11, <4>1, TopVisits DEF Visits
    <3>2. blocks'[m] = blocks[m]
      BY <1>2, <2>6, <2>14
    <3> QED BY <1>1, <2>9, <2>11, <2>12, <3>1, <3>2, SameData, VisitOn
  <2>16. CASE PushThen(n, f)
    BY <1>1, <2>5, <2>8, <2>9, <2>10, <2>11, <2>15, <2>16, EmitStep
  <2>17. CASE stack' = <<f>> \o Below
    <3>1. Spares(top, data, blocks', maps)
      BY <1>1, <2>11, <2>14, SparesBlock
    <3>2. StackOK(<<f>> \o Below, data, blocks', maps)
      BY <1>1, <1>2, <2>9, <2>11, <2>15, <3>1, GoOn
    <3> QED BY <1>1, <2>13, <2>17, <3>2 DEF StepOK
  <2> QED BY <2>10, <2>16, <2>17
<1> QED BY <1>3, <1>4
-----------------------------------------------------------------------------
(* Hash joins. *)

LEMMA ProbingFacts ==
  ASSUME InterpreterInv, stack # << >>, Probing, NEW n, n = top.at, NEW m, m = top.from
  PROVE  /\ stack # << >> /\ top.do = "push" /\ Is(n, "join") /\ data[n].active = 2
         /\ n \in Joins /\ n \in Ops /\ m \in Ops /\ m # n /\ n # Root
         /\ Probes(top, blocks, maps) /\ top.i \in Nat /\ top.hits \in SUBSET Nat
         /\ blocks[n].row \in [BlockSlots -> AnyTuple \cup {NoRow}] /\ blocks[n].mask \in SUBSET BlockSlots
<1>1. top.do = "push" /\ Is(n, "join") /\ data[n].active = 2
  BY DEF Probing, At
<1>2. n \in Ops /\ m \in Ops /\ top.i \in Nat /\ top \in Frame /\ BlocksOK(blocks)
  BY TopFacts
<1>3. Visits(top, data, blocks, maps) /\ m # n
  BY <1>1, TopVisits
<1>4. Probes(top, blocks, maps)
  BY <1>1, <1>3 DEF Visits
<1>5. n \in Joins
  BY <1>1, <1>2 DEF Joins
<1>6. n # Root
  BY <1>1, <1>5, RightSide
<1>7. top.hits \in SUBSET Nat
  BY <1>2 DEF Frame
<1> QED BY <1>1, <1>2, <1>3, <1>4, <1>5, <1>6, <1>7 DEF BlocksOK

LEMMA MatchesNat ==
  ASSUME InterpreterInv, NEW n \in Ops, NEW k \in Keys
  PROVE  /\ Matches(maps[n], k) \subseteq Nat /\ Bucket(maps[n], k) \in Slots(maps[n])
         /\ maps[n].capacity \in Nat \ {0} /\ maps[n].len \in [Slots(maps[n]) -> Nat]
<1>1. n \in Maps
  BY PlanFacts DEF InterpreterInv
<1>2. IsMap(maps[n]) /\ maps[n].capacity # 0
  BY <1>1 DEF InterpreterInv, MapInv, MapTypeOK
<1>3. maps[n].capacity \in Nat \ {0} /\ maps[n].len \in [Slots(maps[n]) -> Nat]
  BY <1>2 DEF IsMap
<1>4. Bucket(maps[n], k) \in Slots(maps[n])
  BY <1>3, BucketSlot
<1>5. maps[n].len[Bucket(maps[n], k)] \in Nat
  BY <1>3, <1>4
<1>6. Matches(maps[n], k) \subseteq Nat
  <2> DEFINE x == maps[n].len[Bucket(maps[n], k)]
  <2>1. \A p \in Matches(maps[n], k) : p \in 0..(x - 1)
    BY DEF Matches
  <2>2. x \in Nat
    BY <1>5
  <2> HIDE DEF x
  <2> QED BY <2>1, <2>2
<1> QED BY <1>3, <1>4, <1>6

LEMMA KeyTyped ==
  ASSUME Storable, PlanOK, NEW m \in Ops, NEW row \in TuplesOf(m), NEW s \in plan[m].schema
  PROVE  Key(row, s) \in Keys /\ row \in Values
<1>1. /\ TuplesOf(m) \subseteq Values
      /\ IF CharKeys THEN TuplesOf(m) \X plan[m].schema \subseteq Keys ELSE Domain \subseteq Keys
  BY DEF Storable, PlanOK, TuplesOf, plan, Ops
<1>2. Value(row, s) \in Domain
  BY ValueTyped DEF TuplesOf
<1> QED BY <1>1, <1>2 DEF Key

LEMMA NextProbeStep == ASSUME Storable, InterpreterInv, NextProbe PROVE StepOK
<1> DEFINE n == top.at  m == top.from  s == Min(top.todo)
           hits == Matches(maps[n], Key(Input.row[s], plan[n].on[2]))
           f == [top EXCEPT !.todo = @ \ {s}, !.cur = s, !.hits = hits]
<1>1. /\ stack # << >> /\ Probing /\ top.todo # {} /\ data' = data /\ maps' = maps
      /\ blocks' = [blocks EXCEPT ![n].mask = BlockSlots] /\ stack' = <<f>> \o Below
  BY DEF NextProbe, Probing, At, Continue, Fill
<1>2. /\ PlanOK /\ StackOK(stack, data, blocks, maps) /\ BlocksOK(blocks) /\ DataOK(data)
      /\ top \in Frame
  BY <1>1, TopFacts
<1>3. /\ top.do = "push" /\ Is(n, "join") /\ data[n].active = 2 /\ n \in Joins /\ n \in Ops /\ m \in Ops
      /\ m # n /\ Probes(top, blocks, maps) /\ plan[n].on[2] \in plan[m].schema
  BY <1>1, ProbingFacts, RightSide
<1>4. s \in top.todo /\ s \in BlockSlots /\ Input.row[s] \in TuplesOf(m)
  <2>1. top.todo \in SUBSET Nat /\ top.todo \subseteq BlockSlots
    BY <1>2, CapacityAssumption DEF Frame, BlockSlots
  <2>2. s \in top.todo
    BY <1>1, <2>1, Least
  <2> QED BY <1>1, <1>3, <2>1, <2>2, TopVisits
<1>5. hits \in SUBSET Nat
  BY <1>2, <1>3, <1>4, KeyTyped, MatchesNat
<1>6. /\ f \in Frame /\ f.do = "push" /\ f.at = top.at /\ f.from = top.from /\ f.left = top.left
      /\ f.todo \subseteq top.todo /\ f.hits = hits /\ f.cur = s /\ f.i = top.i
  <2>1. top \in Frame /\ top.do = "push" /\ s \in BlockSlots
    BY <1>2, <1>3, <1>4
  <2> HIDE DEF n, m, hits, s
  <2> QED BY <1>5, <2>1 DEF Frame
<1>7. n = top.at /\ m = top.from
  OBVIOUS
<1>8. f.hits \subseteq Matches(maps[n], Key(Input.row[f.cur], plan[n].on[2]))
  <2>1. f.hits = hits /\ f.cur = s
    BY <1>6
  <2> HIDE DEF f, n, m
  <2> QED BY <2>1
<1> HIDE DEF f, hits, s, n, m
<1>9. /\ BlocksOK(blocks') /\ blocks'[n].mask = BlockSlots /\ blocks'[n].row = blocks[n].row
      /\ \A k \in Ops : k # n => blocks'[k] = blocks[k]
  BY <1>1, <1>2, <1>3 DEF BlocksOK
<1>10. blocks'[m] = blocks[m] /\ Input = blocks[m]
  BY <1>3, <1>7, <1>9 DEF Input
<1>11. Probes(f, blocks', maps)
  <2>1. f.i <= C /\ \A k \in 0..(f.i - 1) : blocks'[f.at].row[k] \in TuplesOf(f.at)
    BY <1>3, <1>6, <1>7, <1>9 DEF Probes
  <2>2. blocks'[f.at].mask = BlockSlots
    BY <1>6, <1>7, <1>9
  <2>3. blocks'[f.from].row[f.cur] \in TuplesOf(f.from)
    BY <1>4, <1>6, <1>7, <1>10
  <2>4. f.hits \subseteq Matches(maps[f.at], Key(blocks'[f.from].row[f.cur], plan[f.at].on[2]))
    BY <1>6, <1>7, <1>8, <1>10
  <2> QED BY <2>1, <2>2, <2>3, <2>4 DEF Probes
<1>12. FrameOK(f, data, blocks', maps)
  <2>1. ~Is(n, "filter") /\ ~Is(n, "loops")
    BY <1>3 DEF Is
  <2> QED BY <1>1, <1>3, <1>6, <1>7, <1>10, <1>11, <2>1, SameData, VisitOn
<1>13. Spares(top, data, blocks', maps)
  BY <1>1, <1>7, <1>9, SparesBlock
<1>14. StackOK(<<f>> \o Below, data, blocks', maps)
  BY <1>1, <1>2, <1>3, <1>6, <1>12, <1>13, GoOn
<1> QED BY <1>1, <1>2, <1>9, <1>14 DEF StepOK

(* A match is an element of the table that was built.                      *)
LEMMA MatchTyped ==
  ASSUME InterpreterInv, NEW n \in Ops, Is(n, "join"), NEW k \in Keys, NEW p \in Matches(maps[n], k)
  PROVE  maps[n].at[Probe(maps[n], Bucket(maps[n], k), p)][2] \in TuplesOf(Kid(n, 1))
<1> DEFINE m == maps[n]  b == Bucket(m, k)
<1>1. Matches(m, k) \subseteq Nat /\ b \in Slots(m) /\ m.capacity \in Nat \ {0} /\ m.len \in [Slots(m) -> Nat]
  BY MatchesNat
<1>2. p \in Nat /\ p \in 0..(m.len[b] - 1)
  BY <1>1 DEF Matches
<1>3. BucketsOccupied(m) /\ Holds(m, n)
  <2>1. n \in Maps
    BY PlanFacts DEF InterpreterInv
  <2> QED BY <2>1 DEF InterpreterInv, MapInv, LookupsComplete, TablesHold
<1>4. Probe(m, b, p) \in Slots(m)
  BY <1>1, <1>2, ProbeSlot
<1>5. m.len[Probe(m, b, p)] # 0
  BY <1>1, <1>2, <1>3 DEF BucketsOccupied
<1>6. Probe(m, b, p) \in Occupied(m)
  BY <1>4, <1>5 DEF Occupied
<1> QED BY <1>3, <1>6 DEF Holds

LEMMA ProbeHitStep == ASSUME Storable, InterpreterInv, ProbeHit PROVE StepOK
<1> DEFINE n == top.at  m == top.from  row == Input.row[top.cur]  p == Min(top.hits)
           k == Key(row, plan[n].on[2])
           built == maps[n].at[Probe(maps[n], Bucket(maps[n], k), p)][2]
           emptied == [top EXCEPT !.i = 0]
           f == [top EXCEPT !.hits = @ \ {p}, !.i = @ + 1]
<1>1. /\ stack # << >> /\ Probing /\ top.hits # {} /\ data' = data /\ maps' = maps
      /\ IF top.i = C THEN blocks' = blocks /\ PushThen(n, emptied)
         ELSE /\ blocks' = [blocks EXCEPT ![n].row[top.i] = Joined(built, row)]
              /\ stack' = <<f>> \o Below
  BY DEF ProbeHit, Probing, At, Continue, BlockFull
<1>2. /\ PlanOK /\ StackOK(stack, data, blocks, maps) /\ BlocksOK(blocks) /\ DataOK(data)
      /\ top \in Frame
  BY <1>1, TopFacts
<1>3. /\ top.do = "push" /\ Is(n, "join") /\ data[n].active = 2 /\ n \in Joins /\ n \in Ops /\ m \in Ops
      /\ m # n /\ n # Root /\ Probes(top, blocks, maps) /\ plan[n].on[2] \in plan[m].schema
      /\ top.i \in Nat /\ top.hits \in SUBSET Nat /\ blocks[n].row \in [BlockSlots -> AnyTuple \cup {NoRow}]
      /\ \A l \in TuplesOf(Kid(n, 1)), r \in TuplesOf(m) : Joined(l, r) \in TuplesOf(n)
  BY <1>1, ProbingFacts, RightSide
<1>4. /\ Input = blocks[m] /\ row \in TuplesOf(m) /\ blocks[n].mask = BlockSlots /\ top.i <= C
      /\ \A s \in 0..(top.i - 1) : blocks[n].row[s] \in TuplesOf(n)
      /\ top.hits \subseteq Matches(maps[n], k)
  BY <1>1, <1>3 DEF Probes, Input
<1>5. ~Is(n, "filter") /\ ~Is(n, "loops") /\ n = top.at /\ m = top.from
  BY <1>3 DEF Is
<1>6. CASE top.i = C
  <2>1. Filled(n, blocks[n].row, BlockSlots)
    <3>1. blocks[n] = [row |-> blocks[n].row, mask |-> BlockSlots] /\ blocks' = blocks
      BY <1>1, <1>2, <1>3, <1>4, <1>6 DEF BlocksOK
    <3> QED BY <1>2, <1>3, <3>1 DEF Filled, BlocksOK
  <2>2. \A s \in BlockSlots : blocks[n].row[s] \in TuplesOf(n)
    BY <1>4, <1>6 DEF BlockSlots
  <2>3. /\ emptied \in Frame /\ emptied.do = "push" /\ emptied.at = top.at /\ emptied.from = top.from
        /\ emptied.left = top.left /\ emptied.todo = top.todo /\ emptied.hits = top.hits
        /\ emptied.cur = top.cur /\ emptied.i = 0
    BY <1>2, <1>3 DEF Frame
  <2>4. PushThen(n, emptied) /\ blocks' = blocks
    BY <1>1, <1>6
  <2> HIDE DEF emptied, n, m, row, p, k, built, f
  <2>5. Probes(emptied, blocks, maps)
    BY <1>3, <1>5, <2>3, CapacityAssumption DEF Probes
  <2>6. FrameOK(emptied, data, blocks, maps)
    BY <1>1, <1>3, <1>5, <2>3, <2>5, SameData, VisitOn
  <2>7. BlockSlots \in SUBSET BlockSlots /\ FrameOK(emptied, data, blocks', maps) /\ emptied.do = top.do
    BY <1>3, <2>3, <2>4, <2>6
  <2> QED BY <1>1, <1>3, <1>5, <2>1, <2>2, <2>3, <2>4, <2>7, EmitStep
<1>7. CASE top.i # C
  <2>1. p \in top.hits
    BY <1>1, <1>3, Least
  <2>2. built \in TuplesOf(Kid(n, 1))
    <3>1. k \in Keys
      BY <1>2, <1>3, <1>4, KeyTyped
    <3>2. p \in Matches(maps[n], k)
      BY <1>4, <2>1
    <3> HIDE DEF k, p, n
    <3> QED BY <1>3, <3>1, <3>2, MatchTyped
  <2>3. Joined(built, row) \in TuplesOf(n)
    <3> HIDE DEF built, row, n, m
    <3> QED BY <1>3, <1>4, <2>2
  <2>4. top.i \in BlockSlots
    BY <1>3, <1>4, <1>7, CapacityAssumption DEF BlockSlots
  <2>5. /\ f \in Frame /\ f.do = "push" /\ f.at = top.at /\ f.from = top.from /\ f.left = top.left
        /\ f.todo = top.todo /\ f.hits = top.hits \ {p} /\ f.cur = top.cur /\ f.i = top.i + 1
    <3>1. top \in Frame /\ top.do = "push" /\ top.i \in Nat
      BY <1>2, <1>3
    <3> HIDE DEF n, m, row, p, k, built, emptied
    <3>2. f.i = top.i + 1 /\ f \in Frame
      <4>1. top.i + 1 \in Nat /\ top.hits \ {p} \in SUBSET Nat
        BY <3>1 DEF Frame
      <4> DEFINE h == top.hits \ {p}  x == top.i + 1
      <4>2. f = [top EXCEPT !.hits = h, !.i = x] /\ h \in SUBSET Nat /\ x \in Nat
        BY <4>1
      <4> HIDE DEF f, h
      <4>3. f.i = x /\ f \in Frame
        <5> HIDE DEF x
        <5> QED BY <3>1, <4>2 DEF Frame
      <4> QED BY <4>3
    <3> QED BY <3>1, <3>2 DEF Frame
  <2>6. blocks' = [blocks EXCEPT ![n].row[top.i] = Joined(built, row)] /\ stack' = <<f>> \o Below
    BY <1>1, <1>7
  <2> DEFINE t == Joined(built, row)
  <2>7. t \in TuplesOf(n) /\ blocks' = [blocks EXCEPT ![n].row[top.i] = t]
    BY <2>3, <2>6
  <2>8. row = Input.row[top.cur] /\ k = Key(row, plan[n].on[2])
    OBVIOUS
  <2> HIDE DEF t, f, n, m, row, p, k, built
  <2>9. /\ BlocksOK(blocks') /\ blocks'[n].mask = BlockSlots
        /\ blocks'[n].row = [blocks[n].row EXCEPT ![top.i] = t]
        /\ \A j \in Ops : j # n => blocks'[j] = blocks[j]
    <3>1. t \in AnyTuple
      BY <1>3, <2>7 DEF AnyTuple
    <3>2. [blocks[n].row EXCEPT ![top.i] = t] \in [BlockSlots -> AnyTuple \cup {NoRow}]
      BY <1>3, <3>1
    <3>3. blocks' = [blocks EXCEPT ![n] = [@ EXCEPT !.row = [blocks[n].row EXCEPT ![top.i] = t]]]
      BY <2>7
    <3> QED BY <1>2, <1>3, <1>4, <3>2, <3>3 DEF BlocksOK
  <2>10. Probes(f, blocks', maps)
    <3>1. f.i <= C
      BY <1>3, <1>4, <1>7, <2>5, CapacityAssumption
    <3>2. ASSUME NEW s \in 0..(f.i - 1) PROVE blocks'[n].row[s] \in TuplesOf(n)
      <4>1. s \in 0..(top.i - 1) \/ s = top.i
        BY <1>3, <2>5
      <4>2. s \in BlockSlots
        BY <1>3, <3>1, <2>5, CapacityAssumption DEF BlockSlots
      <4> QED BY <1>3, <1>4, <2>7, <2>9, <4>1, <4>2
    <3>3. blocks'[m] = blocks[m]
      BY <1>3, <2>9
    <3> QED BY <1>4, <1>5, <2>5, <2>8, <2>9, <3>1, <3>2, <3>3 DEF Probes
  <2>11. FrameOK(f, data, blocks', maps)
    <3>1. blocks'[top.from] = blocks[top.from] /\ f.todo \subseteq top.todo
      BY <1>3, <1>5, <2>5, <2>9
    <3> QED BY <1>1, <1>3, <1>5, <2>5, <2>10, <3>1, SameData, VisitOn
  <2>12. Spares(top, data, blocks', maps)
    BY <1>1, <1>5, <2>9, SparesBlock
  <2>13. StackOK(<<f>> \o Below, data, blocks', maps)
    BY <1>1, <1>2, <1>3, <2>5, <2>11, <2>12, GoOn
  <2> QED BY <1>1, <1>2, <2>6, <2>9, <2>13 DEF StepOK
<1> QED BY <1>6, <1>7

LEMMA ProbeEndStep == ASSUME InterpreterInv, ProbeEnd PROVE StepOK
<1> DEFINE n == top.at  m == top.from
<1>1. /\ stack # << >> /\ Probing /\ data' = data /\ maps' = maps
      /\ IF top.i = 0 THEN stack' = Below /\ blocks' = blocks
         ELSE Filled(n, blocks[n].row, FirstSlots(top.i)) /\ Push(n)
  BY DEF ProbeEnd, Probing, At, Return
<1>2. /\ PlanOK /\ StackOK(stack, data, blocks, maps) /\ BlocksOK(blocks) /\ DataOK(data)
  BY <1>1, TopFacts
<1>3. CASE top.i = 0
  BY <1>1, <1>2, <1>3, Steps, SparesAll DEF StepOK
<1>4. CASE top.i # 0
  <2>1. /\ n # Root /\ Probes(top, blocks, maps) /\ top.i \in Nat
        /\ blocks[n].row \in [BlockSlots -> AnyTuple \cup {NoRow}]
    BY <1>1, ProbingFacts
  <2>2. top.i <= C /\ \A s \in FirstSlots(top.i) : blocks[n].row[s] \in TuplesOf(n)
    BY <2>1 DEF Probes, FirstSlots
  <2>3. FirstSlots(top.i) \in SUBSET BlockSlots /\ n = top.at
    BY <2>1, <2>2, FirstSlotsInBlock
  <2>4. Filled(n, blocks[n].row, FirstSlots(top.i)) /\ Push(n)
    BY <1>1, <1>4
  <2> HIDE DEF n
  <2> QED BY <1>1, <2>1, <2>2, <2>3, <2>4, EmitStep
<1> QED BY <1>3, <1>4

(* The step of a join that builds: it changes no map but its own.          *)
LEMMA BuildingFacts ==
  ASSUME InterpreterInv, Building, NEW n, n = top.at, NEW m, m = top.from
  PROVE  /\ stack # << >> /\ top.do = "push" /\ Is(n, "join") /\ data[n].active = 1
         /\ n \in Joins /\ n \in Ops /\ m \in Ops /\ n \in Maps /\ Ops \subseteq Maps
         /\ plan[n].on[1] \in plan[m].schema /\ TuplesOf(m) = TuplesOf(Kid(n, 1))
         /\ top.hits = {} /\ Probes(top, blocks, maps)
<1>1. stack # << >> /\ top.do = "push" /\ Is(n, "join") /\ data[n].active = 1
  BY DEF Building, At
<1>2. /\ n \in Ops /\ m \in Ops /\ IsTyped(plan, n) /\ plan[m].schema = plan[Feeder(n, data)].schema
      /\ Len(plan[n].kids) # 0
  BY <1>1, TopFacts, TopVisits
<1>3. n \in Joins
  BY <1>1, <1>2 DEF Joins
<1>4. plan[m].schema = plan[Kid(n, 1)].schema
  BY <1>1, <1>2, <1>3 DEF Feeder
<1>5. plan[n].on[1] \in plan[m].schema
  BY <1>1, <1>2, <1>4 DEF IsTyped, Is, Kid
<1>6. Ops \subseteq Maps
  BY PlanFacts DEF InterpreterInv
<1>7. top.hits = {} /\ Probes(top, blocks, maps)
  BY <1>1, TopVisits DEF Visits
<1> QED BY <1>1, <1>2, <1>3, <1>4, <1>5, <1>6, <1>7 DEF TuplesOf

LEMMA SparesMap ==
  ASSUME InterpreterInv, stack # << >>, NEW ms2, \A k \in Ops : k # top.at => ms2[k] = maps[k]
  PROVE  Spares(top, data, blocks, ms2)
<1>1. top.at \in Ops /\ Ops = 1..Root /\ Root \in Nat
  BY TopFacts
<1>2. \A k \in Ops : k < top.at => k # top.at
  BY <1>1
<1> QED BY <1>2 DEF Spares

LEMMA BuildOn ==
  ASSUME InterpreterInv, Building, NEW ms2, \A k \in Ops : k # top.at => ms2[k] = maps[k],
         NEW f \in Frame, f.do = "push", f.at = top.at, f.from = top.from, f.left = top.left,
         f.todo \subseteq top.todo, f.hits = {}, f.i = top.i
  PROVE  StackOK(<<f>> \o Below, data, blocks, ms2)
<1>1. /\ stack # << >> /\ top.do = "push" /\ Is(top.at, "join") /\ Probes(top, blocks, maps)
  BY BuildingFacts
<1>2. PlanOK /\ StackOK(stack, data, blocks, maps)
  BY <1>1, TopFacts
<1>3. Probes(f, blocks, ms2)
  BY <1>1 DEF Probes
<1>4. ~Is(top.at, "filter") /\ ~Is(top.at, "loops")
  BY <1>1 DEF Is
<1>5. FrameOK(f, data, blocks, ms2)
  BY <1>1, <1>3, <1>4, SameData, VisitOn
<1>6. Spares(top, data, blocks, ms2)
  BY <1>1, SparesMap
<1> QED BY <1>1, <1>2, <1>5, <1>6, GoOn

LEMMA BuildStep ==
  ASSUME Storable, InterpreterInv, Build
  PROVE  /\ StepOK /\ q' = q
         /\ UNCHANGED mapVars \/
              \E j \in Maps \cap Ops, e \in Elements :
                /\ StartInsert(j, e) /\ Is(j, "join") /\ e[2] \in TuplesOf(Kid(j, 1))
                /\ Building' /\ top'.at = j
<1> DEFINE n == top.at  m == top.from  s == Min(top.todo)  row == Input.row[s]
           e == <<Key(row, plan[n].on[1]), row>>
           f == [top EXCEPT !.todo = @ \ {s}]
<1>1. /\ Building /\ blocks' = blocks /\ data' = data /\ q' = q
      /\ IF top.todo = {} THEN stack' = Below /\ maps' = maps /\ ins' = ins
         ELSE StartInsert(n, e) /\ stack' = <<f>> \o Below
  BY DEF Build, Return, Continue, mapVars
<1>2. /\ stack # << >> /\ top.do = "push" /\ Is(n, "join") /\ data[n].active = 1 /\ n \in Joins
      /\ n \in Ops /\ m \in Ops /\ n \in Maps /\ Ops \subseteq Maps /\ top.hits = {}
      /\ plan[n].on[1] \in plan[m].schema /\ TuplesOf(m) = TuplesOf(Kid(n, 1))
  BY <1>1, BuildingFacts
<1>3. PlanOK /\ StackOK(stack, data, blocks, maps) /\ BlocksOK(blocks) /\ DataOK(data) /\ top \in Frame
  BY <1>2, TopFacts
<1>4. CASE top.todo = {}
  BY <1>1, <1>2, <1>3, <1>4, Steps, SparesAll DEF StepOK, mapVars
<1>5. CASE top.todo # {}
  <2>1. s \in top.todo /\ row \in TuplesOf(m)
    <3>1. top.todo \in SUBSET Nat
      BY <1>3, CapacityAssumption DEF Frame, BlockSlots
    <3>2. s \in top.todo
      BY <1>5, <3>1, Least
    <3> QED BY <1>2, <3>2, TopVisits
  <2>2. e \in Elements /\ e[2] = row
    BY <1>2, <1>3, <2>1, KeyTyped DEF Elements
  <2>3. StartInsert(n, e) /\ stack' = <<f>> \o Below
    BY <1>1, <1>5
  <2>4. /\ f \in Frame /\ f.do = "push" /\ f.at = top.at /\ f.from = top.from /\ f.left = top.left
        /\ f.todo \subseteq top.todo /\ f.hits = {} /\ f.i = top.i
    BY <1>2, <1>3 DEF Frame
  <2> HIDE DEF e, f, n, m, s, row
  <2>5. n = top.at
    BY DEF n
  <2>6. \A k \in Ops : k # n => maps'[k] = maps[k]
    <3>1. maps = [k \in Maps |-> maps[k]]
      BY DEF InterpreterInv, MapInv, MapTypeOK
    <3> QED BY <1>2, <2>3, <3>1 DEF StartInsert
  <2>7. StackOK(stack', data', blocks', maps')
    BY <1>1, <2>3, <2>4, <2>5, <2>6, BuildOn
  <2>8. stack' # << >> /\ top' = f
    <3>1. Below \in Seq(Frame)
      BY <1>2, <1>3, Popped DEF StackOK, Below
    <3>2. Head(<<f>> \o Below) = f /\ Len(<<f>> \o Below) = Len(Below) + 1 /\ Len(Below) \in Nat
      BY <2>4, <3>1, OneMore
    <3>3. <<f>> \o Below # << >>
      <4>1. <<f>> \o Below = << >> => Len(<<f>> \o Below) = Len(<< >>)
        BY Zenon
      <4>2. Len(<< >>) = 0
        OBVIOUS
      <4> QED BY <3>2, <4>1, <4>2
    <3> QED BY <2>3, <3>2, <3>3 DEF top
  <2>9. Building' /\ top'.at = n
    <3>1. plan' = plan
      BY <1>1 DEF plan
    <3> QED BY <1>1, <1>2, <2>4, <2>5, <2>8, <3>1 DEF Building, At, Is
  <2> QED BY <1>1, <1>2, <1>3, <2>1, <2>2, <2>3, <2>7, <2>9 DEF StepOK
<1> QED BY <1>4, <1>5

LEMMA InsertStep ==
  ASSUME InterpreterInv, Insert
  PROVE  StepOK /\ q' = q /\ (Rehash \/ FinishInsert) /\ stack' = stack /\ data' = data
<1>1. /\ Building /\ (Rehash \/ FinishInsert) /\ q' = q /\ stack' = stack /\ data' = data
      /\ blocks' = blocks
  BY DEF Insert
<1>2. /\ stack # << >> /\ top.do = "push" /\ top.at \in Ops /\ Ops \subseteq Maps /\ top.hits = {}
  BY <1>1, BuildingFacts
<1>3. PlanOK /\ StackOK(stack, data, blocks, maps) /\ BlocksOK(blocks) /\ DataOK(data) /\ top \in Frame
  BY <1>2, TopFacts
<1>4. ins.element # NoElement /\ ins.into = top.at
  BY <1>1 DEF Rehash, FinishInsert, InterpreterInv, Inserting
<1>5. \A k \in Ops : k # top.at => maps'[k] = maps[k]
  <2>1. ASSUME NEW e, Place(top.at, e) PROVE \A k \in Ops : k # top.at => maps'[k] = maps[k]
    <3>1. PICK p : maps' = [maps EXCEPT ![top.at] = PlaceAt(@, e, Bucket(maps[top.at], e[1]), p)]
      BY <2>1 DEF Place
    <3>2. maps = [k \in Maps |-> maps[k]]
      BY DEF InterpreterInv, MapInv, MapTypeOK
    <3> DEFINE x == PlaceAt(maps[top.at], e, Bucket(maps[top.at], e[1]), p)
    <3>3. maps' = [maps EXCEPT ![top.at] = x]
      BY <3>1
    <3> HIDE DEF x
    <3> QED BY <1>2, <3>2, <3>3
  <2> QED BY <1>1, <1>4, <2>1 DEF Rehash, FinishInsert
<1>6. stack = <<top>> \o Below
  <2>1. stack \in Seq(Frame)
    BY <1>3 DEF StackOK
  <2> QED BY <1>2, <2>1 DEF top, Below
<1>7. StackOK(<<top>> \o Below, data, blocks, maps')
  BY <1>1, <1>2, <1>3, <1>5, BuildOn
<1> QED BY <1>1, <1>3, <1>6, <1>7 DEF StepOK

(* Placing a tuple of T in a table of tuples of T.                         *)
LEMMA PlaceHolds ==
  ASSUME MapInv, NEW j \in Maps, NEW e \in Elements, Place(j, e), NEW T, e[2] \in T,
         \A s \in Occupied(maps[j]) : maps[j].at[s][2] \in T
  PROVE  \A s \in Occupied(maps'[j]) : maps'[j].at[s][2] \in T
<1> DEFINE m == maps[j]  b == Bucket(m, e[1])
<1>1. PICK p \in m.len[b]..(m.capacity - 1) :
        FirstFree(m, b, p) /\ maps' = [maps EXCEPT ![j] = PlaceAt(m, e, b, p)]
  BY DEF Place
<1>2. maps = [k \in Maps |-> maps[k]] /\ IsMap(m) /\ m.capacity # 0
  BY DEF MapInv, MapTypeOK
<1>3. b = Bucket(m, e[1]) /\ maps[j] = m
  OBVIOUS
<1> HIDE DEF m, b
<1> DEFINE s == Probe(m, b, p)  n == PlaceAt(m, e, b, p)
<1>4. maps'[j] = n
  BY <1>1, <1>2
<1>5. m.capacity \in Nat \ {0} /\ Slots(m) = 0..(m.capacity - 1)
  BY <1>2 DEF IsMap, Slots
<1>6. /\ b \in Slots(m) /\ m.len \in [Slots(m) -> Nat]
      /\ m.at \in [Slots(m) -> Elements \cup {NoElement}]
  BY <1>2, <1>3, <1>5, BucketSlot DEF Elements, IsMap
<1>7. p \in Nat /\ m.len[b] \in Nat /\ m.len[b] <= p
  BY <1>1, <1>5, <1>6
<1>8. s \in Slots(m) /\ Probe(m, b, 0) = b
  BY <1>5, <1>6, <1>7, ProbeSlot
<1>9. s = b \/ m.len[b] # 0
  <2>1. \A x \in m.len[b]..(p - 1) : m.len[Probe(m, b, x)] # 0
    BY <1>1 DEF FirstFree
  <2> QED BY <1>7, <1>8, <2>1
<1>10. /\ n.len = [[m.len EXCEPT ![s] = 1] EXCEPT ![b] = p + 1] /\ n.at = [m.at EXCEPT ![s] = e]
       /\ Slots(n) = Slots(m)
  <2>1. n = [m EXCEPT !.len = [@ EXCEPT ![s] = 1, ![b] = p + 1], !.at = [@ EXCEPT ![s] = e]]
    BY DEF PlaceAt
  <2>2. m = [capacity |-> m.capacity, len |-> m.len, at |-> m.at]
    BY <1>2 DEF IsMap
  <2> HIDE DEF s, n
  <2> QED BY <2>1, <2>2 DEF Slots
<1> HIDE DEF s, n
<1>11. ASSUME NEW t \in Occupied(n) PROVE n.at[t][2] \in T
  <2>1. CASE t = s
    BY <1>6, <1>8, <1>10, <2>1
  <2>2. CASE t # s
    <3>1. t \in Slots(m) /\ n.at[t] = m.at[t] /\ m.len[t] # 0
      BY <1>6, <1>8, <1>9, <1>10, <1>11, <2>2 DEF Occupied
    <3> QED BY <1>3, <3>1 DEF Occupied
  <2> QED BY <2>1, <2>2
<1> QED BY <1>4, <1>11

(* What the maps hold after a step that does not insert.                   *)
LEMMA Idle ==
  ASSUME InterpreterInv, q' = q, UNCHANGED mapVars, ins.element = NoElement
  PROVE  TablesHold' /\ Inserting'
<1>1. /\ plan' = plan /\ Ops' = Ops /\ \A n : TuplesOf(n)' = TuplesOf(n)
  BY SamePlan
<1>2. maps' = maps /\ ins' = ins
  BY DEF mapVars
<1>3. \A m, n : Holds(m, n)' = Holds(m, n)
  BY <1>1 DEF Holds, Kid
<1> QED BY <1>1, <1>2, <1>3 DEF InterpreterInv, TablesHold, Inserting, Is

LEMMA Started ==
  ASSUME InterpreterInv, q' = q, NEW j \in Maps \cap Ops, NEW e \in Elements, StartInsert(j, e),
         Is(j, "join"), e[2] \in TuplesOf(Kid(j, 1)), Building', top'.at = j
  PROVE  TablesHold' /\ Inserting'
<1>1. /\ plan' = plan /\ Ops' = Ops /\ \A n : TuplesOf(n)' = TuplesOf(n)
  BY SamePlan
<1>2. \A m, n : Holds(m, n)' = Holds(m, n)
  BY <1>1 DEF Holds, Kid
<1>3. /\ maps = [k \in Maps |-> maps[k]] /\ Ops \subseteq Maps
      /\ \A k \in Maps : IsMap(maps[k])
      /\ \A n \in Ops : Is(n, "join") => Holds(maps[n], n)
  BY PlanFacts DEF InterpreterInv, MapInv, MapTypeOK, TablesHold
<1>4. ASSUME NEW c \in Nat, NEW n PROVE Holds(EmptyMap(c), n)
  BY EmptyIsMap DEF Holds
<1>5. 2 * maps[j].capacity \in Nat /\ 0 \in Nat
  BY <1>3 DEF IsMap
<1>6. ins'.into = j /\ ins'.element = e /\ (ins'.old = maps[j] \/ ins'.old = EmptyMap(0))
  BY DEF StartInsert
<1>7. ASSUME NEW n \in Ops PROVE maps'[n] = maps[n] \/ maps'[n] = EmptyMap(2 * maps[j].capacity)
  BY <1>3 DEF StartInsert
<1>8. TablesHold'
  <2>1. \A n \in Ops : Is(n, "join") => Holds(maps'[n], n)
    BY <1>3, <1>4, <1>5, <1>7
  <2> QED BY <1>1, <1>2, <2>1 DEF TablesHold, Is
<1>9. j \in Ops /\ Is(j, "join")
  OBVIOUS
<1>10. Holds(ins'.old, j)
  BY <1>3, <1>4, <1>5, <1>6, <1>9
<1>11. TuplesOf(Kid(j, 1))' = TuplesOf(Kid(j, 1))
  BY <1>1 DEF Kid
<1> QED BY <1>2, <1>6, <1>8, <1>10, <1>11 DEF Inserting, Building, At

LEMMA Inserted ==
  ASSUME InterpreterInv, q' = q, stack' = stack, data' = data, Rehash \/ FinishInsert
  PROVE  TablesHold' /\ Inserting'
<1>1. /\ plan' = plan /\ Ops' = Ops /\ \A n : TuplesOf(n)' = TuplesOf(n)
  BY SamePlan
<1>2. \A m, n : Holds(m, n)' = Holds(m, n)
  BY <1>1 DEF Holds, Kid
<1> DEFINE j == ins.into
<1>3. /\ stack # << >> /\ Building /\ j = top.at /\ ins.element[2] \in TuplesOf(Kid(j, 1))
      /\ Holds(ins.old, j) /\ ins.element # NoElement
  BY DEF Rehash, FinishInsert, InterpreterInv, Inserting
<1>4. j \in Ops /\ Is(j, "join") /\ Ops \subseteq Maps
  BY <1>3, BuildingFacts
<1>5. /\ maps = [k \in Maps |-> maps[k]] /\ MapInv /\ ins.element \in Elements
      /\ \A s \in Occupied(ins.old) : ins.old.at[s] \in Elements
      /\ \A n \in Ops : Is(n, "join") => Holds(maps[n], n)
      /\ ins = [into |-> ins.into, element |-> ins.element, old |-> ins.old, runner |-> ins.runner]
  BY <1>3 DEF InterpreterInv, MapInv, MapTypeOK, OldTable, TablesHold
<1> HIDE DEF j
<1>6. ASSUME NEW e \in Elements, Place(j, e), e[2] \in TuplesOf(Kid(j, 1))
      PROVE  \A n \in Ops : Is(n, "join") => Holds(maps'[n], n)
  <2>1. Holds(maps'[j], j)
    BY <1>4, <1>5, <1>6, PlaceHolds DEF Holds
  <2>2. \A n \in Ops : n # j => maps'[n] = maps[n]
    <3>1. PICK p : maps' = [maps EXCEPT ![j] = PlaceAt(@, e, Bucket(maps[j], e[1]), p)]
      BY <1>6 DEF Place
    <3> DEFINE x == PlaceAt(maps[j], e, Bucket(maps[j], e[1]), p)
    <3>2. maps' = [maps EXCEPT ![j] = x]
      BY <3>1
    <3> HIDE DEF x
    <3> QED BY <1>4, <1>5, <3>2
  <2> QED BY <1>5, <2>1, <2>2
<1>7. CASE Rehash
  <2>1. ins'.into = j /\ ins'.element = ins.element /\ ins'.old = ins.old
    BY <1>5, <1>7 DEF Rehash, j
  <2>2. \A n \in Ops : Is(n, "join") => Holds(maps'[n], n)
    <3>1. CASE ins.old.len[ins.runner] = 0
      BY <1>5, <1>7, <3>1 DEF Rehash
    <3>2. CASE ins.old.len[ins.runner] # 0
      <4>1. ins.runner \in Occupied(ins.old) /\ Place(j, ins.old.at[ins.runner])
        BY <1>7, <3>2 DEF Rehash, Occupied, j
      <4>2. ins.old.at[ins.runner] \in Elements /\ ins.old.at[ins.runner][2] \in TuplesOf(Kid(j, 1))
        BY <1>3, <1>5, <4>1 DEF Holds
      <4> QED BY <1>6, <4>1, <4>2
    <3> QED BY <3>1, <3>2
  <2>3. TablesHold'
    BY <1>1, <1>2, <2>2 DEF TablesHold, Is
  <2>4. Building' /\ stack' # << >> /\ top' = top
    BY <1>1, <1>3 DEF Building, At, Is, top
  <2>5. TuplesOf(Kid(j, 1))' = TuplesOf(Kid(j, 1)) /\ j' = j
    BY <1>1, <2>1 DEF Kid, j
  <2>6. Holds(ins'.old, j) /\ ins'.element[2] \in TuplesOf(Kid(j, 1)) /\ ins'.into = top'.at
    BY <1>3, <2>1, <2>4
  <2>7. Kid(j, 1)' = Kid(ins'.into, 1) /\ Kid(j, 1) = Kid(ins'.into, 1)
    BY <1>1, <2>1, <2>5 DEF Kid
  <2>8. ins'.element[2] \in TuplesOf(Kid(ins.into, 1))' /\ Holds(ins.old, ins.into)'
    BY <1>1, <1>2, <2>1, <2>6, <2>7 DEF j, Kid
  <2> QED BY <2>3, <2>4, <2>6, <2>8 DEF Inserting
<1>8. CASE FinishInsert
  <2>1. \A n \in Ops : Is(n, "join") => Holds(maps'[n], n)
    BY <1>3, <1>5, <1>6, <1>8 DEF FinishInsert, j
  <2>2. ins'.element = NoElement
    BY <1>5, <1>8 DEF FinishInsert
  <2> QED BY <1>1, <1>2, <2>1, <2>2 DEF TablesHold, Inserting, Is
<1> QED BY <1>7, <1>8
-----------------------------------------------------------------------------
(* Every step keeps the invariant, and is a step of the hash tables.       *)

(* An insertion in progress keeps all others waiting.                      *)
LEMMA NoInsertion ==
  ASSUME InterpreterInv, ~Building \/ ins.element = NoElement
  PROVE  ins.element = NoElement
BY DEF InterpreterInv, Inserting

LEMMA RunStep ==
  ASSUME InterpreterInv, Run
  PROVE  StepOK /\ q' = q /\ tables' = tables /\ UNCHANGED mapVars /\ ins.element = NoElement
<1>1. top.do = "run"
  BY DEF Run, RunChild, RunScan, RunJoin, RunConstants, RunLimit, RunBreaker, OrderResult, EmitResult, At
<1>2. ins.element = NoElement
  BY <1>1, NoInsertion DEF Building, At
<1>3. StepOK
  BY RunChildStep, RunScanStep, RunJoinStep, RunConstantsStep, RunLimitStep, RunBreakerStep,
     OrderResultStep, EmitResultStep DEF Run
<1>4. q' = q /\ tables' = tables /\ maps' = maps /\ ins' = ins
  BY DEF Run, RunChild, RunScan, RunJoin, RunConstants, RunLimit, RunBreaker, OrderResult, EmitResult
<1> QED BY <1>2, <1>3, <1>4 DEF mapVars

Visiting ==
  PushPrint \/ PushFilter \/ PushLimit \/ LimitReached \/ PushProjection \/ PushCollect
    \/ PushLoops \/ NextProbe \/ ProbeHit \/ ProbeEnd

LEMMA VisitingStep ==
  ASSUME Storable, InterpreterInv, Visiting
  PROVE  StepOK /\ q' = q /\ tables' = tables /\ UNCHANGED mapVars /\ ins.element = NoElement
<1>1. ~Building
  <2>1. PushPrint => At("push", "print")
    BY DEF PushPrint
  <2>2. PushFilter => At("push", "filter")
    BY DEF PushFilter
  <2>3. PushLimit \/ LimitReached => At("push", "limit")
    BY DEF PushLimit, LimitReached
  <2>4. PushProjection => At("push", "project")
    BY DEF PushProjection
  <2>5. PushCollect => At("push", "group") \/ At("push", "aggregate") \/ At("push", "sort") \/ At("push", "loops")
    BY DEF PushCollect
  <2>6. PushLoops => At("push", "loops")
    BY DEF PushLoops
  <2>7. NextProbe \/ ProbeHit \/ ProbeEnd => Probing
    BY DEF NextProbe, ProbeHit, ProbeEnd
  <2>8. Probing \/ plan[top.at].op # "join"
    BY <2>1, <2>2, <2>3, <2>4, <2>5, <2>6, <2>7 DEF Visiting, At, Is
  <2> QED BY <2>8 DEF Probing, Building, At, Is
<1>2. ins.element = NoElement
  BY <1>1, NoInsertion
<1>3. StepOK
  BY PushPrintStep, PushFilterStep, PushLimitStep, LimitReachedStep, PushProjectionStep,
     PushCollectStep, PushLoopsStep, NextProbeStep, ProbeHitStep, ProbeEndStep DEF Visiting
<1>4. q' = q /\ tables' = tables /\ maps' = maps /\ ins' = ins
  BY DEF Visiting, PushPrint, PushFilter, PushLimit, LimitReached, PushProjection, PushCollect,
         PushLoops, NextProbe, ProbeHit, ProbeEnd
<1> QED BY <1>2, <1>3, <1>4 DEF mapVars

LEMMA InvNext ==
  ASSUME InterpreterInv, StepOK, q' = q, tables' = tables, TablesHold', Inserting', [MapNext]_mapVars
  PROVE  InterpreterInv'
<1>1. /\ plan' = plan /\ Ops' = Ops /\ Scans' = Scans /\ AnyTuple' = AnyTuple /\ Frame' = Frame
      /\ \A n : TuplesOf(n)' = TuplesOf(n)
      /\ \A st : Stacked(st)' = Stacked(st)
      /\ \A f, d, b, ms : FrameOK(f, d, b, ms)' = FrameOK(f, d, b, ms)
  BY SamePlan
<1>2. PlanOK' /\ TablesOK'
  BY <1>1 DEF InterpreterInv, PlanOK, TablesOK
<1>3. BlocksOK(blocks)'
  BY <1>1 DEF StepOK, BlocksOK
<1>4. DataOK(data)'
  <2>1. \A n : KeptBy(n)' = KeptBy(n)
    BY <1>1 DEF KeptBy, Is, Kid
  <2>2. Datum' = Datum
    BY <1>1 DEF Datum
  <2> QED BY <1>1, <2>1, <2>2 DEF StepOK, DataOK
<1>5. MapInv'
  BY StepKeeps DEF InterpreterInv
<1>6. StackOK(stack, data, blocks, maps)'
  <2>1. StackOK(stack', data', blocks', maps')
    BY DEF StepOK
  <2> QED BY <1>1, <2>1 DEF StackOK, Frames
<1> QED BY <1>2, <1>3, <1>4, <1>5, <1>6 DEF InterpreterInv

LEMMA NextKeeps ==
  ASSUME Storable, InterpreterInv, [Next]_vars
  PROVE  InterpreterInv' /\ [MapNext]_mapVars
<1>1. CASE Run
  <2>1. StepOK /\ q' = q /\ tables' = tables /\ UNCHANGED mapVars /\ ins.element = NoElement
    BY <1>1, RunStep
  <2>2. TablesHold' /\ Inserting'
    BY <2>1, Idle
  <2> QED BY <2>1, <2>2, InvNext
<1>2. CASE Visiting
  <2>1. StepOK /\ q' = q /\ tables' = tables /\ UNCHANGED mapVars /\ ins.element = NoElement
    BY <1>2, VisitingStep
  <2>2. TablesHold' /\ Inserting'
    BY <2>1, Idle
  <2> QED BY <2>1, <2>2, InvNext
<1>3. CASE Build
  <2>1. StepOK /\ q' = q /\ tables' = tables /\ ins.element = NoElement
    BY <1>3, BuildStep DEF Build
  <2>2. CASE UNCHANGED mapVars
    <3>1. TablesHold' /\ Inserting'
      BY <2>1, <2>2, Idle
    <3> QED BY <2>1, <2>2, <3>1, InvNext
  <2>3. CASE \E j \in Maps \cap Ops, e \in Elements :
                /\ StartInsert(j, e) /\ Is(j, "join") /\ e[2] \in TuplesOf(Kid(j, 1))
                /\ Building' /\ top'.at = j
    <3>1. TablesHold' /\ Inserting'
      BY <2>1, <2>3, Started
    <3>2. MapNext
      BY <2>3 DEF MapNext
    <3> QED BY <2>1, <3>1, <3>2, InvNext
  <2> QED BY <1>3, <2>2, <2>3, BuildStep
<1>4. CASE Insert
  <2>1. StepOK /\ q' = q /\ (Rehash \/ FinishInsert) /\ stack' = stack /\ data' = data
    BY <1>4, InsertStep
  <2>2. tables' = tables
    BY <1>4 DEF Insert
  <2>3. TablesHold' /\ Inserting'
    BY <2>1, Inserted
  <2>4. MapNext
    BY <2>1 DEF MapNext
  <2> QED BY <2>1, <2>2, <2>3, <2>4, InvNext
<1>5. CASE UNCHANGED vars
  <2>1. /\ q' = q /\ tables' = tables /\ UNCHANGED mapVars /\ stack' = stack /\ blocks' = blocks
        /\ data' = data /\ maps' = maps /\ ins' = ins
    BY <1>5 DEF vars, mapVars
  <2>2. StepOK
    BY <2>1 DEF StepOK, InterpreterInv
  <2>3. /\ plan' = plan /\ Ops' = Ops /\ \A n : TuplesOf(n)' = TuplesOf(n)
    BY <2>1, SamePlan
  <2>4. TablesHold' /\ Inserting'
    <3>1. \A m, n : Holds(m, n)' = Holds(m, n)
      BY <2>3 DEF Holds, Kid
    <3>2. TablesHold'
      BY <2>1, <2>3, <3>1 DEF InterpreterInv, TablesHold, Is
    <3>3. Building' = Building /\ top' = top
      BY <2>1, <2>3 DEF Building, At, Is, top
    <3>4. TuplesOf(Kid(ins.into, 1))' = TuplesOf(Kid(ins.into, 1))
      BY <2>1, <2>3 DEF Kid
    <3>5. Holds(ins.old, ins.into)' = Holds(ins.old, ins.into)
      BY <2>1, <3>1
    <3> QED BY <2>1, <3>2, <3>3, <3>4, <3>5 DEF InterpreterInv, Inserting
  <2> QED BY <2>1, <2>2, <2>4, InvNext
<1> QED BY <1>1, <1>2, <1>3, <1>4, <1>5 DEF Next, Walk, Visiting, Done
-----------------------------------------------------------------------------
(* The initial states: no plan has a tuple yet but those of its tables, and *)
(* the one group of an aggregation.                                         *)
LEMMA RowsTyped ==
  ASSUME PlanOK, NEW n \in Scans, NEW t \in Rows(n)
  PROVE  [i \in 1..Len(t) |-> Single(n, i, t[i])] \in Seq(TuplesOf(n))
<1>1. n \in Ops /\ Is(n, "scan") /\ HasArity(plan[n]) /\ IsTyped(plan, n)
  BY PlanFacts DEF Scans
<1>2. Len(plan[n].kids) = 0 /\ plan[n].max \in Nat
  BY <1>1 DEF HasArity, Is
<1>3. plan[n].kids \in Seq(1..(n - 1))
  BY <1>1, Kids
<1>4. plan[n].kids = << >>
  BY <1>2, <1>3, EmptySeq
<1>5. plan[n].schema = {n}
  BY <1>1, <1>4 DEF IsTyped
<1>6. PICK k \in 0..plan[n].max : t \in [1..k -> Domain]
  BY DEF Rows
<1>7. k \in Nat
  BY <1>2, <1>6
<1>8. t \in Seq(Domain) /\ Len(t) = k
  BY <1>6, <1>7
<1>9. \A i \in 1..Len(t) : Single(n, i, t[i]) \in TuplesOf(n)
  <2>1. ASSUME NEW i \in 1..k PROVE Single(n, i, t[i]) \in Tuples({n})
    <3>1. i \in Nat /\ t[i] \in Domain
      BY <1>6, <1>7, <2>1
    <3> QED BY <3>1, SingleTyped
  <2> QED BY <1>5, <1>8, <2>1 DEF TuplesOf
<1> QED BY <1>7, <1>8, <1>9

LEMMA InitMaps ==
  ASSUME PlanOK, Init
  PROVE  MapInit /\ MapInv /\ TablesHold /\ ins.element = NoElement
<1>1. PICK c \in Capacities : maps = [j \in Maps |-> EmptyMap(c)]
  BY DEF Init
<1>2. Root \in Maps /\ Ops \subseteq Maps
  BY PlanFacts
<1>3. ins = [into |-> Root, element |-> NoElement, old |-> EmptyMap(0), runner |-> 0]
  BY DEF Init
<1>4. MapInit
  <2>1. maps \in [Maps -> {EmptyMap(x) : x \in Capacities}]
    BY <1>1
  <2>2. ins \in [into : Maps, element : {NoElement}, old : {EmptyMap(0)}, runner : {0}]
    BY <1>2, <1>3
  <2> QED BY <2>1, <2>2 DEF MapInit
<1>5. TablesHold
  <2>1. c \in Nat
    BY CapacitiesAssumption
  <2>2. Occupied(EmptyMap(c)) = {}
    BY <2>1, EmptyIsMap
  <2> QED BY <1>1, <1>2, <2>2 DEF TablesHold, Holds
<1> QED BY <1>3, <1>4, <1>5, InitInv

LEMMA InitStack ==
  ASSUME PlanOK, Init
  PROVE  StackOK(stack, data, blocks, maps)
<1>1. Root \in Ops /\ UpFrom(Root) = {Root}
  BY PlanFacts, UpFromRoot
<1> DEFINE f == Running(Root)
<1>2. f.do = "run" /\ f.at = Root /\ stack = << f >>
  BY DEF Running, Init
<1> HIDE DEF f
<1>3. Steered(f, data)
  BY <1>1, <1>2 DEF Steered
<1>4. f \in Frame /\ FrameOK(f, data, blocks, maps)
  BY <1>1, <1>3, RunningOK DEF f
<1>5. stack \in Seq(Frame) /\ Len(stack) = 1 /\ \A k \in 1..Len(stack) : stack[k] = f
  BY <1>2, <1>4
<1>6. Frames(stack) = {f}
  BY <1>5 DEF Frames
<1>7. Stacked(stack)
  <2>1. \A k \in 1..Len(stack) : Deeper(stack, k) = {}
    BY <1>5 DEF Deeper
  <2>2. Placed(f, {})
    BY <1>1, <1>2 DEF Placed
  <2> QED BY <1>5, <2>1, <2>2 DEF Stacked
<1> QED BY <1>4, <1>5, <1>6, <1>7 DEF StackOK

LEMMA InitHolds == Init => InterpreterInv
<1> SUFFICES ASSUME Init PROVE InterpreterInv
  OBVIOUS
<1>1. PlanOK
  BY DEF Init, PlanOK
<1>2. TablesOK
  <2>1. PICK t \in [Scans -> UNION {Rows(n) : n \in Scans}] :
          /\ \A n \in Scans : t[n] \in Rows(n)
          /\ tables = [n \in Scans |-> [i \in 1..Len(t[n]) |-> Single(n, i, t[n][i])]]
    BY DEF Init
  <2> QED BY <1>1, <2>1, RowsTyped DEF TablesOK
<1>3. BlocksOK(blocks)
  <2>1. 0 \in BlockSlots
    BY FirstSlotsInBlock, CapacityAssumption
  <2>2. blocks = [n \in Ops |-> [row |-> [s \in BlockSlots |-> NoRow], mask |-> {0}]]
    BY DEF Init
  <2> QED BY <2>1, <2>2 DEF BlocksOK
<1>4. DataOK(data)
  <2>1. data = [n \in Ops |->
          [fed |-> FALSE, count |-> 0, active |-> 0,
           rows |-> IF Is(n, "aggregate") THEN << Single(n, 0, 0) >> ELSE << >>]]
    BY DEF Init
  <2>2. ASSUME NEW n \in Ops PROVE data[n].rows \in Seq(KeptBy(n)) /\ data[n].rows \in Seq(AnyTuple)
    <3>1. CASE Is(n, "aggregate")
      <4>1. IsTyped(plan, n)
        BY <1>1, PlanFacts
      <4>2. plan[n].schema = {n} /\ KeptBy(n) = TuplesOf(n)
        BY <3>1, <4>1 DEF IsTyped, Is, KeptBy
      <4>3. 0 \in Domain /\ 0 \in Nat
        BY DomainAssumption DEF DomainAssumption
      <4>4. Single(n, 0, 0) \in TuplesOf(n) /\ Single(n, 0, 0) \in AnyTuple
        BY <4>2, <4>3, SingleTyped DEF TuplesOf, AnyTuple
      <4>5. data[n].rows = << Single(n, 0, 0) >>
        BY <2>1, <3>1
      <4> QED BY <4>2, <4>4, <4>5
    <3>2. CASE ~Is(n, "aggregate")
      <4>1. data[n].rows = << >>
        BY <2>1, <3>2
      <4> QED BY <4>1, EmptySeq
    <3> QED BY <3>1, <3>2
  <2>3. data \in [Ops -> Datum]
    <3>1. ASSUME NEW n \in Ops PROVE data[n] \in Datum
      <4>1. data[n] = [fed |-> FALSE, count |-> 0, active |-> 0, rows |-> data[n].rows]
        BY <2>1
      <4> DEFINE rs == data[n].rows
      <4>2. data[n] = [fed |-> FALSE, count |-> 0, active |-> 0, rows |-> rs] /\ rs \in Seq(AnyTuple)
        BY <2>2, <4>1
      <4>3. FALSE \in BOOLEAN /\ 0 \in Nat /\ 0 \in 0..2
        OBVIOUS
      <4> HIDE DEF rs
      <4> QED BY <4>2, <4>3 DEF Datum
    <3> QED BY <2>1, <3>1
  <2> QED BY <2>2, <2>3 DEF DataOK
<1>5. MapInv /\ TablesHold /\ ins.element = NoElement
  BY <1>1, InitMaps
<1>6. StackOK(stack, data, blocks, maps)
  BY <1>1, InitStack
<1> QED BY <1>1, <1>2, <1>3, <1>4, <1>5, <1>6 DEF InterpreterInv, Inserting
-----------------------------------------------------------------------------
(* What holds in every state of a run of a plan. *)

(* Runs stand below pushes on the stack and pushes climb up the plan, so   *)
(* that no block, buffer or table that a visitor further down still reads  *)
(* is written by those above it; every block, buffer and table holds       *)
(* tuples of the schema that its operator was given.                       *)
THEOREM InterpreterInvariant ==
  ASSUME Storable
  PROVE  Spec => []InterpreterInv
<1>1. InterpreterInv /\ [Next]_vars => InterpreterInv'
  BY NextKeeps
<1> QED BY InitHolds, <1>1, PTL DEF Spec

(* The joins use their hash tables as RefCountingHashMap says: one          *)
(* insertion at a time, of an element of the table.                         *)
THEOREM JoinsUseTheMap ==
  ASSUME Storable
  PROVE  Spec => MapSpec
<1>1. Init => MapInit
  BY InitHolds, InitMaps DEF InterpreterInv
<1>2. InterpreterInv /\ [Next]_vars => [MapNext]_mapVars
  BY NextKeeps
<1> QED BY <1>1, <1>2, InterpreterInvariant, PTL DEF Spec, MapSpec

(* No probe of a join misses a match, also while pipelines are nested.     *)
THEOREM JoinLookupsComplete ==
  ASSUME Storable
  PROVE  Spec => []LookupsComplete
BY JoinsUseTheMap, NoLookupMisses, PTL

(* No tuple that a join has built is lost while its table grows.           *)
THEOREM JoinsLoseNothing ==
  ASSUME Storable
  PROVE  Spec => NothingLost
BY JoinsUseTheMap, InsertionsLoseNothing, PTL

(* The slot that a match is written to is alive, and a table that is       *)
(* rehashed stays below its watermark: what M_insist says in the visitor   *)
(* of a join and in the hash table.                                        *)
THEOREM InsistsNeverFail ==
  ASSUME Storable
  PROVE  Spec => []InsistsHold
<1>1. InterpreterInv => SlotsAlive
  <2> SUFFICES ASSUME InterpreterInv, stack # << >>, Probing, top.hits # {}, ~BlockFull(top)
               PROVE  top.i \in blocks[top.at].mask
    BY DEF SlotsAlive
  <2>1. Probes(top, blocks, maps) /\ top.i \in Nat
    BY ProbingFacts
  <2>2. blocks[top.at].mask = BlockSlots /\ top.i <= C /\ top.i # C
    BY <2>1 DEF Probes, BlockFull
  <2> QED BY <2>1, <2>2, CapacityAssumption DEF BlockSlots
<1>2. SlotsAlive /\ BelowWatermark => InsistsHold
  BY DEF InsistsHold
<1> QED BY <1>1, <1>2, InterpreterInvariant, JoinsUseTheMap, RehashedBelow, PTL

(* Whenever a limit visits a block, and may throw, the run of a limit is   *)
(* on the stack to catch the exception: it never leaves the interpreter.   *)
THEOREM LimitsAreCaught ==
  ASSUME Storable
  PROVE  Spec => [](stack # << >> /\ At("push", "limit") => \E k \in 1..Len(stack) : Catches(stack[k]))
<1>1. InterpreterInv =>
        (stack # << >> /\ At("push", "limit") => \E k \in 1..Len(stack) : Catches(stack[k]))
  BY Caught DEF At
<1> QED BY <1>1, InterpreterInvariant, PTL
=============================================================================
