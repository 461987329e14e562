------------------------ MODULE RefCountingHashMapProofs ------------------------
(* Proofs about RefCountingHashMap, for every hash function, every number  *)
(* of maps and every capacity that they may have at first.                 *)
EXTENDS RefCountingHashMap, FiniteSetTheorems, TLAPS

(* Between insertions nothing is left of an old table, and the occupied    *)
(* slots of an old table hold elements.                                    *)
OldTable ==
  /\ ins.element = NoElement => ins.old = EmptyMap(0)
  /\ \A s \in Occupied(ins.old) : ins.old.at[s] \in Elements
MapInv == MapTypeOK /\ LookupsComplete /\ OldTable

LEMMA ModuloRange == ASSUME NEW x \in Int, NEW c \in Nat \ {0} PROVE x % c \in 0..(c - 1)
  OBVIOUS

LEMMA ModuloId == ASSUME NEW c \in Nat \ {0}, NEW x \in 0..(c - 1) PROVE x % c = x
  OBVIOUS

LEMMA HalfInt == ASSUME NEW x \in Int PROVE x \div 2 \in Int
  OBVIOUS

(* A probe is a slot, and the first probe of a bucket is its own slot. *)
LEMMA ProbeSlot ==
  ASSUME NEW m, m.capacity \in Nat \ {0}, NEW b \in Slots(m), NEW p \in Nat
  PROVE  Probe(m, b, p) \in Slots(m) /\ Probe(m, b, 0) = b
<1>1. p * (p + 1) \in Int
  OBVIOUS
<1>2. (p * (p + 1)) \div 2 \in Int
  BY <1>1, HalfInt
<1>3. b + (p * (p + 1)) \div 2 \in Int
  BY <1>2 DEF Slots
<1>4. Probe(m, b, p) \in Slots(m)
  BY <1>3, ModuloRange DEF Probe, Slots
<1>5. b + (0 * (0 + 1)) \div 2 = b
  BY DEF Slots
<1> QED BY <1>4, <1>5, ModuloId DEF Probe, Slots

LEMMA BucketSlot ==
  ASSUME NEW m, m.capacity \in Nat \ {0}, NEW k \in Keys
  PROVE  Bucket(m, k) \in Slots(m)
<1>1. Hash[k] \in Int /\ m.capacity \in Nat \ {0}
  BY HashAssumption
<1> QED BY <1>1, ModuloRange DEF Bucket, Slots

LEMMA EmptyIsMap ==
  ASSUME NEW c \in Nat
  PROVE  /\ IsMap(EmptyMap(c)) /\ EmptyMap(c).capacity = c /\ Occupied(EmptyMap(c)) = {}
         /\ c # 0 => BucketsOccupied(EmptyMap(c)) /\ ElementsReachable(EmptyMap(c))
BY DEF IsMap, EmptyMap, Occupied, Slots, BucketsOccupied, ElementsReachable

(* Placing an element in the slot that the probing finds keeps the map     *)
(* complete: the probe length of its bucket grows over the slots of other  *)
(* buckets that were passed, and no other bucket shrinks.                  *)
LEMMA Placing ==
  ASSUME NEW m, IsMap(m), m.capacity # 0, BucketsOccupied(m), ElementsReachable(m),
         NEW e \in Elements, NEW b, b = Bucket(m, e[1]),
         NEW p \in m.len[b]..(m.capacity - 1), FirstFree(m, b, p),
         NEW n, n = PlaceAt(m, e, b, p)
  PROVE  /\ IsMap(n) /\ n.capacity = m.capacity
         /\ BucketsOccupied(n) /\ ElementsReachable(n)
         /\ HeldBy(m, 0) \cup {e} \subseteq HeldBy(n, 0)
<1> DEFINE s == Probe(m, b, p)
<1>1. m.capacity \in Nat \ {0} /\ Slots(m) = 0..(m.capacity - 1)
  BY DEF IsMap, Slots
<1>2. e[1] \in Keys /\ b \in Slots(m)
  BY <1>1, BucketSlot DEF Elements
<1>3. m.len \in [Slots(m) -> Nat] /\ m.at \in [Slots(m) -> Elements \cup {NoElement}]
  BY DEF IsMap
<1>4. p \in Nat /\ m.len[b] \in Nat /\ m.len[b] <= p
  BY <1>1, <1>2, <1>3
<1>5. s \in Slots(m) /\ Probe(m, b, 0) = b
  BY <1>1, <1>2, <1>4, ProbeSlot
<1>6. m.len[s] = 0 /\ \A x \in m.len[b]..(p - 1) : m.len[Probe(m, b, x)] # 0
  BY DEF FirstFree
<1>7. /\ n.capacity = m.capacity
      /\ n.len = [[m.len EXCEPT ![s] = 1] EXCEPT ![b] = p + 1]
      /\ n.at = [m.at EXCEPT ![s] = e]
      /\ n = [capacity |-> n.capacity, len |-> n.len, at |-> n.at]
      /\ Slots(n) = Slots(m)
  <2>1. n = [m EXCEPT !.len = [@ EXCEPT ![s] = 1, ![b] = p + 1], !.at = [@ EXCEPT ![s] = e]]
    BY DEF PlaceAt
  <2>2. m = [capacity |-> m.capacity, len |-> m.len, at |-> m.at]
    BY DEF IsMap
  <2> HIDE DEF s
  <2>3. n = [capacity |-> m.capacity,
             len |-> [[m.len EXCEPT ![s] = 1] EXCEPT ![b] = p + 1],
             at |-> [m.at EXCEPT ![s] = e]]
    BY <2>1, <2>2
  <2> QED BY <2>3 DEF Slots
<1> HIDE DEF s
<1>8. /\ n.len \in [Slots(m) -> Nat] /\ n.len[b] = p + 1
      /\ s # b => n.len[s] = 1
      /\ \A c \in Slots(m) : c # s /\ c # b => n.len[c] = m.len[c]
  BY <1>2, <1>3, <1>4, <1>5, <1>7
<1>9. IsMap(n)
  <2>1. n.at \in [Slots(m) -> Elements \cup {NoElement}]
    BY <1>3, <1>5, <1>7
  <2> QED BY <1>1, <1>7, <1>8, <2>1 DEF IsMap
<1>10. \A c \in Slots(m), x \in Nat : Probe(n, c, x) = Probe(m, c, x) /\ Probe(m, c, x) \in Slots(m)
                                      /\ Probe(m, c, 0) = c
  BY <1>1, <1>7, ProbeSlot DEF Probe
<1>11. \A c \in Slots(m) : m.len[c] # 0 => n.len[c] # 0
  BY <1>4, <1>6, <1>8
<1>12. n.len[s] # 0
  BY <1>4, <1>8
<1>13. BucketsOccupied(n)
  <2> SUFFICES ASSUME NEW c \in Slots(m), NEW x \in 0..(n.len[c] - 1)
               PROVE  n.len[Probe(m, c, x)] # 0
    <3>1. \A c \in Slots(m) : \A x \in 0..(n.len[c] - 1) : n.len[Probe(m, c, x)] # 0
      OBVIOUS
    <3>2. \A c \in Slots(m) : n.len[c] \in Nat
      BY <1>8
    <3>3. \A c \in Slots(m) : \A x \in 0..(n.len[c] - 1) : x \in Nat /\ Probe(n, c, x) = Probe(m, c, x)
      BY <3>2, <1>10
    <3> QED BY <3>1, <3>3, <1>7 DEF BucketsOccupied
  <2>1. x \in Nat /\ n.len[c] \in Nat
    BY <1>8
  <2>2. CASE c = b
    <3>1. CASE x = p
      BY <2>2, <3>1, <1>12 DEF s
    <3>2. CASE x < m.len[b]
      <4>1. m.len[Probe(m, b, x)] # 0
        BY <1>2, <1>4, <2>1, <3>2 DEF BucketsOccupied
      <4> QED BY <2>1, <2>2, <4>1, <1>10, <1>11, <1>2
    <3>3. CASE m.len[b] <= x /\ x < p
      <4>1. m.len[Probe(m, b, x)] # 0
        BY <1>4, <1>6, <2>1, <3>3
      <4> QED BY <2>1, <2>2, <4>1, <1>10, <1>11, <1>2
    <3> QED BY <1>4, <1>8, <2>1, <2>2, <3>1, <3>2, <3>3
  <2>3. CASE c = s /\ c # b
    <3>1. x = 0
      BY <1>8, <2>1, <2>3
    <3> QED BY <3>1, <2>3, <1>10, <1>12
  <2>4. CASE c # s /\ c # b
    <3>1. n.len[c] = m.len[c]
      BY <1>8, <2>4
    <3>2. m.len[Probe(m, c, x)] # 0
      BY <3>1 DEF BucketsOccupied
    <3> QED BY <3>2, <1>10, <1>11, <2>1
  <2> QED BY <2>2, <2>3, <2>4
<1>14. \A c \in Slots(m) : m.len[c] <= n.len[c]
  BY <1>3, <1>4, <1>6, <1>8
<1>15. \A c \in Slots(m) : n.len[c] # 0 /\ c # s => m.len[c] # 0
  <2> SUFFICES ASSUME s # b, m.len[b] = 0 PROVE FALSE
    BY <1>8
  <2>1. p # 0
    BY <1>5 DEF s
  <2>2. 0 \in m.len[b]..(p - 1)
    BY <1>4, <2>1
  <2> QED BY <2>2, <1>5, <1>6
<1>16. \A k \in Keys : Bucket(n, k) = Bucket(m, k) /\ Bucket(m, k) \in Slots(m)
  BY <1>1, <1>7, BucketSlot DEF Bucket
<1>17. ElementsReachable(n)
  <2> SUFFICES ASSUME NEW t \in Slots(m), n.len[t] # 0
               PROVE  /\ n.at[t] \in Elements
                      /\ LET c == Bucket(n, n.at[t][1])
                         IN  \E x \in 0..(n.len[c] - 1) : Probe(n, c, x) = t
    BY <1>7 DEF ElementsReachable, Occupied
  <2>1. CASE t = s
    <3>1. n.at[t] = e
      BY <1>3, <1>5, <1>7, <2>1
    <3>2. p \in 0..(n.len[b] - 1) /\ Probe(n, b, p) = t
      BY <1>2, <1>4, <1>8, <1>10, <2>1 DEF s
    <3>3. Bucket(n, e[1]) = b
      BY <1>2, <1>16
    <3> QED BY <3>1, <3>2, <3>3
  <2>2. CASE t # s
    <3>1. n.at[t] = m.at[t] /\ t \in Occupied(m)
      BY <1>3, <1>5, <1>7, <1>15, <2>2 DEF Occupied
    <3>2. m.at[t] \in Elements /\ m.at[t][1] \in Keys
      BY <3>1 DEF ElementsReachable, Elements
    <3> DEFINE c == Bucket(m, m.at[t][1])
    <3>3. PICK x \in 0..(m.len[c] - 1) : Probe(m, c, x) = t
      BY <3>1 DEF ElementsReachable
    <3>4. c \in Slots(m) /\ Bucket(n, n.at[t][1]) = c
      BY <3>1, <3>2, <1>16
    <3> HIDE DEF c
    <3>5. x \in 0..(n.len[c] - 1) /\ Probe(n, c, x) = t
      <4>1. m.len[c] \in Nat /\ n.len[c] \in Nat /\ m.len[c] <= n.len[c]
        BY <1>3, <1>8, <1>14, <3>4
      <4>2. x \in Nat /\ x \in 0..(n.len[c] - 1)
        BY <4>1, <3>3
      <4> QED BY <4>2, <1>10, <3>3, <3>4
    <3> QED BY <3>1, <3>2, <3>4, <3>5
  <2> QED BY <2>1, <2>2
<1>18. HeldBy(m, 0) \cup {e} \subseteq HeldBy(n, 0)
  <2>1. e \in HeldBy(n, 0)
    <3>1. s \in Occupied(n) /\ s >= 0 /\ n.at[s] = e
      BY <1>1, <1>3, <1>5, <1>7, <1>12 DEF Occupied
    <3> QED BY <3>1 DEF HeldBy
  <2>2. ASSUME NEW t \in Occupied(m) PROVE m.at[t] \in HeldBy(n, 0)
    <3>1. t \in Occupied(n) /\ t >= 0 /\ n.at[t] = m.at[t]
      BY <2>2, <1>1, <1>3, <1>5, <1>6, <1>7, <1>11 DEF Occupied
    <3> QED BY <3>1 DEF HeldBy
  <2> QED BY <2>1, <2>2 DEF HeldBy
<1> QED BY <1>7, <1>9, <1>13, <1>17, <1>18

-----------------------------------------------------------------------------
LEMMA InitInv == MapInit => MapInv
<1> SUFFICES ASSUME MapInit PROVE MapInv
  OBVIOUS
<1>1. \A j \in Maps : \E c \in Nat \ {0} : maps[j] = EmptyMap(c)
  BY CapacitiesAssumption DEF MapInit
<1>2. \A j \in Maps : IsMap(maps[j]) /\ maps[j].capacity # 0
                      /\ BucketsOccupied(maps[j]) /\ ElementsReachable(maps[j])
  BY <1>1, EmptyIsMap
<1>3. IsMap(EmptyMap(0)) /\ Occupied(EmptyMap(0)) = {}
  BY EmptyIsMap
<1>4. /\ ins = [into |-> ins.into, element |-> ins.element, old |-> ins.old, runner |-> ins.runner]
      /\ ins.into \in Maps /\ ins.element = NoElement /\ ins.old = EmptyMap(0) /\ ins.runner = 0
  BY DEF MapInit
<1>5. maps = [j \in Maps |-> maps[j]]
  BY DEF MapInit
<1> QED BY <1>2, <1>3, <1>4, <1>5 DEF MapInv, MapTypeOK, LookupsComplete, OldTable

(* What a step that places an element does to the map that it goes into,   *)
(* and to the others.                                                      *)
LEMMA PlaceStep ==
  ASSUME MapInv, NEW j \in Maps, NEW e \in Elements, Place(j, e)
  PROVE  /\ maps' = [k \in Maps |-> maps'[k]]
         /\ \A k \in Maps : /\ IsMap(maps'[k]) /\ maps'[k].capacity # 0
                            /\ BucketsOccupied(maps'[k]) /\ ElementsReachable(maps'[k])
                            /\ HeldBy(maps[k], 0) \subseteq HeldBy(maps'[k], 0)
         /\ e \in HeldBy(maps'[j], 0)
<1> DEFINE m == maps[j]  b == Bucket(m, e[1])
<1>1. PICK p \in m.len[b]..(m.capacity - 1) :
        FirstFree(m, b, p) /\ maps' = [maps EXCEPT ![j] = PlaceAt(m, e, b, p)]
  BY DEF Place
<1>2. /\ maps = [k \in Maps |-> maps[k]]
      /\ \A k \in Maps : /\ IsMap(maps[k]) /\ maps[k].capacity # 0
                         /\ BucketsOccupied(maps[k]) /\ ElementsReachable(maps[k])
  BY DEF MapInv, MapTypeOK, LookupsComplete
<1>3. /\ maps' = [k \in Maps |-> maps'[k]]
      /\ maps'[j] = PlaceAt(m, e, b, p)
      /\ \A k \in Maps : k # j => maps'[k] = maps[k]
  <2> HIDE DEF m, b
  <2> QED BY <1>1, <1>2
<1>4. IsMap(m) /\ m.capacity # 0 /\ BucketsOccupied(m) /\ ElementsReachable(m)
  BY <1>2
<1>5. /\ IsMap(maps'[j]) /\ maps'[j].capacity = m.capacity
      /\ BucketsOccupied(maps'[j]) /\ ElementsReachable(maps'[j])
      /\ HeldBy(m, 0) \cup {e} \subseteq HeldBy(maps'[j], 0)
  <2> DEFINE n == maps'[j]
  <2> HIDE DEF m, n
  <2>1. b = Bucket(m, e[1])
    OBVIOUS
  <2>2. n = PlaceAt(m, e, b, p)
    BY <1>3 DEF n
  <2> HIDE DEF b
  <2>3. /\ IsMap(n) /\ n.capacity = m.capacity /\ BucketsOccupied(n) /\ ElementsReachable(n)
        /\ HeldBy(m, 0) \cup {e} \subseteq HeldBy(n, 0)
    BY <1>1, <1>4, <2>1, <2>2, Placing
  <2> QED BY <2>3 DEF n
<1> QED BY <1>2, <1>3, <1>4, <1>5

(* One insertion step at a time: the invariant is kept and nothing is lost. *)
Kept == \A j \in Maps : Held(j) \subseteq Held(j)'

LEMMA StartStep ==
  ASSUME MapInv, NEW j \in Maps, NEW e \in Elements, StartInsert(j, e)
  PROVE  MapInv' /\ Kept
<1>1. /\ maps = [k \in Maps |-> maps[k]] /\ ins.element = NoElement /\ ins.old = EmptyMap(0)
      /\ \A k \in Maps : /\ IsMap(maps[k]) /\ maps[k].capacity # 0
                         /\ BucketsOccupied(maps[k]) /\ ElementsReachable(maps[k])
  BY DEF MapInv, MapTypeOK, LookupsComplete, OldTable, StartInsert
<1>2. e # NoElement
  BY NoElementAssumption
<1>3. \A k \in Maps : Held(k) = HeldBy(maps[k], 0)
  BY <1>1, EmptyIsMap DEF Held, HeldBy
<1>4. CASE Full(maps[j])
  <2>1. /\ maps' = [maps EXCEPT ![j] = EmptyMap(2 * maps[j].capacity)]
        /\ ins' = [into |-> j, element |-> e, old |-> maps[j], runner |-> 0]
    BY <1>4 DEF StartInsert
  <2>2. 2 * maps[j].capacity \in Nat \ {0}
    BY <1>1 DEF IsMap
  <2> DEFINE c == 2 * maps[j].capacity
  <2> HIDE DEF c
  <2>3. /\ maps' = [k \in Maps |-> maps'[k]] /\ maps'[j] = EmptyMap(c)
        /\ \A k \in Maps : k # j => maps'[k] = maps[k]
    BY <1>1, <2>1 DEF c
  <2>4. IsMap(EmptyMap(c)) /\ EmptyMap(c).capacity # 0
        /\ BucketsOccupied(EmptyMap(c)) /\ ElementsReachable(EmptyMap(c))
    BY <2>2, EmptyIsMap DEF c
  <2>5. \A k \in Maps : /\ IsMap(maps'[k]) /\ maps'[k].capacity # 0
                        /\ BucketsOccupied(maps'[k]) /\ ElementsReachable(maps'[k])
    BY <1>1, <2>3, <2>4
  <2>6. \A s \in Occupied(maps[j]) : maps[j].at[s] \in Elements
    BY <1>1 DEF ElementsReachable
  <2>7. MapInv'
    BY <1>1, <1>2, <2>1, <2>3, <2>5, <2>6 DEF MapInv, MapTypeOK, LookupsComplete, OldTable
  <2>8. ASSUME NEW k \in Maps PROVE Held(k) \subseteq Held(k)'
    <3>1. CASE k = j
      BY <1>3, <2>1, <3>1 DEF Held
    <3>2. CASE k # j
      BY <1>3, <2>3, <2>8, <3>2 DEF Held
    <3> QED BY <3>1, <3>2
  <2> QED BY <2>7, <2>8 DEF Kept
<1>5. CASE ~Full(maps[j])
  <2>1. maps' = maps /\ ins' = [into |-> j, element |-> e, old |-> EmptyMap(0), runner |-> 0]
    BY <1>5 DEF StartInsert
  <2>2. MapInv'
    BY <1>1, <1>2, <2>1, EmptyIsMap DEF MapInv, MapTypeOK, LookupsComplete, OldTable
  <2>3. Kept
    BY <1>3, <2>1 DEF Kept, Held
  <2> QED BY <2>2, <2>3
<1> QED BY <1>4, <1>5

LEMMA RehashStep == ASSUME MapInv, Rehash PROVE MapInv' /\ Kept
<1> DEFINE e == ins.old.at[ins.runner]
<1>1. /\ ins = [into |-> ins.into, element |-> ins.element, old |-> ins.old, runner |-> ins.runner]
      /\ ins.into \in Maps /\ ins.element \in Elements \cup {NoElement}
      /\ IsMap(ins.old) /\ ins.runner \in Nat /\ ins.element # NoElement
      /\ \A s \in Occupied(ins.old) : ins.old.at[s] \in Elements
  BY DEF MapInv, MapTypeOK, OldTable, Rehash
<1>2. /\ ins'.into = ins.into /\ ins'.element = ins.element /\ ins'.old = ins.old
      /\ ins'.runner = ins.runner + 1
      /\ ins' = [into |-> ins'.into, element |-> ins'.element, old |-> ins'.old, runner |-> ins'.runner]
  <2>1. ins' = [ins EXCEPT !.runner = @ + 1]
    BY DEF Rehash
  <2> QED BY <1>1, <2>1
<1>3. /\ maps' = [k \in Maps |-> maps'[k]]
      /\ \A k \in Maps : /\ IsMap(maps'[k]) /\ maps'[k].capacity # 0
                         /\ BucketsOccupied(maps'[k]) /\ ElementsReachable(maps'[k])
                         /\ HeldBy(maps[k], 0) \subseteq HeldBy(maps'[k], 0)
      /\ ins.runner \in Occupied(ins.old) => e \in HeldBy(maps'[ins.into], 0)
  <2>1. CASE ins.old.len[ins.runner] = 0
    <3>1. maps' = maps /\ ins.runner \notin Occupied(ins.old)
      BY <2>1 DEF Rehash, Occupied
    <3> QED BY <3>1 DEF MapInv, MapTypeOK, LookupsComplete
  <2>2. CASE ins.old.len[ins.runner] # 0
    <3>1. ins.runner \in Occupied(ins.old) /\ Place(ins.into, e)
      BY <2>2 DEF Rehash, Occupied
    <3>2. e \in Elements
      BY <1>1, <3>1
    <3> HIDE DEF e
    <3> QED BY <1>1, <3>1, <3>2, PlaceStep
  <2> QED BY <2>1, <2>2
<1>4. MapInv'
  BY <1>1, <1>2, <1>3 DEF MapInv, MapTypeOK, LookupsComplete, OldTable
<1>5. HeldBy(ins.old, ins.runner) \subseteq HeldBy(ins.old, ins.runner + 1) \cup HeldBy(maps'[ins.into], 0)
  <2> SUFFICES ASSUME NEW s \in Occupied(ins.old), s >= ins.runner
               PROVE  ins.old.at[s] \in HeldBy(ins.old, ins.runner + 1) \cup HeldBy(maps'[ins.into], 0)
    BY DEF HeldBy
  <2>1. CASE s = ins.runner
    BY <1>3, <2>1
  <2>2. CASE s # ins.runner
    <3>1. s \in Nat
      BY <1>1 DEF Occupied, Slots, IsMap
    <3>2. s >= ins.runner + 1
      BY <1>1, <2>2, <3>1
    <3> QED BY <3>2 DEF HeldBy
  <2> QED BY <2>1, <2>2
<1>6. Kept
  <2> SUFFICES ASSUME NEW k \in Maps PROVE Held(k) \subseteq Held(k)'
    BY DEF Kept
  <2> QED BY <1>2, <1>3, <1>5 DEF Held
<1> QED BY <1>4, <1>6

LEMMA FinishStep == ASSUME MapInv, FinishInsert PROVE MapInv' /\ Kept
<1>1. /\ ins = [into |-> ins.into, element |-> ins.element, old |-> ins.old, runner |-> ins.runner]
      /\ ins.into \in Maps /\ ins.element \in Elements
      /\ IsMap(ins.old) /\ ins.runner \in Nat /\ ins.runner \notin Slots(ins.old)
  BY DEF MapInv, MapTypeOK, FinishInsert
<1>2. /\ ins'.into = ins.into /\ ins'.element = NoElement /\ ins'.old = EmptyMap(0) /\ ins'.runner = 0
      /\ ins' = [into |-> ins'.into, element |-> ins'.element, old |-> ins'.old, runner |-> ins'.runner]
  <2>1. ins' = [ins EXCEPT !.element = NoElement, !.old = EmptyMap(0), !.runner = 0]
    BY DEF FinishInsert
  <2> QED BY <1>1, <2>1
<1>3. Place(ins.into, ins.element)
  BY DEF FinishInsert
<1>4. /\ maps' = [k \in Maps |-> maps'[k]]
      /\ \A k \in Maps : /\ IsMap(maps'[k]) /\ maps'[k].capacity # 0
                         /\ BucketsOccupied(maps'[k]) /\ ElementsReachable(maps'[k])
                         /\ HeldBy(maps[k], 0) \subseteq HeldBy(maps'[k], 0)
      /\ ins.element \in HeldBy(maps'[ins.into], 0)
  BY <1>1, <1>3, PlaceStep
<1>5. IsMap(EmptyMap(0)) /\ Occupied(EmptyMap(0)) = {}
  BY EmptyIsMap
<1>6. MapInv'
  BY <1>1, <1>2, <1>4, <1>5 DEF MapInv, MapTypeOK, LookupsComplete, OldTable
<1>7. HeldBy(ins.old, ins.runner) = {}
  <2> SUFFICES ASSUME NEW s \in Occupied(ins.old), s >= ins.runner PROVE FALSE
    BY DEF HeldBy
  <2>1. s \in 0..(ins.old.capacity - 1) /\ ins.old.capacity \in Nat
    BY <1>1 DEF Occupied, Slots, IsMap
  <2> QED BY <1>1, <2>1 DEF Slots
<1>8. Kept
  <2> SUFFICES ASSUME NEW k \in Maps PROVE Held(k) \subseteq Held(k)'
    BY DEF Kept
  <2> QED BY <1>2, <1>4, <1>7 DEF Held
<1> QED BY <1>6, <1>8

LEMMA StepKeeps == MapInv /\ [MapNext]_mapVars => MapInv' /\ (Kept \/ UNCHANGED mapVars)
<1> SUFFICES ASSUME MapInv, [MapNext]_mapVars PROVE MapInv' /\ (Kept \/ UNCHANGED mapVars)
  OBVIOUS
<1>1. CASE \E j \in Maps, e \in Elements : StartInsert(j, e)
  BY <1>1, StartStep
<1>2. CASE Rehash
  BY <1>2, RehashStep
<1>3. CASE FinishInsert
  BY <1>3, FinishStep
<1>4. CASE UNCHANGED mapVars
  BY <1>4 DEF mapVars, MapInv, MapTypeOK, LookupsComplete, OldTable
<1> QED BY <1>1, <1>2, <1>3, <1>4 DEF MapNext

LEMMA Invariance == MapSpec => []MapInv
<1>1. MapInv /\ [MapNext]_mapVars => MapInv'
  BY StepKeeps
<1> QED BY InitInv, <1>1, PTL DEF MapSpec

(* Every map is a table of its capacity, and an insertion in progress      *)
(* belongs to one of them.                                                 *)
THEOREM MapsTyped == MapSpec => []MapTypeOK
<1>1. MapInv => MapTypeOK
  BY DEF MapInv
<1> QED BY Invariance, <1>1, PTL

(* Whatever the hashes are, no lookup misses an element of its bucket,     *)
(* neither between insertions nor while the table is rehashed.             *)
THEOREM NoLookupMisses == MapSpec => []LookupsComplete
<1>1. MapInv => LookupsComplete
  BY DEF MapInv
<1> QED BY Invariance, <1>1, PTL

(* insert_with_duplicates() and rehash() lose no element. *)
THEOREM InsertionsLoseNothing == MapSpec => NothingLost
<1>1. MapInv /\ [MapNext]_mapVars => [\A j \in Maps : Held(j) \subseteq Held(j)']_mapVars
  BY StepKeeps DEF Kept
<1> QED BY Invariance, <1>1, PTL DEF MapSpec, NothingLost
-----------------------------------------------------------------------------
(* The occupied slots of a table are finitely many.                        *)
LEMMA FiniteTable ==
  ASSUME NEW m, m.capacity \in Nat
  PROVE  IsFiniteSet(Occupied(m)) /\ Size(m) \in Nat
<1>1. Occupied(m) \in SUBSET (0..(m.capacity - 1))
  BY DEF Occupied, Slots
<1>2. IsFiniteSet(0..(m.capacity - 1))
  <2>1. m.capacity - 1 \in Int /\ 0 \in Int
    OBVIOUS
  <2> QED BY <2>1, FS_Interval
<1>3. IsFiniteSet(Occupied(m))
  BY <1>1, <1>2, FS_Subset
<1> QED BY <1>3, FS_CardinalityType DEF Size

(* Placing an element occupies one more slot: the one that was free.  The  *)
(* bucket's own slot, whose length changes too, was occupied or is it.     *)
LEMMA PlaceSize ==
  ASSUME NEW m, IsMap(m), m.capacity # 0, NEW e \in Elements, NEW b, b = Bucket(m, e[1]),
         NEW p \in m.len[b]..(m.capacity - 1), FirstFree(m, b, p),
         NEW n, n = PlaceAt(m, e, b, p)
  PROVE  n.capacity = m.capacity /\ IsFiniteSet(Occupied(n)) /\ Size(n) = Size(m) + 1
<1> DEFINE s == Probe(m, b, p)
<1>1. m.capacity \in Nat \ {0} /\ Slots(m) = 0..(m.capacity - 1)
  BY DEF IsMap, Slots
<1>2. b \in Slots(m) /\ m.len \in [Slots(m) -> Nat]
  BY <1>1, BucketSlot DEF Elements, IsMap
<1>3. p \in Nat /\ m.len[b] \in Nat /\ m.len[b] <= p
  BY <1>1, <1>2
<1>4. s \in Slots(m) /\ Probe(m, b, 0) = b
  BY <1>1, <1>2, <1>3, ProbeSlot
<1>5. m.len[s] = 0 /\ \A x \in m.len[b]..(p - 1) : m.len[Probe(m, b, x)] # 0
  BY DEF FirstFree
<1>6. s = b \/ m.len[b] # 0
  BY <1>3, <1>4, <1>5
<1>7. n.capacity = m.capacity /\ n.len = [[m.len EXCEPT ![s] = 1] EXCEPT ![b] = p + 1] /\ Slots(n) = Slots(m)
  <2>1. n = [m EXCEPT !.len = [@ EXCEPT ![s] = 1, ![b] = p + 1], !.at = [@ EXCEPT ![s] = e]]
    BY DEF PlaceAt
  <2>2. m = [capacity |-> m.capacity, len |-> m.len, at |-> m.at]
    BY DEF IsMap
  <2> HIDE DEF s
  <2> QED BY <2>1, <2>2 DEF Slots
<1> HIDE DEF s
<1>8. Occupied(n) = Occupied(m) \cup {s} /\ s \notin Occupied(m)
  BY <1>2, <1>3, <1>4, <1>5, <1>6, <1>7 DEF Occupied
<1>9. IsFiniteSet(Occupied(m))
  BY <1>1, FiniteTable
<1> QED BY <1>7, <1>8, <1>9, FS_AddElement DEF Size

(* The watermark of a table and of one twice as large.                     *)
LEMMA Watermarks ==
  ASSUME NEW m, NEW n, m.capacity \in Nat \ {0}, n.capacity = 2 * m.capacity
  PROVE  /\ WatermarkHigh(m) \in Nat /\ WatermarkHigh(n) \in Nat
         /\ WatermarkHigh(m) < m.capacity /\ WatermarkHigh(m) < WatermarkHigh(n)
BY DEF WatermarkHigh

(* Outside an insertion a table is at its watermark at most, so that it    *)
(* has to grow before it takes another element; a table that is rehashed   *)
(* holds what the runner has met in the old one.                           *)
Moved == {s \in Occupied(ins.old) : s < ins.runner}
LoadInv ==
  /\ \A j \in Maps : Size(maps[j]) <= WatermarkHigh(maps[j])
  /\ ins.element # NoElement /\ ins.old.capacity = 0 => ~Full(maps[ins.into])
  /\ ins.element # NoElement /\ ins.old.capacity # 0 =>
       /\ maps[ins.into].capacity = 2 * ins.old.capacity
       /\ Size(ins.old) <= WatermarkHigh(ins.old)
       /\ Size(maps[ins.into]) = Cardinality(Moved)

(* Sizes are finite, and what has moved is no more than there was.         *)
LEMMA FiniteSizes ==
  ASSUME MapInv
  PROVE  /\ \A j \in Maps : IsFiniteSet(Occupied(maps[j])) /\ Size(maps[j]) \in Nat
         /\ IsFiniteSet(Occupied(ins.old)) /\ Size(ins.old) \in Nat
         /\ IsFiniteSet(Moved) /\ Cardinality(Moved) \in Nat /\ Cardinality(Moved) <= Size(ins.old)
<1>1. ASSUME NEW m, IsMap(m) PROVE IsFiniteSet(Occupied(m)) /\ Size(m) \in Nat
  BY <1>1, FiniteTable DEF IsMap
<1>2. Moved \subseteq Occupied(ins.old)
  BY DEF Moved
<1> QED BY <1>1, <1>2, FS_Subset, FS_CardinalityType DEF MapInv, MapTypeOK, Size

(* A map that an element may go into is below its watermark.               *)
LEMMA MayTake ==
  ASSUME MapInv, LoadInv, ins.element # NoElement
  PROVE  Size(maps[ins.into]) < WatermarkHigh(maps[ins.into])
<1>1. /\ IsMap(maps[ins.into]) /\ maps[ins.into].capacity \in Nat \ {0}
      /\ IsMap(ins.old) /\ ins.old.capacity \in Nat /\ Size(maps[ins.into]) \in Nat
  BY FiniteSizes DEF MapInv, MapTypeOK, IsMap
<1>2. CASE ins.old.capacity = 0
  <2>1. WatermarkHigh(maps[ins.into]) \in Int
    BY <1>1 DEF WatermarkHigh
  <2> QED BY <1>1, <1>2, <2>1 DEF LoadInv, Full
<1>3. CASE ins.old.capacity # 0
  <2>1. /\ WatermarkHigh(ins.old) \in Nat /\ WatermarkHigh(maps[ins.into]) \in Nat
        /\ WatermarkHigh(ins.old) < WatermarkHigh(maps[ins.into])
    BY <1>1, <1>3, Watermarks DEF LoadInv
  <2>2. Size(maps[ins.into]) <= Size(ins.old) /\ Size(ins.old) <= WatermarkHigh(ins.old) /\ Size(ins.old) \in Nat
    BY <1>3, FiniteSizes DEF LoadInv
  <2> QED BY <1>1, <2>1, <2>2
<1> QED BY <1>2, <1>3

(* Every step keeps the load.                                              *)
LEMMA PlaceLoad ==
  ASSUME MapInv, NEW j \in Maps, NEW e \in Elements, Place(j, e)
  PROVE  /\ maps'[j].capacity = maps[j].capacity /\ Size(maps'[j]) = Size(maps[j]) + 1
         /\ \A k \in Maps : k # j => maps'[k] = maps[k]
<1> DEFINE m == maps[j]  b == Bucket(m, e[1])
<1>1. PICK p \in m.len[b]..(m.capacity - 1) :
        FirstFree(m, b, p) /\ maps' = [maps EXCEPT ![j] = PlaceAt(m, e, b, p)]
  BY DEF Place
<1>2. maps = [k \in Maps |-> maps[k]] /\ IsMap(m) /\ m.capacity # 0
  BY DEF MapInv, MapTypeOK
<1>3. b = Bucket(m, e[1])
  OBVIOUS
<1>4. maps[j] = m
  OBVIOUS
<1> HIDE DEF m, b
<1>5. maps'[j] = PlaceAt(m, e, b, p) /\ \A k \in Maps : k # j => maps'[k] = maps[k]
  BY <1>1, <1>2
<1> DEFINE n == maps'[j]
<1>6. n = PlaceAt(m, e, b, p)
  BY <1>5
<1> HIDE DEF n
<1>7. n.capacity = m.capacity /\ Size(n) = Size(m) + 1
  BY <1>1, <1>2, <1>3, <1>6, PlaceSize
<1> QED BY <1>4, <1>5, <1>7 DEF n

LEMMA LoadStep == MapInv /\ LoadInv /\ [MapNext]_mapVars => LoadInv'
<1> SUFFICES ASSUME MapInv, LoadInv, [MapNext]_mapVars PROVE LoadInv'
  OBVIOUS
<1>1. /\ \A k \in Maps : /\ maps[k].capacity \in Nat \ {0} /\ Size(maps[k]) \in Nat
                         /\ WatermarkHigh(maps[k]) \in Int
      /\ maps = [k \in Maps |-> maps[k]] /\ ins.into \in Maps
      /\ ins.old.capacity \in Nat /\ ins.runner \in Nat
      /\ ins = [into |-> ins.into, element |-> ins.element, old |-> ins.old, runner |-> ins.runner]
  BY FiniteSizes DEF MapInv, MapTypeOK, IsMap, WatermarkHigh
<1>2. ASSUME NEW j \in Maps, NEW e \in Elements, StartInsert(j, e) PROVE LoadInv'
  <2>1. CASE Full(maps[j])
    <3> DEFINE m == maps[j]  n == EmptyMap(2 * m.capacity)
    <3>1. maps' = [maps EXCEPT ![j] = n]
          /\ ins' = [into |-> j, element |-> e, old |-> m, runner |-> 0]
      BY <1>2, <2>1 DEF StartInsert
    <3>2. m.capacity \in Nat \ {0} /\ Size(m) <= WatermarkHigh(m)
      BY <1>1 DEF LoadInv
    <3>3. n.capacity = 2 * m.capacity /\ Size(n) = 0
      <4>1. 2 * m.capacity \in Nat
        BY <3>2
      <4> QED BY <4>1, EmptyIsMap, FS_EmptySet DEF Size
    <3> HIDE DEF m, n
    <3>4. maps'[j] = n /\ \A k \in Maps : k # j => maps'[k] = maps[k]
      BY <1>1, <3>1
    <3>5. WatermarkHigh(n) \in Nat
      BY <3>2, <3>3, Watermarks
    <3>6. Moved' = {}
      <4>1. ins'.old = m /\ ins'.runner = 0
        BY <3>1
      <4>2. m.capacity \in Nat /\ \A s \in Occupied(m) : ~(s < 0)
        BY <3>2 DEF Occupied, Slots
      <4> QED BY <4>1, <4>2 DEF Moved
    <3>7. Cardinality(Moved') = 0
      BY <3>6, FS_EmptySet
    <3>8. \A k \in Maps : Size(maps'[k]) <= WatermarkHigh(maps'[k])
      BY <1>1, <3>3, <3>4, <3>5 DEF LoadInv
    <3>9. /\ ins'.into = j /\ ins'.old = m /\ m.capacity # 0
      BY <3>1, <3>2
    <3> QED BY <3>2, <3>3, <3>4, <3>7, <3>8, <3>9 DEF LoadInv
  <2>2. CASE ~Full(maps[j])
    <3>1. maps' = maps /\ ins' = [into |-> j, element |-> e, old |-> EmptyMap(0), runner |-> 0]
      BY <1>2, <2>2 DEF StartInsert
    <3>2. EmptyMap(0).capacity = 0
      BY EmptyIsMap
    <3> QED BY <2>2, <3>1, <3>2 DEF LoadInv
  <2> QED BY <2>1, <2>2
<1>3. CASE Rehash
  <2> DEFINE e == ins.old.at[ins.runner]
  <2>1. /\ ins.element # NoElement /\ ins.runner \in Slots(ins.old) /\ ins.old.capacity # 0
        /\ ins'.into = ins.into /\ ins'.element = ins.element /\ ins'.old = ins.old
        /\ ins'.runner = ins.runner + 1
    BY <1>1, <1>3 DEF Rehash, Slots
  <2>2. Moved' = Moved \cup (IF ins.runner \in Occupied(ins.old) THEN {ins.runner} ELSE {})
    <3>1. Occupied(ins.old) \subseteq Nat
      BY <1>1 DEF Occupied, Slots
    <3>2. \A s \in Nat : s < ins.runner + 1 <=> s < ins.runner \/ s = ins.runner
      BY <1>1
    <3>3. Moved' = {s \in Occupied(ins.old) : s < ins.runner + 1}
      BY <2>1 DEF Moved
    <3> QED BY <3>1, <3>2, <3>3 DEF Moved
  <2>3. CASE ins.runner \notin Occupied(ins.old)
    <3>1. maps' = maps /\ Moved' = Moved
      BY <1>3, <2>1, <2>2, <2>3 DEF Rehash, Occupied
    <3> QED BY <2>1, <3>1 DEF LoadInv
  <2>4. CASE ins.runner \in Occupied(ins.old)
    <3>1. Place(ins.into, e) /\ e \in Elements
      BY <1>3, <2>1, <2>4 DEF Rehash, Occupied, MapInv, OldTable
    <3>2. Cardinality(Moved') = Cardinality(Moved) + 1
      <4>1. ins.runner \notin Moved
        BY <1>1 DEF Moved
      <4> QED BY <2>2, <2>4, <4>1, FiniteSizes, FS_AddElement
    <3> HIDE DEF e
    <3>3. /\ maps'[ins.into].capacity = maps[ins.into].capacity
          /\ Size(maps'[ins.into]) = Size(maps[ins.into]) + 1
          /\ \A k \in Maps : k # ins.into => maps'[k] = maps[k]
      BY <1>1, <3>1, PlaceLoad
    <3>4. WatermarkHigh(maps'[ins.into]) = WatermarkHigh(maps[ins.into])
      BY <3>3 DEF WatermarkHigh
    <3>5. Size(maps[ins.into]) < WatermarkHigh(maps[ins.into])
      BY <2>1, MayTake
    <3>6. \A k \in Maps : Size(maps'[k]) <= WatermarkHigh(maps'[k])
      BY <1>1, <3>3, <3>4, <3>5 DEF LoadInv
    <3> QED BY <2>1, <3>2, <3>3, <3>6 DEF LoadInv
  <2> QED BY <2>3, <2>4
<1>4. CASE FinishInsert
  <2>1. /\ ins.element \in Elements /\ ins.element # NoElement /\ Place(ins.into, ins.element)
        /\ ins'.element = NoElement
    BY <1>1, <1>4 DEF FinishInsert, MapInv, MapTypeOK
  <2>2. /\ maps'[ins.into].capacity = maps[ins.into].capacity
        /\ Size(maps'[ins.into]) = Size(maps[ins.into]) + 1
        /\ \A k \in Maps : k # ins.into => maps'[k] = maps[k]
    BY <1>1, <2>1, PlaceLoad
  <2>3. WatermarkHigh(maps'[ins.into]) = WatermarkHigh(maps[ins.into])
    BY <2>2 DEF WatermarkHigh
  <2>4. Size(maps[ins.into]) < WatermarkHigh(maps[ins.into])
    BY <2>1, MayTake
  <2>5. \A k \in Maps : Size(maps'[k]) <= WatermarkHigh(maps'[k])
    BY <1>1, <2>2, <2>3, <2>4 DEF LoadInv
  <2> QED BY <2>1, <2>5 DEF LoadInv
<1>5. CASE UNCHANGED mapVars
  BY <1>5 DEF mapVars, LoadInv, Moved
<1> QED BY <1>2, <1>3, <1>4, <1>5 DEF MapNext

(* The maps are constructed empty.                                         *)
LEMMA InitLoad == MapInit => LoadInv
<1> SUFFICES ASSUME MapInit PROVE LoadInv
  OBVIOUS
<1>1. ASSUME NEW j \in Maps PROVE Size(maps[j]) <= WatermarkHigh(maps[j])
  <2>1. PICK c \in Nat \ {0} : maps[j] = EmptyMap(c)
    BY CapacitiesAssumption DEF MapInit
  <2>2. maps[j].capacity = c /\ Size(maps[j]) = 0
    BY <2>1, EmptyIsMap, FS_EmptySet DEF Size
  <2> QED BY <2>2 DEF WatermarkHigh
<1>2. ins.element = NoElement
  BY DEF MapInit
<1> QED BY <1>1, <1>2 DEF LoadInv

LEMMA LoadInvariance == MapSpec => []LoadInv
BY Invariance, InitLoad, LoadStep, PTL DEF MapSpec

(* A table of twice the capacity takes over all the elements of a full one *)
(* without becoming full itself, whatever the first capacity was.          *)
THEOREM RehashedBelow == MapSpec => []BelowWatermark
<1>1. MapInv /\ LoadInv => BelowWatermark
  <2> SUFFICES ASSUME MapInv, LoadInv, ins.element # NoElement PROVE ~Full(maps[ins.into])
    BY DEF BelowWatermark
  <2>1. Size(maps[ins.into]) < WatermarkHigh(maps[ins.into])
    BY MayTake
  <2>2. Size(maps[ins.into]) \in Nat /\ maps[ins.into].capacity \in Nat
    BY FiniteSizes DEF MapInv, MapTypeOK, IsMap
  <2>3. WatermarkHigh(maps[ins.into]) \in Int
    BY <2>2 DEF WatermarkHigh
  <2> QED BY <2>1, <2>2, <2>3 DEF Full
<1> QED BY <1>1, Invariance, LoadInvariance, PTL

(* There is always a free slot, without which an insertion would probe for *)
(* ever.                                                                   *)
THEOREM SlotsRemain == MapSpec => [](\A j \in Maps : Size(maps[j]) < maps[j].capacity)
<1>1. MapInv /\ LoadInv => \A j \in Maps : Size(maps[j]) < maps[j].capacity
  <2> SUFFICES ASSUME MapInv, LoadInv, NEW j \in Maps PROVE Size(maps[j]) < maps[j].capacity
    OBVIOUS
  <2>1. maps[j].capacity \in Nat \ {0} /\ Size(maps[j]) \in Nat
    BY FiniteSizes DEF MapInv, MapTypeOK, IsMap
  <2>2. WatermarkHigh(maps[j]) \in Nat /\ WatermarkHigh(maps[j]) < maps[j].capacity
    BY <2>1 DEF WatermarkHigh
  <2> QED BY <2>1, <2>2 DEF LoadInv
<1> QED BY <1>1, Invariance, LoadInvariance, PTL
=============================================================================
