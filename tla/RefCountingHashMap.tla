--------------------------- MODULE RefCountingHashMap ---------------------------
(***************************************************************************)
(* The open-addressing hash map of util/container/RefCountingHashMap.hpp   *)
(* as the interpreter uses it: pairs of a key and a value are inserted,    *)
(* duplicate keys included, and looked up by key.  Each slot counts, in    *)
(* len, the probes that the elements of its bucket span; 0 marks a free    *)
(* slot.  The probe sequences of different buckets overlap.                *)
(*                                                                         *)
(* There may be several maps, one for each hash join of a plan, but one    *)
(* thread works on them: ins is the insertion in progress, with what is    *)
(* left of the old table while a full table is rehashed.                   *)
(***************************************************************************)
EXTENDS Integers, FiniteSets

CONSTANTS
  Maps,        \* the maps
  Keys,        \* the keys, and
  Hash,        \*   their hashes
  Values,      \* what the keys are mapped to
  Capacities,  \* the capacities that a map may have at first
  NoElement    \* what a slot holds before it is used

Elements == Keys \X Values

ASSUME HashAssumption == Hash \in [Keys -> Nat]
ASSUME CapacitiesAssumption == Capacities \subseteq Nat \ {0}
ASSUME NoElementAssumption == NoElement \notin Elements

VARIABLES maps, ins
mapVars == <<maps, ins>>

Slots(m)  == 0..(m.capacity - 1)
EmptyMap(c) ==
  [capacity |-> c, len |-> [s \in 0..(c - 1) |-> 0], at |-> [s \in 0..(c - 1) |-> NoElement]]

Occupied(m) == {s \in Slots(m) : m.len[s] # 0}
Size(m)     == Cardinality(Occupied(m))

Bucket(m, k)   == Hash[k] % m.capacity
Probe(m, b, p) == (b + (p * (p + 1)) \div 2) % m.capacity

(* The maximal load factor is 0.85. *)
WatermarkHigh(m) == (85 * m.capacity) \div 100
Full(m) == Size(m) >= WatermarkHigh(m)

FirstFreeMutant(m, b, p) == p = m.len[b]
(* The first free slot of the probe sequence of bucket b, at or after the  *)
(* end of the bucket.  If the bucket is free, it is the bucket's own slot. *)
FirstFree(m, b, p) ==
  /\ m.len[Probe(m, b, p)] = 0
  /\ \A q \in m.len[b]..(p - 1) : m.len[Probe(m, b, q)] # 0

PlaceAtMutant(m, e, b, p) ==
  [m EXCEPT !.len = [@ EXCEPT ![Probe(m, b, p)] = 1, ![b] = IF p = 0 THEN 1 ELSE m.len[b] + 1],
            !.at  = [@ EXCEPT ![Probe(m, b, p)] = e]]
PlaceAt(m, e, b, p) ==
  [m EXCEPT !.len = [@ EXCEPT ![Probe(m, b, p)] = 1, ![b] = p + 1],
            !.at  = [@ EXCEPT ![Probe(m, b, p)] = e]]

(* for_all(): the probes of the bucket of k that find the key k. *)
Matches(m, k) ==
  {p \in 0..(m.len[Bucket(m, k)] - 1) : m.at[Probe(m, Bucket(m, k), p)][1] = k}

-----------------------------------------------------------------------------

(* insert_with_duplicates(), which first resizes a table that is full. *)
StartInsert(j, e) ==
  /\ ins.element = NoElement
  /\ IF Full(maps[j])
       THEN /\ maps' = [maps EXCEPT ![j] = EmptyMap(2 * @.capacity)]
            /\ ins' = [into |-> j, element |-> e, old |-> maps[j], runner |-> 0]
       ELSE /\ ins' = [into |-> j, element |-> e, old |-> EmptyMap(0), runner |-> 0]
            /\ UNCHANGED maps

Place(j, e) ==
  LET b == Bucket(maps[j], e[1]) IN
  \E p \in maps[j].len[b]..(maps[j].capacity - 1) :
    /\ FirstFree(maps[j], b, p)
    /\ maps' = [maps EXCEPT ![j] = PlaceAt(@, e, b, p)]

(* rehash(): the runner inserts what it meets in the old table. *)
Rehash ==
  /\ ins.element # NoElement /\ ins.runner \in Slots(ins.old)
  /\ ins' = [ins EXCEPT !.runner = @ + 1]
  /\ IF ins.old.len[ins.runner] = 0 THEN UNCHANGED maps
     ELSE Place(ins.into, ins.old.at[ins.runner])

FinishInsert ==
  /\ ins.element # NoElement /\ ins.runner \notin Slots(ins.old)
  /\ Place(ins.into, ins.element)
  /\ ins' = [ins EXCEPT !.element = NoElement, !.old = EmptyMap(0), !.runner = 0]

(* A map is constructed for 1024 elements and, while it is empty, resized *)
(* to what the optimizer estimates for the join.                          *)
MapInit ==
  /\ maps \in [Maps -> {EmptyMap(c) : c \in Capacities}]
  /\ ins \in [into : Maps, element : {NoElement}, old : {EmptyMap(0)}, runner : {0}]
MapNext ==
  \/ \E j \in Maps, e \in Elements : StartInsert(j, e)
  \/ Rehash
  \/ FinishInsert
MapSpec == MapInit /\ [][MapNext]_mapVars

-----------------------------------------------------------------------------
IsMap(m) ==
  /\ m = [capacity |-> m.capacity, len |-> m.len, at |-> m.at]
  /\ m.capacity \in Nat
  /\ m.len \in [Slots(m) -> Nat]
  /\ m.at \in [Slots(m) -> Elements \cup {NoElement}]
MapTypeOK ==
  /\ maps = [j \in Maps |-> maps[j]]
  /\ \A j \in Maps : IsMap(maps[j]) /\ maps[j].capacity # 0
  /\ ins = [into |-> ins.into, element |-> ins.element, old |-> ins.old, runner |-> ins.runner]
  /\ ins.into \in Maps /\ ins.element \in Elements \cup {NoElement}
  /\ IsMap(ins.old) /\ ins.runner \in Nat

(* The probes that a bucket counts are occupied, and an element is found   *)
(* among those of its bucket, also if other buckets occupy the slots       *)
(* between: no lookup misses an element, whatever the hashes are.          *)
BucketsOccupied(m) ==
  \A b \in Slots(m) : \A p \in 0..(m.len[b] - 1) : m.len[Probe(m, b, p)] # 0
ElementsReachable(m) ==
  \A s \in Occupied(m) :
    /\ m.at[s] \in Elements
    /\ LET b == Bucket(m, m.at[s][1]) IN \E p \in 0..(m.len[b] - 1) : Probe(m, b, p) = s
LookupsComplete == \A j \in Maps : BucketsOccupied(maps[j]) /\ ElementsReachable(maps[j])

(* What is in map j, the elements that are still being inserted included. *)
HeldBy(m, from) == {m.at[s] : s \in {s \in Occupied(m) : s >= from}}
Held(j) ==
  HeldBy(maps[j], 0)
  \cup IF ins.into = j THEN HeldBy(ins.old, ins.runner) \cup ({ins.element} \ {NoElement}) ELSE {}

(* Nothing that was inserted is lost when the table is resized or when an  *)
(* insertion finds slots of its bucket taken by others.                    *)
NothingLost == [][\A j \in Maps : Held(j) \subseteq Held(j)']_mapVars

(* The watermark of the new table is not below what it takes over: this is *)
(* the M_insist of resize(), and rehash() never resizes the table again.   *)
BelowWatermark ==
  ins.element # NoElement /\ ins.old.capacity # 0 => ~Full(maps[ins.into])
=============================================================================
