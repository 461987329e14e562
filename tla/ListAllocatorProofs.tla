--------------------------- MODULE ListAllocatorProofs ---------------------------
(* Proofs about ListAllocator, for every size of words and pages, every    *)
(* number of pages, and all requests that the code admits.                 *)
EXTENDS ListAllocator, SequenceTheorems, WellFoundedInduction, TLAPS

-----------------------------------------------------------------------------
(* Multiples. *)

(* Quotient and remainder. *)
LEMMA DivMod ==
  ASSUME NEW n \in Int, NEW m \in Nat \ {0}
  PROVE  n \div m \in Int /\ n % m \in 0..(m - 1) /\ n = m * (n \div m) + (n % m)
OBVIOUS

(* Products distribute over sums and differences.                          *)
LEMMA Distributive ==
  ASSUME NEW m \in Int, NEW p \in Int, NEW q \in Int
  PROVE  /\ m * p \in Int /\ m * p = p * m
         /\ m * (p + q) = m * p + m * q /\ m * (p - q) = m * p - m * q
OBVIOUS

(* Products associate.                                                     *)
LEMMA Associative ==
  ASSUME NEW m \in Int, NEW p \in Int, NEW q \in Int
  PROVE  m * (p * q) = (m * p) * q
OBVIOUS

(* A positive multiple of a positive number is no smaller than it.         *)
LEMMA ProductPositive ==
  ASSUME NEW m \in Nat \ {0}, NEW q \in Int, m * q > 0
  PROVE  m * q >= m
OBVIOUS

(* A product is a multiple of its first factor.                            *)
LEMMA Product ==
  ASSUME NEW m \in Nat \ {0}, NEW q \in Int, NEW x \in Int, x = m * q
  PROVE  x % m = 0
OBVIOUS

(* A multiple is a product.                                                *)
LEMMA Quotient ==
  ASSUME NEW m \in Nat \ {0}, NEW x \in Int, x % m = 0
  PROVE  \E q \in Int : x = m * q
<1>1. x \div m \in Int /\ x = m * (x \div m) + (x % m)
  BY DivMod
<1>2. m * (x \div m) \in Int
  BY <1>1, Distributive
<1>3. x = m * (x \div m)
  BY <1>1, <1>2
<1> QED BY <1>1, <1>3

(* Sums and differences of multiples are multiples. *)
LEMMA MultiplesAdd ==
  ASSUME NEW m \in Nat \ {0}, NEW x \in Int, NEW y \in Int, x % m = 0, y % m = 0
  PROVE  (x + y) % m = 0 /\ (x - y) % m = 0
<1>1. PICK p \in Int : x = m * p
  BY Quotient
<1>2. PICK q \in Int : y = m * q
  BY Quotient
<1>3. x + y = m * (p + q) /\ x - y = m * (p - q)
  BY <1>1, <1>2, Distributive
<1>4. p + q \in Int /\ p - q \in Int /\ x + y \in Int /\ x - y \in Int
  OBVIOUS
<1>5. (x + y) % m = 0
  BY <1>3, <1>4, Product
<1>6. (x - y) % m = 0
  BY <1>3, <1>4, Product
<1> QED BY <1>5, <1>6

(* A multiple of a multiple is a multiple. *)
LEMMA MultiplesTransitive ==
  ASSUME NEW m \in Nat \ {0}, NEW k \in Nat \ {0}, NEW x \in Int, x % k = 0, k % m = 0
  PROVE  x % m = 0
<1>1. PICK p \in Int : x = k * p
  BY Quotient
<1>2. PICK q \in Int : k = m * q
  BY Quotient
<1>3. x = m * (q * p) /\ q * p \in Int
  BY <1>1, <1>2, Associative
<1> QED BY <1>3, Product

(* Multiples are apart by at least the factor. *)
LEMMA MultiplesApart ==
  ASSUME NEW m \in Nat \ {0}, NEW x \in Int, NEW y \in Int, x % m = 0, y % m = 0, x < y
  PROVE  x + m <= y
<1>1. PICK p \in Int : x = m * p
  BY Quotient
<1>2. PICK q \in Int : y = m * q
  BY Quotient
<1>3. m * (q - p) = y - x /\ q - p \in Int
  BY <1>1, <1>2, Distributive
<1> QED BY <1>3, ProductPositive

(* Ceil rounds up, by less than the factor, to a multiple of it. *)
LEMMA CeilRounds ==
  ASSUME NEW n \in Int, NEW m \in Nat \ {0}
  PROVE  Ceil(n, m) \in Int /\ n <= Ceil(n, m) /\ Ceil(n, m) < n + m /\ Ceil(n, m) % m = 0
<1> DEFINE q == (n + m - 1) \div m
<1>1. q \in Int /\ Ceil(n, m) = m * q /\ m * q \in Int
  BY DivMod, Distributive DEF Ceil
<1>2. n + m - 1 = m * q + ((n + m - 1) % m) /\ (n + m - 1) % m \in 0..(m - 1)
  BY DivMod
<1> HIDE DEF q
<1>3. (m * q) % m = 0
  BY <1>1, Product
<1>4. m * q < n + m
  BY <1>1, <1>2
<1>5. n <= m * q
  BY <1>1, <1>2
<1> QED BY <1>1, <1>3, <1>4, <1>5

(* No multiple lies between a number and its Ceil. *)
LEMMA CeilLeast ==
  ASSUME NEW n \in Int, NEW m \in Nat \ {0}, NEW x \in Int, x % m = 0, n <= x
  PROVE  Ceil(n, m) <= x
<1>1. Ceil(n, m) \in Int /\ Ceil(n, m) < n + m /\ Ceil(n, m) % m = 0
  BY CeilRounds
<1>2. SUFFICES ASSUME x < Ceil(n, m) PROVE FALSE
  BY <1>1
<1>3. x + m <= Ceil(n, m)
  BY <1>1, <1>2, MultiplesApart
<1> QED BY <1>1, <1>3

-----------------------------------------------------------------------------
(* Lists. *)

(* A set of numbers that is not empty has a least one. *)
LEMMA MinExists ==
  ASSUME NEW T \in SUBSET Nat, T # {}
  PROVE  Min(T) \in T /\ \A y \in T : Min(T) <= y
<1>1. PICK x \in T : \A y \in T : ~(<<y, x>> \in OpToRel(<, Nat))
  BY NatLessThanWellFounded, WFMin
<1>2. ASSUME NEW y \in T, ~(x <= y) PROVE FALSE
  <2>1. y < x
    BY <1>2
  <2>2. <<y, x>> \in Nat \X Nat /\ <<y, x>>[1] = y /\ <<y, x>>[2] = x
    OBVIOUS
  <2>3. <<y, x>> \in OpToRel(<, Nat)
    BY <2>1, <2>2, Zenon DEF OpToRel
  <2> QED BY <1>1, <2>3
<1> QED BY <1>1, <1>2 DEF Min

(* What SelectInSeq selects, where I is the set of places that pass.       *)
LEMMA Selected ==
  ASSUME NEW n \in Nat, NEW I \in SUBSET (1..n), NEW i, i = IF I # {} THEN Min(I) ELSE 0
  PROVE  i \in 0..n /\ (i = 0 <=> I = {}) /\ (i # 0 => i \in I) /\ \A j \in I : i <= j
<1>1. I \in SUBSET Nat /\ \A j \in I : j \in 1..n
  OBVIOUS
<1>2. I # {} => Min(I) \in I /\ \A j \in I : Min(I) <= j
  BY <1>1, MinExists
<1>3. CASE I = {}
  BY <1>3
<1>4. CASE I # {}
  <2>1. i = Min(I)
    BY <1>4
  <2> HIDE DEF Min
  <2>2. i \in I /\ i \in 1..n /\ \A j \in I : i <= j
    BY <1>1, <1>2, <1>4, <2>1
  <2> QED BY <1>4, <2>2
<1> QED BY <1>3, <1>4

(* Where a list that is sorted gets the chunk at addr.                     *)
LEMMA SortedPosFirst ==
  ASSUME NEW list, Len(list) \in Nat, NEW addr, NEW i, i = SortedPos(list, addr)
  PROVE  /\ i \in 1..Len(list) + 1
         /\ \A j \in 1..Len(list) : j < i => ~(ValueAddr(list[j]) >= addr)
         /\ i <= Len(list) => ValueAddr(list[i]) >= addr
<1> DEFINE I == {j \in 1..Len(list) : ValueAddr(list[j]) >= addr}
           k == SelectInSeq(list, LAMBDA d : ValueAddr(d) >= addr)
<1>1. k = IF I # {} THEN Min(I) ELSE 0
  BY DEF SelectInSeq
<1>2. i = IF k = 0 THEN Len(list) + 1 ELSE k
  BY DEF SortedPos
<1>3. I \in SUBSET (1..Len(list)) /\ \A j \in 1..Len(list) : j \in I <=> ValueAddr(list[j]) >= addr
  OBVIOUS
<1> HIDE DEF I, k
<1>4. k \in 0..Len(list) /\ (k = 0 <=> I = {}) /\ (k # 0 => k \in I) /\ \A j \in I : k <= j
  BY <1>1, <1>3, Selected
<1>5. CASE k = 0
  BY <1>2, <1>3, <1>4, <1>5
<1>6. CASE k # 0
  BY <1>2, <1>3, <1>4, <1>6
<1> QED BY <1>5, <1>6

(* The length, the domain and the elements of a sequence.                  *)
LEMMA Elements ==
  ASSUME NEW S, NEW s \in Seq(S)
  PROVE  /\ Len(s) \in Nat /\ DOMAIN s = 1..Len(s)
         /\ \A j \in 1..Len(s) : s[j] \in S
BY LenProperties, ElementOfSeq

(* The elements of a slice of a sequence.                                  *)
LEMMA Slice ==
  ASSUME NEW S, NEW s \in Seq(S), NEW m \in 1..Len(s) + 1, NEW n \in 0..Len(s), m <= n + 1
  PROVE  /\ SubSeq(s, m, n) \in Seq(S)
         /\ Len(SubSeq(s, m, n)) = n - m + 1
         /\ \A j \in 1..n - m + 1 : SubSeq(s, m, n)[j] = s[m + j - 1]
<1>1. Len(s) \in Nat /\ \A j \in m..n : s[j] \in S
  BY Elements
<1>2. m \in Int /\ n \in Int
  BY <1>1
<1>3. /\ SubSeq(s, m, n) \in Seq(S)
      /\ Len(SubSeq(s, m, n)) = IF m <= n THEN n - m + 1 ELSE 0
      /\ \A j \in 1..n - m + 1 : SubSeq(s, m, n)[j] = s[m + j - 1]
  BY <1>1, <1>2, SubSeqProperties
<1>4. m > n => n - m + 1 = 0
  BY <1>2
<1> QED BY <1>3, <1>4

(* The elements of a sequence without its i-th.                            *)
LEMMA RemoveAtElements ==
  ASSUME NEW S, NEW s \in Seq(S), NEW i \in 1..Len(s)
  PROVE  /\ RemoveAt(s, i) \in Seq(S)
         /\ Len(RemoveAt(s, i)) = Len(s) - 1
         /\ \A j \in 1..Len(s) - 1 : RemoveAt(s, i)[j] = IF j < i THEN s[j] ELSE s[j + 1]
<1> DEFINE a == SubSeq(s, 1, i - 1)
           b == SubSeq(s, i + 1, Len(s))
<1>0. Len(s) \in Nat
  BY Elements
<1>1. /\ a \in Seq(S) /\ Len(a) = i - 1 - 1 + 1
      /\ \A j \in 1..i - 1 - 1 + 1 : a[j] = s[1 + j - 1]
  <2>1. 1 \in 1..Len(s) + 1 /\ i - 1 \in 0..Len(s) /\ 1 <= i - 1 + 1
    BY <1>0
  <2> QED BY <2>1, Slice
<1>2. /\ b \in Seq(S) /\ Len(b) = Len(s) - (i + 1) + 1
      /\ \A j \in 1..Len(s) - (i + 1) + 1 : b[j] = s[i + 1 + j - 1]
  <2>1. i + 1 \in 1..Len(s) + 1 /\ Len(s) \in 0..Len(s) /\ i + 1 <= Len(s) + 1
    BY <1>0
  <2> QED BY <2>1, Slice
<1> HIDE DEF a, b
<1>3. /\ a \o b \in Seq(S) /\ Len(a \o b) = Len(a) + Len(b)
      /\ \A j \in 1..Len(a) + Len(b) : (a \o b)[j] = IF j <= Len(a) THEN a[j] ELSE b[j - Len(a)]
  BY <1>1, <1>2, ConcatProperties
<1>4. Len(a) = i - 1 /\ Len(b) = Len(s) - i /\ Len(a) + Len(b) = Len(s) - 1
  BY <1>0, <1>1, <1>2
<1>5. ASSUME NEW j \in 1..Len(s) - 1
      PROVE  (a \o b)[j] = IF j < i THEN s[j] ELSE s[j + 1]
  <2>1. CASE j < i
    <3>1. a[j] = s[j]
      BY <1>0, <1>1, <2>1
    <3> QED BY <1>0, <1>3, <1>4, <2>1, <3>1
  <2>2. CASE j >= i
    <3>1. j - (i - 1) \in 1..Len(s) - (i + 1) + 1 /\ i + 1 + (j - (i - 1)) - 1 = j + 1
      BY <1>0, <2>2
    <3>2. b[j - (i - 1)] = s[j + 1]
      BY <1>2, <3>1
    <3> QED BY <1>0, <1>3, <1>4, <2>2, <3>2
  <2>3. j < i \/ j >= i
    BY <1>0
  <2> QED BY <2>1, <2>2, <2>3
<1>6. RemoveAt(s, i) = a \o b
  BY DEF RemoveAt, a, b
<1> QED BY <1>3, <1>4, <1>5, <1>6

(* The elements of a sequence with one more.                               *)
LEMMA InsertAtElements ==
  ASSUME NEW S, NEW s \in Seq(S), NEW i \in 1..Len(s) + 1, NEW e \in S
  PROVE  /\ InsertAt(s, i, e) \in Seq(S)
         /\ Len(InsertAt(s, i, e)) = Len(s) + 1
         /\ \A j \in 1..Len(s) + 1 :
              InsertAt(s, i, e)[j] = IF j < i THEN s[j] ELSE IF j = i THEN e ELSE s[j - 1]
<1> DEFINE a == SubSeq(s, 1, i - 1)
           b == SubSeq(s, i, Len(s))
<1>0. Len(s) \in Nat
  BY Elements
<1>1. /\ a \in Seq(S) /\ Len(a) = i - 1 - 1 + 1
      /\ \A j \in 1..i - 1 - 1 + 1 : a[j] = s[1 + j - 1]
  <2>1. 1 \in 1..Len(s) + 1 /\ i - 1 \in 0..Len(s) /\ 1 <= i - 1 + 1
    BY <1>0
  <2> QED BY <2>1, Slice
<1>2. /\ b \in Seq(S) /\ Len(b) = Len(s) - i + 1
      /\ \A j \in 1..Len(s) - i + 1 : b[j] = s[i + j - 1]
  <2>1. Len(s) \in 0..Len(s) /\ i <= Len(s) + 1
    BY <1>0
  <2> QED BY <2>1, Slice
<1>3. <<e>> \in Seq(S) /\ Len(<<e>>) = 1 /\ <<e>>[1] = e
  OBVIOUS
<1> DEFINE c == a \o <<e>>
<1> HIDE DEF a, b
<1>4. /\ c \in Seq(S) /\ Len(c) = Len(a) + Len(<<e>>)
      /\ \A j \in 1..Len(a) + Len(<<e>>) : c[j] = IF j <= Len(a) THEN a[j] ELSE <<e>>[j - Len(a)]
  BY <1>1, <1>3, ConcatProperties
<1> HIDE DEF c
<1>5. /\ c \o b \in Seq(S) /\ Len(c \o b) = Len(c) + Len(b)
      /\ \A j \in 1..Len(c) + Len(b) : (c \o b)[j] = IF j <= Len(c) THEN c[j] ELSE b[j - Len(c)]
  <2>1. c \in Seq(S) /\ b \in Seq(S)
    BY <1>2, <1>4
  <2> QED BY <2>1, ConcatProperties
<1>6. /\ Len(a) = i - 1 /\ Len(c) = i /\ Len(b) = Len(s) - i + 1
      /\ Len(a) + Len(<<e>>) = i /\ Len(c) + Len(b) = Len(s) + 1
  BY <1>0, <1>1, <1>2, <1>3, <1>4
<1>7. ASSUME NEW j \in 1..Len(s) + 1
      PROVE  (c \o b)[j] = IF j < i THEN s[j] ELSE IF j = i THEN e ELSE s[j - 1]
  <2>1. CASE j < i
    <3>1. a[j] = s[j]
      BY <1>0, <1>1, <2>1
    <3>2. c[j] = a[j]
      BY <1>0, <1>4, <1>6, <2>1
    <3> QED BY <1>0, <1>5, <1>6, <2>1, <3>1, <3>2
  <2>2. CASE j = i
    <3>1. c[j] = e
      <4>1. j - Len(a) = 1 /\ j \in 1..Len(a) + Len(<<e>>) /\ ~(j <= Len(a))
        BY <1>0, <1>6, <2>2
      <4> QED BY <1>3, <1>4, <4>1
    <3> QED BY SMTT(30), <1>0, <1>5, <1>6, <2>2, <3>1
  <2>3. CASE j > i
    <3>1. j - i \in 1..Len(s) - i + 1 /\ i + (j - i) - 1 = j - 1
      BY <1>0, <2>3
    <3>2. b[j - i] = s[j - 1]
      BY <1>2, <3>1
    <3> QED BY <1>0, <1>5, <1>6, <2>3, <3>2
  <2>4. j < i \/ j = i \/ j > i
    BY <1>0
  <2> QED BY <2>1, <2>2, <2>3, <2>4
<1>8. InsertAt(s, i, e) = c \o b
  BY DEF InsertAt, a, b, c
<1> QED BY <1>5, <1>6, <1>7, <1>8

-----------------------------------------------------------------------------
(* The areas of memory that the allocator keeps, used and unused. *)

Area == [addr : Nat, bytes : Nat, marked : BOOLEAN]

Block == [addr : Nat, bytes : Nat, marked : BOOLEAN, size : Nat \ {0}, align : Nat]

AreaOf(u) == [addr |-> u.addr, bytes |-> u.bytes, marked |-> u.marked]

Elems(list) == {list[i] : i \in DOMAIN list}

Areas(list, U) == Elems(list) \cup {AreaOf(u) : u \in U}

Apart(c, d) == End(c) <= d.addr \/ End(d) <= c.addr

Shaped(X) ==
  /\ X \subseteq Area
  /\ \A c \in X : c.addr % Word = 0 /\ c.bytes % Word = 0 /\ c.bytes >= Header

Disjoint(X) == \A c, d \in X : c # d => Apart(c, d)

AreMappings(M) ==
  /\ M \subseteq [addr : Nat, bytes : Nat \ {0}]
  /\ \A m \in M : m.addr % Page = 0 /\ m.bytes % Page = 0
  /\ Disjoint(M)

(* Where area c lies in mapping m, and that memory goes on behind it. *)
Within(c, m) == m.addr <= c.addr /\ End(c) <= End(m) /\ (c.marked <=> c.addr = m.addr)

Continues(c, m, X) == End(c) = End(m) \/ \E d \in X : d.addr = End(c)

Tiled(X, M) ==
  /\ \A m \in M : \E c \in X : c.addr = m.addr
  /\ \A c \in X : \E m \in M : Within(c, m) /\ Continues(c, m, X)

Regions(X, M) == Shaped(X) /\ Disjoint(X) /\ AreMappings(M) /\ Tiled(X, M)

(* A list of unused chunks that is sorted by address. *)
IsFreeList(list) ==
  /\ list \in Seq(Area)
  /\ \A i \in 1..Len(list) : list[i].bytes >= Header
  /\ \A i, j \in 1..Len(list) : i < j => End(list[i]) <= list[j].addr

Coalesced(list) == \A i \in 1..Len(list) - 1 : ~MayCoalesce(list[i], list[i + 1])

(* The chunks in use are none of the list, and two of them are two areas. *)
InUse(list, U) ==
  /\ U \subseteq Block
  /\ \A u \in U : /\ u.size + Word <= u.bytes
                  /\ IsAligned(u.addr, u.align)
                  /\ AreaOf(u) \notin Elems(list)
  /\ \A u, v \in U : AreaOf(u) = AreaOf(v) => u = v

Good(list, U, M) ==
  IsFreeList(list) /\ InUse(list, U) /\ Regions(Areas(list, U), M)

AllocatorInv ==
  /\ alive \in BOOLEAN
  /\ strategy \in {"Linear", "Exponential"}
  /\ minSize \in Nat /\ minSize % Page = 0
  /\ Good(chunks, used, mapped)
  /\ Coalesced(chunks)
  /\ ~alive => chunks = <<>> /\ used = {} /\ mapped = {}

-----------------------------------------------------------------------------
(* Cutting, joining and adding areas. *)

(* The sizes of words, headers and pages.                                  *)
LEMMA Sizes == Word \in Nat \ {0} /\ Header \in Nat /\ Header = 2 * Word /\ Page \in Nat \ {0}
BY WordAssumption, HeaderAssumption, PageAssumption

(* A page, and so every mapping, holds whole words.                        *)
LEMMA PageWords ==
  ASSUME NEW x \in Int, x % Page = 0
  PROVE  x % Word = 0
<1>1. Page % Word = 0 /\ Word \in Nat \ {0} /\ Page \in Nat \ {0}
  BY Sizes, PageAssumption
<1> QED BY <1>1, MultiplesTransitive

(* What it says of one area that it is kept.                               *)
LEMMA AreaFacts ==
  ASSUME NEW X, Shaped(X), NEW c \in X
  PROVE  /\ c \in Area /\ c.addr \in Nat /\ c.bytes \in Nat /\ c.marked \in BOOLEAN
         /\ c.addr % Word = 0 /\ c.bytes % Word = 0 /\ c.bytes >= Header /\ c.bytes > Word
         /\ End(c) \in Nat /\ End(c) > c.addr /\ End(c) = c.addr + c.bytes
BY Sizes DEF Shaped, Area, End

(* What it says of one mapping that it is in place.                        *)
LEMMA MappingFacts ==
  ASSUME NEW M, AreMappings(M), NEW m \in M
  PROVE  /\ m.addr \in Nat /\ m.bytes \in Nat \ {0}
         /\ m.addr % Page = 0 /\ m.bytes % Page = 0
         /\ End(m) \in Nat /\ End(m) > m.addr /\ End(m) = m.addr + m.bytes
BY DEF AreMappings, End

(* Two areas of a tiling that begin, or end, at the same address are one. *)
LEMMA SameArea ==
  ASSUME NEW X, Shaped(X), Disjoint(X), NEW c \in X, NEW d \in X,
         c.addr = d.addr \/ End(c) = End(d)
  PROVE  c = d
<1>1. End(c) > c.addr /\ End(d) > d.addr /\ {c.addr, d.addr, End(c), End(d)} \subseteq Nat
  BY AreaFacts
<1> QED BY <1>1 DEF Disjoint, Apart

(* So are two mappings that share an address. *)
LEMMA SameMapping ==
  ASSUME NEW M, AreMappings(M), NEW m \in M, NEW n \in M,
         NEW a \in Nat, m.addr <= a, a < End(m), n.addr <= a, a < End(n)
  PROVE  m = n
<1>1. {m.addr, n.addr, End(m), End(n)} \subseteq Nat
  BY MappingFacts
<1> QED BY <1>1 DEF AreMappings, Disjoint, Apart

(* Only the first area of a mapping begins with the mapping, and a mark    *)
(* says so.                                                                *)
LEMMA MarkedBegins ==
  ASSUME NEW X, NEW M, Regions(X, M), NEW c \in X, NEW m \in M, m.addr <= c.addr, c.addr < End(m)
  PROVE  Within(c, m) /\ Continues(c, m, X)
<1>1. PICK n \in M : Within(c, n) /\ Continues(c, n, X)
  BY DEF Regions, Tiled
<1>2. c.addr \in Nat /\ End(c) \in Nat /\ c.addr < End(c)
  BY AreaFacts DEF Regions
<1>3. End(n) \in Nat /\ End(m) \in Nat /\ n.addr <= c.addr /\ c.addr < End(n)
  BY <1>1, <1>2, MappingFacts DEF Within, Regions
<1>4. m = n
  BY <1>2, <1>3, SameMapping DEF Regions
<1> QED BY <1>1, <1>4

(* p and q are what is left of area c when it is cut behind n bytes.       *)
IsCut(c, n, p, q) ==
  /\ n \in Nat /\ n % Word = 0 /\ n >= Header /\ n + Header <= c.bytes
  /\ p = [addr |-> c.addr, bytes |-> n, marked |-> c.marked]
  /\ q = [addr |-> c.addr + n, bytes |-> c.bytes - n, marked |-> FALSE]

(* Cutting an area in two keeps the tiling; only the first part inherits   *)
(* the mark.                                                               *)
LEMMA CutRegions ==
  ASSUME NEW X, NEW M, Regions(X, M), NEW c \in X,
         NEW n, NEW c1, NEW c2, IsCut(c, n, c1, c2),
         NEW Y, Y = (X \ {c}) \cup {c1, c2}
  PROVE  Regions(Y, M) /\ c1 # c2 /\ c1 \notin X \ {c} /\ c2 \notin X \ {c}
<1> USE Sizes DEF IsCut
<1>1. /\ c.addr \in Nat /\ c.bytes \in Nat /\ c.marked \in BOOLEAN
      /\ c.addr % Word = 0 /\ c.bytes % Word = 0 /\ End(c) = c.addr + c.bytes
  BY AreaFacts DEF Regions
<1>2. /\ c1 \in Area /\ c1.addr = c.addr /\ c1.bytes = n /\ c1.marked = c.marked /\ End(c1) = c.addr + n
      /\ c2 \in Area /\ c2.addr = c.addr + n /\ c2.bytes = c.bytes - n /\ c2.marked = FALSE
      /\ End(c2) = End(c)
  BY <1>1 DEF Area, End
<1>3. Shaped(Y)
  <2>1. (c.addr + n) % Word = 0 /\ (c.bytes - n) % Word = 0
    BY <1>1, MultiplesAdd
  <2>2. c2.bytes >= Header
    BY <1>1, <1>2
  <2> QED BY <1>1, <1>2, <2>1, <2>2 DEF Shaped, Regions
<1>4. ASSUME NEW d \in X, d # c
      PROVE  Apart(d, c1) /\ Apart(c1, d) /\ Apart(d, c2) /\ Apart(c2, d) /\ d # c1 /\ d # c2
  <2>1. d.addr \in Nat /\ End(d) \in Nat /\ d.addr < End(d)
    BY AreaFacts DEF Regions
  <2>2. End(c) <= d.addr \/ End(d) <= c.addr
    BY <1>4 DEF Regions, Disjoint, Apart
  <2> QED BY <1>1, <1>2, <2>1, <2>2 DEF Apart
<1>5. Disjoint(Y)
  <2>1. Apart(c1, c2) /\ Apart(c2, c1)
    BY <1>1, <1>2 DEF Apart
  <2>2. \A a, b \in X : a # b => Apart(a, b)
    BY DEF Disjoint, Regions
  <2>3. SUFFICES ASSUME NEW a \in Y, NEW b \in Y, a # b PROVE Apart(a, b)
    BY DEF Disjoint
  <2>4. CASE a \in X \ {c} /\ b \in X \ {c}
    BY <2>2, <2>3, <2>4
  <2>5. CASE a \in {c1, c2} /\ b \in {c1, c2}
    <3>1. CASE a = c1
      <4>1. b = c2
        BY <2>3, <2>5, <3>1
      <4> QED BY <2>1, <3>1, <4>1
    <3>2. CASE a = c2
      <4>1. b = c1
        BY <2>3, <2>5, <3>2
      <4> QED BY <2>1, <3>2, <4>1
    <3> QED BY <2>5, <3>1, <3>2
  <2>6. CASE a \in X \ {c} /\ b \in {c1, c2}
    BY <1>4, <2>6
  <2>7. CASE a \in {c1, c2} /\ b \in X \ {c}
    BY <1>4, <2>7
  <2> QED BY <2>4, <2>5, <2>6, <2>7
<1>6. Tiled(Y, M)
  <2>1. ASSUME NEW a, NEW d \in X, d.addr = a PROVE \E e \in Y : e.addr = a
    BY <1>2, <2>1
  <2>2. \A m \in M : \E e \in Y : e.addr = m.addr
    BY <2>1 DEF Regions, Tiled
  <2>3. \A d \in X, m \in M : Continues(d, m, X) => Continues(d, m, Y)
    BY <2>1 DEF Continues
  <2>4. ASSUME NEW d \in X, d # c
        PROVE  \E m \in M : Within(d, m) /\ Continues(d, m, Y)
    BY <2>3 DEF Regions, Tiled
  <2>5. PICK m \in M : Within(c, m) /\ Continues(c, m, X)
    BY DEF Regions, Tiled
  <2>6. m.addr \in Nat /\ End(m) \in Nat
    BY MappingFacts DEF Regions
  <2>7. Within(c1, m) /\ Within(c2, m)
    BY <1>1, <1>2, <2>5, <2>6 DEF Within
  <2>8. Continues(c1, m, Y)
    BY <1>2 DEF Continues
  <2>9. Continues(c2, m, Y)
    BY <1>2, <2>3, <2>5 DEF Continues
  <2>10. ASSUME NEW d \in Y PROVE \E x \in M : Within(d, x) /\ Continues(d, x, Y)
    <3>1. CASE d \in {c1, c2}
      BY <2>7, <2>8, <2>9, <3>1
    <3>2. CASE d \in X /\ d # c
      BY <2>4, <3>2
    <3> QED BY <3>1, <3>2
  <2> QED BY <2>2, <2>10 DEF Tiled
<1>7. Regions(Y, M)
  BY <1>3, <1>5, <1>6 DEF Regions
<1>8. c1.addr # c2.addr
  BY <1>1, <1>2
<1> QED BY <1>4, <1>7, <1>8


(* Joining two adjacent areas keeps the tiling, unless the second begins a *)
(* mapping: the two areas lie in one mapping.                              *)
LEMMA JoinRegions ==
  ASSUME NEW X, NEW M, Regions(X, M), NEW c \in X, NEW d \in X, MayCoalesce(c, d),
         NEW j, j = [addr |-> c.addr, bytes |-> c.bytes + d.bytes, marked |-> c.marked],
         NEW Y, Y = (X \ {c, d}) \cup {j}
  PROVE  Regions(Y, M) /\ c # d /\ j \notin X \ {c, d}
<1> USE Sizes
<1>1. /\ c.addr \in Nat /\ c.bytes \in Nat /\ c.marked \in BOOLEAN /\ c.bytes >= Header
      /\ c.addr % Word = 0 /\ c.bytes % Word = 0 /\ End(c) = c.addr + c.bytes /\ End(c) > c.addr
      /\ d.addr \in Nat /\ d.bytes \in Nat /\ d.bytes % Word = 0 /\ d.bytes >= Header
      /\ End(d) = d.addr + d.bytes /\ End(d) > d.addr
  BY AreaFacts DEF Regions
<1>2. ~d.marked /\ d.addr = End(c)
  BY DEF MayCoalesce, End
<1>3. /\ j \in Area /\ j.addr = c.addr /\ j.bytes = c.bytes + d.bytes /\ j.marked = c.marked
      /\ End(j) = End(d)
  BY <1>1, <1>2 DEF Area, End
<1>4. c # d
  BY <1>1, <1>2
<1>5. Shaped(Y)
  <2>1. (c.bytes + d.bytes) % Word = 0
    BY <1>1, MultiplesAdd
  <2>2. j.bytes >= Header
    BY <1>1, <1>3
  <2> QED BY <1>1, <1>3, <2>1, <2>2 DEF Shaped, Regions
<1>6. ASSUME NEW e \in X \ {c, d}
      PROVE  Apart(e, j) /\ Apart(j, e) /\ e # j
  <2>1. e.addr \in Nat /\ End(e) \in Nat /\ e.addr < End(e)
    BY AreaFacts DEF Regions
  <2>2. End(c) <= e.addr \/ End(e) <= c.addr
    BY <1>6 DEF Regions, Disjoint, Apart
  <2>3. End(d) <= e.addr \/ End(e) <= d.addr
    BY <1>6 DEF Regions, Disjoint, Apart
  <2> QED BY <1>1, <1>2, <1>3, <2>1, <2>2, <2>3 DEF Apart
<1>7. Disjoint(Y)
  <2>1. \A a, b \in X : a # b => Apart(a, b)
    BY DEF Disjoint, Regions
  <2>2. SUFFICES ASSUME NEW a \in Y, NEW b \in Y, a # b PROVE Apart(a, b)
    BY DEF Disjoint
  <2>3. CASE a \in X \ {c, d} /\ b \in X \ {c, d}
    BY <2>1, <2>2, <2>3
  <2>4. CASE a \in X \ {c, d} /\ b = j
    BY <1>6, <2>4
  <2>5. CASE a = j /\ b \in X \ {c, d}
    BY <1>6, <2>5
  <2> QED BY <2>2, <2>3, <2>4, <2>5
<1>8. PICK m \in M : Within(c, m) /\ Continues(c, m, X)
  BY DEF Regions, Tiled
<1>9. PICK n \in M : Within(d, n) /\ Continues(d, n, X)
  BY DEF Regions, Tiled
<1>10. {m.addr, End(m), n.addr, End(n)} \subseteq Nat
  BY MappingFacts DEF Regions
<1>11. n = m
  <2>1. n.addr < d.addr /\ n.addr + 1 <= d.addr
    <3>1. d.addr # n.addr
      BY <1>2, <1>9 DEF Within
    <3>2. n.addr <= d.addr
      BY <1>9 DEF Within
    <3>3. n.addr \in Nat /\ d.addr \in Nat
      BY <1>1, <1>10
    <3> QED BY <3>1, <3>2, <3>3
  <2>2. d.addr - 1 \in Nat /\ m.addr <= d.addr - 1 /\ d.addr - 1 < End(m)
    BY <1>1, <1>2, <1>8, <1>10 DEF Within
  <2>3. n.addr <= d.addr - 1 /\ d.addr - 1 < End(n)
    BY <1>1, <1>9, <1>10, <2>1 DEF Within
  <2> QED BY <2>2, <2>3, SameMapping DEF Regions
<1>12. Tiled(Y, M)
  <2>1. ASSUME NEW o \in M PROVE d.addr # o.addr
    <3>1. SUFFICES ASSUME d.addr = o.addr PROVE FALSE
      OBVIOUS
    <3>2. End(o) \in Nat /\ o.addr < End(o)
      BY MappingFacts DEF Regions
    <3>3. d.marked
      BY <1>1, <3>1, <3>2, MarkedBegins DEF Within
    <3> QED BY <1>2, <3>3
  <2>2. ASSUME NEW a, NEW e \in X, e.addr = a, e # d PROVE \E f \in Y : f.addr = a
    BY <1>3, <2>2
  <2>3. \A o \in M : \E e \in Y : e.addr = o.addr
    BY <2>1, <2>2 DEF Regions, Tiled
  <2>4. ASSUME NEW e \in X, e # c, NEW o \in M, Continues(e, o, X) PROVE Continues(e, o, Y)
    <3>1. End(e) # d.addr
      BY <1>2, <2>4, SameArea DEF Regions
    <3> QED BY <2>2, <2>4, <3>1 DEF Continues
  <2>5. ASSUME NEW e \in X \ {c, d}
        PROVE  \E o \in M : Within(e, o) /\ Continues(e, o, Y)
    BY <2>4 DEF Regions, Tiled
  <2>6. Within(j, m)
    BY <1>1, <1>2, <1>3, <1>8, <1>9, <1>10, <1>11 DEF Within
  <2>7. Continues(d, m, Y)
    BY <1>4, <1>9, <1>11, <2>4
  <2>8. Continues(j, m, Y)
    BY <1>3, <2>7 DEF Continues
  <2> QED BY <2>3, <2>5, <2>6, <2>8 DEF Tiled
<1>13. Regions(Y, M)
  BY <1>5, <1>7, <1>12 DEF Regions
<1> QED BY <1>4, <1>6, <1>13

(* b bytes of whole pages at address a that overlap no mapping of M.       *)
IsFresh(a, b, M) ==
  /\ a \in Nat /\ b \in Nat \ {0} /\ a % Page = 0 /\ b % Page = 0 /\ b >= Header
  /\ \A m \in M : a + b <= m.addr \/ m.addr + m.bytes <= a

FreshArea(a, b) == [addr |-> a, bytes |-> b, marked |-> TRUE]

(* A new mapping that overlaps no other, with one marked area.             *)
LEMMA AddRegions ==
  ASSUME NEW X, NEW M, Regions(X, M), NEW a, NEW b, IsFresh(a, b, M),
         NEW c, c = FreshArea(a, b)
  PROVE  /\ Regions(X \cup {c}, M \cup {[addr |-> a, bytes |-> b]})
         /\ \A d \in X : Apart(c, d) /\ Apart(d, c) /\ d # c /\ ~MayCoalesce(c, d)
<1> USE Sizes DEF IsFresh, FreshArea
<1> DEFINE n == [addr |-> a, bytes |-> b]
<1>1. /\ c \in Area /\ c.addr = a /\ c.bytes = b /\ c.marked = TRUE /\ End(c) = a + b
      /\ n \in [addr : Nat, bytes : Nat \ {0}] /\ n.addr = a /\ n.bytes = b /\ End(n) = a + b
  BY DEF Area, End
<1>2. a % Word = 0 /\ b % Word = 0
  BY PageWords
<1>3. Shaped(X \cup {c})
  BY <1>1, <1>2 DEF Shaped, Regions
<1>4. \A m \in M : Apart(n, m) /\ Apart(m, n)
  BY <1>1 DEF Apart, End
<1>5. AreMappings(M \cup {n})
  BY <1>1, <1>4 DEF AreMappings, Disjoint, Regions
<1>6. ASSUME NEW d \in X
      PROVE  Apart(c, d) /\ Apart(d, c) /\ d # c /\ ~MayCoalesce(c, d)
  <2>1. PICK m \in M : Within(d, m) /\ Continues(d, m, X)
    BY DEF Regions, Tiled
  <2>2. {m.addr, End(m), d.addr, End(d)} \subseteq Nat /\ d.addr < End(d)
    BY AreaFacts, MappingFacts DEF Regions
  <2>3. End(n) <= m.addr \/ End(m) <= a
    BY <1>1, <1>4 DEF Apart
  <2>4. a + b <= d.addr \/ End(d) <= a
    BY <1>1, <2>1, <2>2, <2>3 DEF Within
  <2>5. d.addr = a + b => d.marked
    BY <1>1, <2>1, <2>2, <2>3 DEF Within
  <2> QED BY <1>1, <2>2, <2>4, <2>5 DEF Apart, MayCoalesce
<1>7. Disjoint(X \cup {c})
  BY <1>6 DEF Disjoint, Regions
<1>8. Tiled(X \cup {c}, M \cup {n})
  <2>1. Within(c, n) /\ Continues(c, n, X \cup {c})
    BY <1>1 DEF Within, Continues
  <2>2. \A d \in X, m \in M : Continues(d, m, X) => Continues(d, m, X \cup {c})
    BY DEF Continues
  <2>3. c.addr = n.addr
    BY <1>1
  <2> QED BY <2>1, <2>2, <2>3 DEF Tiled, Regions
<1> QED BY <1>3, <1>5, <1>6, <1>7, <1>8 DEF Regions


-----------------------------------------------------------------------------
(* The list. *)

(* What it says of the chunks of a list that it is a free list.            *)
LEMMA FreeFacts ==
  ASSUME NEW list, IsFreeList(list)
  PROVE  /\ Len(list) \in Nat /\ DOMAIN list = 1..Len(list)
         /\ \A i \in 1..Len(list) :
              /\ list[i] \in Area /\ list[i] \in Elems(list)
              /\ list[i].addr \in Nat /\ list[i].bytes \in Nat /\ list[i].marked \in BOOLEAN
              /\ list[i].bytes >= Header /\ list[i].bytes > Word
              /\ End(list[i]) \in Nat /\ End(list[i]) = list[i].addr + list[i].bytes
              /\ End(list[i]) > list[i].addr
<1>1. Len(list) \in Nat /\ DOMAIN list = 1..Len(list) /\ \A i \in 1..Len(list) : list[i] \in Area
  BY Elements DEF IsFreeList
<1>2. ASSUME NEW i \in 1..Len(list)
      PROVE  /\ list[i] \in Elems(list)
             /\ list[i].addr \in Nat /\ list[i].bytes \in Nat /\ list[i].marked \in BOOLEAN
             /\ list[i].bytes >= Header
  BY <1>1 DEF Elems, Area, IsFreeList
<1> QED BY SMTT(30), <1>1, <1>2, Sizes DEF End

(* Two places of a sorted list hold two areas. *)
LEMMA FreeDistinct ==
  ASSUME NEW list, IsFreeList(list), NEW i \in 1..Len(list), NEW j \in 1..Len(list), i # j
  PROVE  list[i] # list[j] /\ Apart(list[i], list[j])
<1>1. i \in Nat /\ j \in Nat
  BY FreeFacts
<1>2. End(list[i]) > list[i].addr /\ list[i].addr \in Nat /\ End(list[i]) \in Nat
  BY FreeFacts
<1>3. End(list[i]) <= list[j].addr \/ End(list[j]) <= list[i].addr
  BY <1>1 DEF IsFreeList
<1> QED BY <1>2, <1>3 DEF Apart

(* insert_chunk_sorted() keeps the list sorted, because the areas are      *)
(* disjoint and longer than the offset of the value in its node.           *)
LEMMA InsertSortedFree ==
  ASSUME NEW list, IsFreeList(list),
         NEW c \in Area, c.bytes >= Header, \A d \in Elems(list) : Apart(c, d),
         NEW i, i = SortedPos(list, c.addr), NEW l, l = InsertSorted(list, c)
  PROVE  /\ i \in 1..Len(list) + 1 /\ Len(l) = Len(list) + 1
         /\ \A j \in 1..Len(l) : l[j] = IF j < i THEN list[j] ELSE IF j = i THEN c ELSE list[j - 1]
         /\ IsFreeList(l)
         /\ Elems(l) = Elems(list) \cup {c}
<1>1. Len(list) \in Nat /\ c.addr \in Nat /\ c.bytes \in Nat /\ End(c) = c.addr + c.bytes
  BY FreeFacts DEF Area, End
<1>4. /\ i \in 1..Len(list) + 1
      /\ \A j \in 1..Len(list) : j < i => ~(ValueAddr(list[j]) >= c.addr)
      /\ i <= Len(list) => ValueAddr(list[i]) >= c.addr
  BY <1>1, SortedPosFirst
<1>5. \A j \in 1..Len(list) : list[j].addr \in Nat /\ list[j].bytes \in Nat /\ list[j].bytes >= Header
                              /\ list[j].bytes > Word /\ End(list[j]) = list[j].addr + list[j].bytes
                              /\ list[j] \in Elems(list)
  BY FreeFacts
<1>6. ASSUME NEW j \in 1..Len(list), j < i PROVE End(list[j]) <= c.addr
  <2>1. ~(ValueAddr(list[j]) >= c.addr)
    BY <1>4, <1>6
  <2>2. list[j].addr + Header - Word < c.addr
    <3>1. list[j].addr \in Nat
      BY <1>5
    <3> QED BY <1>1, <2>1, <3>1, Sizes DEF ValueAddr
  <2>3. Apart(c, list[j])
    BY <1>5
  <2> QED BY <1>1, <1>5, <2>2, <2>3, Sizes DEF Apart
<1>7. ASSUME NEW j \in 1..Len(list), i <= j PROVE End(c) <= list[j].addr
  <2>1. i \in 1..Len(list) /\ ValueAddr(list[i]) >= c.addr
    BY <1>1, <1>4, <1>7
  <2>2. list[i].addr + Header - Word >= c.addr
    BY <1>1, <1>5, <2>1, Sizes DEF ValueAddr
  <2>3. End(c) <= list[i].addr \/ End(list[i]) <= c.addr
    BY <1>5, <2>1 DEF Apart
  <2>4. End(c) <= list[i].addr
    <3>1. /\ list[i].addr \in Nat /\ list[i].bytes \in Nat /\ list[i].bytes >= Header
          /\ End(list[i]) = list[i].addr + list[i].bytes
      BY <1>5, <2>1
    <3> QED BY <1>1, <2>2, <2>3, <3>1, Sizes
  <2>5. list[i].addr <= list[j].addr
    <3>1. CASE i < j
      <4>1. End(list[i]) <= list[j].addr
        BY <2>1, <3>1 DEF IsFreeList
      <4>2. /\ list[i].addr \in Nat /\ list[i].bytes \in Nat /\ list[j].addr \in Nat
            /\ End(list[i]) = list[i].addr + list[i].bytes
        BY <1>5, <2>1
      <4> QED BY <4>1, <4>2
    <3>2. CASE i = j
      BY <1>5, <3>2
    <3> QED BY <1>1, <1>4, <1>7, <3>1, <3>2
  <2> QED BY <1>1, <1>5, <2>1, <2>4, <2>5
<1>8. /\ l \in Seq(Area) /\ Len(l) = Len(list) + 1
      /\ \A j \in 1..Len(list) + 1 : l[j] = IF j < i THEN list[j] ELSE IF j = i THEN c ELSE list[j - 1]
  <2>1. l = InsertAt(list, i, c) /\ list \in Seq(Area)
    BY DEF InsertSorted, IsFreeList
  <2>2. i \in 1..Len(list) + 1
    BY <1>4
  <2>3. /\ InsertAt(list, i, c) \in Seq(Area) /\ Len(InsertAt(list, i, c)) = Len(list) + 1
        /\ \A j \in 1..Len(list) + 1 :
             InsertAt(list, i, c)[j] = IF j < i THEN list[j] ELSE IF j = i THEN c ELSE list[j - 1]
    BY SMTT(30), <2>1, <2>2, InsertAtElements
  <2> QED BY <2>1, <2>3
<1>9. IsFreeList(l)
  <2>1. ASSUME NEW j \in 1..Len(l) PROVE l[j].bytes >= Header
    <3>1. CASE j < i
      BY <1>1, <1>4, <1>5, <1>8, <3>1
    <3>2. CASE j = i
      BY <1>8, <3>2
    <3>3. CASE j > i
      <4>1. j - 1 \in 1..Len(list) /\ l[j] = list[j - 1]
        BY <1>1, <1>4, <1>8, <3>3
      <4> QED BY <1>5, <4>1
    <3> QED BY <1>1, <1>4, <1>8, <3>1, <3>2, <3>3
  <2>2. ASSUME NEW j \in 1..Len(l), NEW k \in 1..Len(l), j < k
        PROVE  End(l[j]) <= l[k].addr
    <3>1. \A a, b \in 1..Len(list) : a < b => End(list[a]) <= list[b].addr
      BY DEF IsFreeList
    <3>2. CASE k < i
      <4>1. j \in 1..Len(list) /\ k \in 1..Len(list) /\ j < i
        BY <1>1, <1>4, <1>8, <2>2, <3>2
      <4> QED BY <1>8, <2>2, <3>1, <3>2, <4>1
    <3>3. CASE k = i
      <4>1. j \in 1..Len(list) /\ j < i
        BY <1>1, <1>4, <1>8, <2>2, <3>3
      <4> QED BY <1>6, <1>8, <3>3, <4>1
    <3>4. CASE k > i
      <4>1. k - 1 \in 1..Len(list) /\ i <= k - 1 /\ l[k] = list[k - 1]
        BY <1>1, <1>4, <1>8, <3>4
      <4>2. CASE j < i
        <5>1. j \in 1..Len(list) /\ l[j] = list[j] /\ j < k - 1
          BY <1>1, <1>4, <1>8, <3>4, <4>2
        <5> QED BY <3>1, <4>1, <5>1
      <4>3. CASE j = i
        <5>1. l[j] = c
          BY <1>8, <4>3
        <5> QED BY <1>7, <4>1, <5>1
      <4>4. CASE j > i
        <5>1. j - 1 \in 1..Len(list) /\ l[j] = list[j - 1] /\ j - 1 < k - 1
          BY SMTT(30), <1>1, <1>4, <1>8, <2>2, <4>4
        <5> QED BY <3>1, <4>1, <5>1
      <4> QED BY <1>1, <1>4, <1>8, <4>2, <4>3, <4>4
    <3> QED BY <1>1, <1>4, <1>8, <3>2, <3>3, <3>4
  <2> QED BY <1>8, <2>1, <2>2 DEF IsFreeList
<1>10. Elems(l) = Elems(list) \cup {c}
  <2>1. DOMAIN l = 1..Len(list) + 1 /\ DOMAIN list = 1..Len(list)
    BY <1>8, <1>9, FreeFacts
  <2>2. ASSUME NEW j \in 1..Len(list) + 1 PROVE l[j] \in Elems(list) \cup {c}
    <3>1. CASE j < i
      BY <1>1, <1>4, <1>5, <1>8, <3>1
    <3>2. CASE j = i
      BY <1>8, <3>2
    <3>3. CASE j > i
      <4>1. j - 1 \in 1..Len(list) /\ l[j] = list[j - 1]
        BY <1>1, <1>4, <1>8, <3>3
      <4> QED BY <1>5, <4>1
    <3> QED BY <1>1, <1>4, <3>1, <3>2, <3>3
  <2>3. c \in Elems(l)
    <3>1. l[i] = c
      BY <1>1, <1>4, <1>8
    <3> QED BY <1>4, <2>1, <3>1 DEF Elems
  <2>4. ASSUME NEW j \in 1..Len(list) PROVE list[j] \in Elems(l)
    <3>1. CASE j < i
      <4>1. j \in 1..Len(list) + 1 /\ l[j] = list[j]
        BY <1>1, <1>4, <1>8, <3>1
      <4> QED BY <2>1, <4>1 DEF Elems
    <3>2. CASE j >= i
      <4>1. j + 1 \in 1..Len(list) + 1 /\ l[j + 1] = list[j]
        BY <1>1, <1>4, <1>8, <3>2
      <4> QED BY <2>1, <4>1 DEF Elems
    <3> QED BY <1>1, <1>4, <3>1, <3>2
  <2> QED BY <2>1, <2>2, <2>3, <2>4 DEF Elems
<1> QED BY <1>4, <1>8, <1>9, <1>10


(* Removing a chunk leaves a sorted free list without it.                  *)
LEMMA RemoveFree ==
  ASSUME NEW list, IsFreeList(list), NEW i \in 1..Len(list), NEW l, l = RemoveAt(list, i)
  PROVE  /\ Len(l) = Len(list) - 1
         /\ \A j \in 1..Len(l) : l[j] = IF j < i THEN list[j] ELSE list[j + 1]
         /\ IsFreeList(l)
         /\ Elems(l) = Elems(list) \ {list[i]}
<1>1. Len(list) \in Nat /\ DOMAIN list = 1..Len(list)
  BY FreeFacts
<1>2. list \in Seq(Area)
  BY DEF IsFreeList
<1>3. /\ l \in Seq(Area) /\ Len(l) = Len(list) - 1
      /\ \A j \in 1..Len(list) - 1 : l[j] = IF j < i THEN list[j] ELSE list[j + 1]
  BY <1>2, RemoveAtElements
<1> DEFINE at(j) == IF j < i THEN j ELSE j + 1
<1>4. \A j \in 1..Len(l) : at(j) \in 1..Len(list) /\ at(j) # i /\ l[j] = list[at(j)]
  BY <1>1, <1>3
<1>5. \A j, k \in 1..Len(l) : j < k => at(j) < at(k)
  BY <1>1, <1>3
<1>6. \A k \in 1..Len(list) : k # i => \E j \in 1..Len(l) : at(j) = k
  <2>1. SUFFICES ASSUME NEW k \in 1..Len(list), k # i PROVE \E j \in 1..Len(l) : at(j) = k
    OBVIOUS
  <2>2. CASE k < i
    <3>1. k \in 1..Len(l) /\ at(k) = k
      BY <1>1, <1>3, <2>2
    <3> QED BY <3>1
  <2>3. CASE k > i
    <3>1. k - 1 \in 1..Len(l) /\ at(k - 1) = k
      BY <1>1, <1>3, <2>3
    <3> QED BY <3>1
  <2> QED BY <1>1, <2>1, <2>2, <2>3
<1> HIDE DEF at
<1>7. IsFreeList(l)
  BY <1>3, <1>4, <1>5 DEF IsFreeList
<1>8. DOMAIN l = 1..Len(l)
  BY <1>7, FreeFacts
<1>9. \A k \in 1..Len(list) : k # i => list[k] # list[i]
  BY FreeDistinct
<1>10. Elems(l) = Elems(list) \ {list[i]}
  <2>1. Elems(l) \subseteq Elems(list) \ {list[i]}
    BY <1>1, <1>4, <1>8, <1>9 DEF Elems
  <2>2. ASSUME NEW k \in 1..Len(list), list[k] # list[i] PROVE list[k] \in Elems(l)
    BY <1>4, <1>6, <1>8, <2>2 DEF Elems
  <2> QED BY <1>1, <2>1, <2>2 DEF Elems
<1> QED BY <1>3, <1>7, <1>10

(* A chunk may shrink in its place.                                        *)
LEMMA ReplaceFree ==
  ASSUME NEW list, IsFreeList(list), NEW i \in 1..Len(list),
         NEW e \in Area, e.bytes >= Header, list[i].addr <= e.addr, End(e) <= End(list[i]),
         NEW l, l = ReplaceAt(list, i, e)
  PROVE  /\ Len(l) = Len(list)
         /\ \A j \in 1..Len(l) : l[j] = IF j = i THEN e ELSE list[j]
         /\ IsFreeList(l)
         /\ Elems(l) = (Elems(list) \ {list[i]}) \cup {e}
<1>1. Len(list) \in Nat /\ DOMAIN list = 1..Len(list)
  BY FreeFacts
<1>2. list \in Seq(Area)
  BY DEF IsFreeList
<1>3. /\ l \in Seq(Area) /\ Len(l) = Len(list)
      /\ \A j \in 1..Len(list) : l[j] = IF j = i THEN e ELSE list[j]
  BY <1>2, ExceptSeq DEF ReplaceAt
<1>4. \A j \in 1..Len(list) : list[j].addr \in Nat /\ End(list[j]) \in Nat /\ list[j].bytes >= Header
  BY FreeFacts
<1>5. e.addr \in Nat /\ e.bytes \in Nat /\ End(e) \in Nat
  BY DEF Area, End
<1>6. \A j \in 1..Len(l) : list[j].addr <= l[j].addr /\ End(l[j]) <= End(list[j]) /\ l[j].bytes >= Header
                           /\ l[j].addr \in Nat /\ End(l[j]) \in Nat
  BY <1>3, <1>4, <1>5
<1>7. IsFreeList(l)
  <2>1. ASSUME NEW j \in 1..Len(l), NEW k \in 1..Len(l), j < k PROVE End(l[j]) <= l[k].addr
    <3>1. End(list[j]) <= list[k].addr
      BY <1>3, <2>1 DEF IsFreeList
    <3>2. /\ End(l[j]) <= End(list[j]) /\ list[k].addr <= l[k].addr
          /\ End(l[j]) \in Nat /\ End(list[j]) \in Nat /\ list[k].addr \in Nat /\ l[k].addr \in Nat
      BY <1>3, <1>4, <1>6
    <3> QED BY <3>1, <3>2
  <2> QED BY <1>3, <1>6, <2>1 DEF IsFreeList
<1>8. DOMAIN l = 1..Len(l)
  BY <1>7, FreeFacts
<1>9. \A k \in 1..Len(list) : k # i => list[k] # list[i]
  BY FreeDistinct
<1>10. Elems(l) = (Elems(list) \ {list[i]}) \cup {e}
  BY <1>1, <1>3, <1>8, <1>9 DEF Elems
<1> QED BY <1>3, <1>7, <1>10

(* What coalesce() does, and that it brings no new work for itself.        *)
LEMMA CoalesceFree ==
  ASSUME NEW list, IsFreeList(list), NEW i \in 1..Len(list), NEW l, l = Coalesce(list, i)
  PROVE  \/ /\ l = list
            /\ i = Len(list) \/ ~MayCoalesce(list[i], list[i + 1])
         \/ /\ i + 1 \in 1..Len(list) /\ MayCoalesce(list[i], list[i + 1])
            /\ IsFreeList(l)
            /\ Len(l) = Len(list) - 1
            /\ l[i] = [addr |-> list[i].addr, bytes |-> list[i].bytes + list[i + 1].bytes,
                       marked |-> list[i].marked]
            /\ Elems(l) = (Elems(list) \ {list[i], list[i + 1]}) \cup {l[i]}
            /\ \A j \in 1..Len(l) - 1 :
                 MayCoalesce(l[j], l[j + 1]) =>
                   \/ j < i /\ MayCoalesce(list[j], list[j + 1])
                   \/ j >= i /\ MayCoalesce(list[j + 1], list[j + 2])
<1>1. /\ Len(list) \in Nat /\ DOMAIN list = 1..Len(list)
      /\ \A j \in 1..Len(list) :
           /\ list[j] \in Area /\ list[j].addr \in Nat /\ list[j].bytes \in Nat
           /\ list[j].marked \in BOOLEAN /\ list[j].bytes >= Header
           /\ End(list[j]) = list[j].addr + list[j].bytes
  BY FreeFacts
<1>2. CASE ~(i < Len(list) /\ MayCoalesce(list[i], list[i + 1]))
  <2>1. l = list
    BY <1>2 DEF Coalesce
  <2>2. i = Len(list) \/ ~MayCoalesce(list[i], list[i + 1])
    BY <1>1, <1>2
  <2> QED BY <2>1, <2>2
<1>3. CASE i < Len(list) /\ MayCoalesce(list[i], list[i + 1])
  <2>1. i + 1 \in 1..Len(list) /\ i # i + 1
    BY <1>1, <1>3
  <2> DEFINE r == RemoveAt(list, i + 1)
             e == [addr |-> list[i].addr, bytes |-> list[i].bytes + list[i + 1].bytes,
                   marked |-> list[i].marked]
  <2>2. /\ Len(r) = Len(list) - 1
        /\ \A j \in 1..Len(r) : r[j] = IF j < i + 1 THEN list[j] ELSE list[j + 1]
        /\ IsFreeList(r)
        /\ Elems(r) = Elems(list) \ {list[i + 1]}
    BY <2>1, RemoveFree
  <2>3. [list[i] EXCEPT !.bytes = @ + list[i + 1].bytes] = e
    BY <1>1 DEF Area
  <2>4. l = ReplaceAt(r, i, e)
    BY <1>3, <2>3 DEF Coalesce
  <2> HIDE DEF r
  <2>5. i \in 1..Len(r) /\ r[i] = list[i] /\ DOMAIN r = 1..Len(r) /\ r \in Seq(Area)
    BY <1>1, <1>3, <2>2, FreeFacts DEF IsFreeList
  <2>6. /\ list[i + 1].addr = End(list[i]) /\ ~list[i + 1].marked
    BY <1>3 DEF MayCoalesce, End
  <2>7. /\ e \in Area /\ e.addr = list[i].addr /\ e.bytes = list[i].bytes + list[i + 1].bytes
        /\ e.marked = list[i].marked /\ End(e) = End(list[i + 1]) /\ End(e) \in Nat /\ e.bytes >= Header
    BY <1>1, <2>1, <2>6, Sizes DEF Area, End
  <2> HIDE DEF e
  <2>8. /\ l \in Seq(Area) /\ Len(l) = Len(r)
        /\ \A j \in 1..Len(r) : l[j] = IF j = i THEN e ELSE r[j]
    BY <2>4, <2>5, <2>7, ExceptSeq DEF ReplaceAt
  <2>9. Len(r) \in Nat /\ DOMAIN l = 1..Len(l)
    BY <1>1, <2>2, <2>8, LenProperties
  <2>10. \A j, k \in 1..Len(r) : j < k => End(r[j]) <= r[k].addr
    BY <2>2 DEF IsFreeList
  <2>11. ASSUME NEW j \in 1..Len(r), i < j PROVE End(e) <= r[j].addr
    <3>1. r[j] = list[j + 1] /\ j + 1 \in 1..Len(list) /\ i + 1 < j + 1
      BY <1>1, <2>1, <2>2, <2>11
    <3> QED BY <2>1, <2>7, <3>1 DEF IsFreeList
  <2>12. ASSUME NEW j \in 1..Len(r), j < i PROVE End(r[j]) <= e.addr
    BY <2>5, <2>7, <2>10, <2>12
  <2>13. IsFreeList(l)
    <3>1. \A j \in 1..Len(l) : l[j].bytes >= Header
      BY <2>2, <2>7, <2>8 DEF IsFreeList
    <3>2. ASSUME NEW j \in 1..Len(l), NEW k \in 1..Len(l), j < k PROVE End(l[j]) <= l[k].addr
      BY <2>5, <2>8, <2>10, <2>11, <2>12, <3>2
    <3> QED BY <2>8, <3>1, <3>2 DEF IsFreeList
  <2>14. l[i] = e
    BY <2>5, <2>8
  <2>15. Elems(l) = (Elems(r) \ {r[i]}) \cup {e}
    <3>1. \A k \in 1..Len(r) : k # i => r[k] # r[i]
      BY <2>2, <2>5, FreeDistinct
    <3> QED BY <2>5, <2>8, <2>9, <3>1 DEF Elems
  <2>16. Elems(l) = (Elems(list) \ {list[i], list[i + 1]}) \cup {e}
    BY <2>2, <2>5, <2>15
  <2>17. ASSUME NEW j \in 1..Len(l) - 1, MayCoalesce(l[j], l[j + 1])
         PROVE  \/ j < i /\ MayCoalesce(list[j], list[j + 1])
                \/ j >= i /\ MayCoalesce(list[j + 1], list[j + 2])
    <3>0. j \in 1..Len(r) /\ j + 1 \in 1..Len(r) /\ Len(l) = Len(r) /\ j \in Nat /\ i \in Nat
      BY <2>8, <2>9, <2>5
    <3>1. CASE j + 1 < i
      <4>1. l[j] = list[j] /\ l[j + 1] = list[j + 1]
        BY <2>2, <2>8, <3>0, <3>1
      <4> QED BY <2>17, <3>0, <3>1, <4>1
    <3>2. CASE j + 1 = i
      <4>1. l[j] = list[j] /\ l[j + 1] = e
        BY <2>2, <2>8, <3>0, <3>2
      <4> QED BY <2>7, <2>17, <3>0, <3>2, <4>1 DEF MayCoalesce
    <3>3. CASE j = i
      <4>1. l[j] = e /\ l[j + 1] = list[j + 2]
        <5>1. l[j + 1] = r[j + 1] /\ r[j + 1] = list[j + 1 + 1] /\ j + 1 + 1 = j + 2
          BY <2>2, <2>8, <3>0, <3>3
        <5> QED BY <2>14, <3>3, <5>1
      <4> QED BY <2>7, <2>17, <3>0, <3>3, <4>1 DEF MayCoalesce, End
    <3>4. CASE j > i
      <4>1. l[j] = list[j + 1] /\ l[j + 1] = list[j + 2]
        <5>1. l[j + 1] = r[j + 1] /\ r[j + 1] = list[j + 1 + 1] /\ j + 1 + 1 = j + 2
          BY <2>2, <2>8, <3>0, <3>4
        <5>2. l[j] = r[j] /\ r[j] = list[j + 1]
          BY <2>2, <2>8, <3>0, <3>4
        <5> QED BY <5>1, <5>2
      <4> QED BY <2>17, <3>0, <3>4, <4>1
    <3>5. j + 1 < i \/ j + 1 = i \/ j = i \/ j > i
      BY <3>0
    <3> QED BY <3>1, <3>2, <3>3, <3>4, <3>5
  <2> QED BY <1>3, <2>1, <2>2, <2>8, <2>13, <2>14, <2>16, <2>17 DEF e
<1> QED BY <1>2, <1>3


-----------------------------------------------------------------------------
(* The operations. *)

(* Chunks in use are areas of the allocator and not in the free list.      *)
LEMMA GoodFacts ==
  ASSUME NEW list, NEW U, NEW M, Good(list, U, M)
  PROVE  /\ \A u \in U : /\ AreaOf(u) \in Areas(list, U) /\ AreaOf(u) \in Area
                         /\ AreaOf(u).addr = u.addr /\ AreaOf(u).bytes = u.bytes
                         /\ AreaOf(u).marked = u.marked
                         /\ End(AreaOf(u)) = End(u)
         /\ Elems(list) \subseteq Areas(list, U)
         /\ \A c \in Elems(list), u \in U : c # AreaOf(u)
BY DEF Good, InUse, Areas, AreaOf, Area, Block, End

(* coalesce() touches no chunk in use and keeps the tiling.                *)
LEMMA CoalesceGood ==
  ASSUME NEW list, NEW U, NEW M, Good(list, U, M), NEW i \in 1..Len(list),
         NEW l, l = Coalesce(list, i)
  PROVE  Good(l, U, M)
<1>1. CASE l = list
  BY <1>1
<1>2. CASE ~(l = list)
  <2>1. IsFreeList(list)
    BY DEF Good
  <2>2. /\ i + 1 \in 1..Len(list) /\ MayCoalesce(list[i], list[i + 1])
        /\ IsFreeList(l)
        /\ l[i] = [addr |-> list[i].addr, bytes |-> list[i].bytes + list[i + 1].bytes,
                   marked |-> list[i].marked]
        /\ Elems(l) = (Elems(list) \ {list[i], list[i + 1]}) \cup {l[i]}
    BY <1>2, <2>1, CoalesceFree
  <2> DEFINE c == list[i]
             d == list[i + 1]
             X == Areas(list, U)
             e == l[i]
             Y == (X \ {c, d}) \cup {e}
  <2>3. c \in Elems(list) /\ d \in Elems(list) /\ c \in X /\ d \in X
    BY <2>1, <2>2, FreeFacts DEF Areas
  <2>4. Regions(X, M)
    BY DEF Good
  <2>5. MayCoalesce(c, d) /\ e = [addr |-> c.addr, bytes |-> c.bytes + d.bytes, marked |-> c.marked]
    BY <2>2
  <2>6. \A u \in U : AreaOf(u) \in X /\ AreaOf(u) \notin Elems(list)
    BY GoodFacts
  <2>7. Elems(l) = (Elems(list) \ {c, d}) \cup {e}
    BY <2>2
  <2> HIDE DEF c, d, e, X
  <2>8. Regions(Y, M) /\ e \notin X \ {c, d}
    BY <2>3, <2>4, <2>5, JoinRegions
  <2>9. Areas(l, U) = Y
    <3>1. X = Elems(list) \cup {AreaOf(u) : u \in U}
      BY DEF X, Areas
    <3> QED BY <2>3, <2>6, <2>7, <3>1 DEF Areas
  <2>10. ASSUME NEW u \in U PROVE AreaOf(u) \notin Elems(l)
    BY <2>3, <2>6, <2>7, <2>8
  <2>11. InUse(l, U)
    BY <2>10 DEF Good, InUse
  <2> QED BY <2>2, <2>8, <2>9, <2>11 DEF Good
<1> QED BY <1>1, <1>2

(* reclaim_chunk() of a chunk in use leaves nothing to coalesce.           *)
LEMMA ReclaimGood ==
  ASSUME NEW list, NEW U, NEW M, Good(list, U, M), Coalesced(list), NEW u \in U,
         NEW l, l = Reclaim(list, AreaOf(u))
  PROVE  Good(l, U \ {u}, M) /\ Coalesced(l)
<1> DEFINE a == AreaOf(u)
           i == SortedPos(list, a.addr)
           l0 == InsertSorted(list, a)
           l1 == Coalesce(l0, i)
           V == U \ {u}
<1>1. /\ IsFreeList(list) /\ Regions(Areas(list, U), M) /\ InUse(list, U)
  BY DEF Good
<1>2. /\ a \in Area /\ a \in Areas(list, U) /\ a \notin Elems(list)
      /\ Elems(list) \subseteq Areas(list, U)
  BY GoodFacts
<1>3. a.bytes >= Header /\ \A d \in Elems(list) : Apart(a, d)
  <2>1. \A d \in Elems(list) : a # d
    BY <1>2
  <2> QED BY <1>1, <1>2, <2>1, AreaFacts DEF Regions, Disjoint
<1>4. l = IF i > 1 THEN Coalesce(l1, i - 1) ELSE l1
  BY DEF Reclaim
<1> HIDE DEF a, i, l0, l1
<1>5. /\ i \in 1..Len(list) + 1 /\ Len(l0) = Len(list) + 1
      /\ \A j \in 1..Len(l0) : l0[j] = IF j < i THEN list[j] ELSE IF j = i THEN a ELSE list[j - 1]
      /\ IsFreeList(l0)
      /\ Elems(l0) = Elems(list) \cup {a}
  BY <1>1, <1>2, <1>3, InsertSortedFree DEF i, l0
<1>6. Good(l0, V, M)
  <2>1. Areas(l0, V) = Areas(list, U)
    BY <1>5 DEF Areas, a
  <2>2. \A v \in V : AreaOf(v) \notin Elems(l0)
    BY <1>1, <1>5 DEF InUse, a
  <2>3. InUse(l0, V)
    BY <1>1, <2>2 DEF InUse
  <2> QED BY <1>1, <1>5, <2>1, <2>3 DEF Good
<1>7. Len(list) \in Nat /\ Len(l0) \in Nat /\ i \in 1..Len(l0) /\ i \in Nat
  BY <1>1, <1>5, FreeFacts
<1>8. ASSUME NEW j \in 1..Len(l0) - 1, MayCoalesce(l0[j], l0[j + 1])
      PROVE  j = i \/ j = i - 1
  <2>0. j \in 1..Len(l0) /\ j + 1 \in 1..Len(l0) /\ j \in Nat
    BY <1>7
  <2>1. \A k \in 1..Len(list) - 1 : ~MayCoalesce(list[k], list[k + 1])
    BY DEF Coalesced
  <2>2. CASE j + 1 < i
    <3>1. l0[j] = list[j] /\ l0[j + 1] = list[j + 1] /\ j \in 1..Len(list) - 1
      BY <1>5, <1>7, <2>0, <2>2
    <3> QED BY <1>8, <2>1, <3>1
  <2>3. CASE j > i
    <3>1. /\ l0[j] = list[j - 1] /\ l0[j + 1] = list[j + 1 - 1]
          /\ j + 1 - 1 = j - 1 + 1 /\ j - 1 \in 1..Len(list) - 1
      BY <1>5, <1>7, <2>0, <2>3
    <3> QED BY <1>8, <2>1, <3>1
  <2> QED BY <1>7, <2>0, <2>2, <2>3
<1>9. Good(l1, V, M) /\ IsFreeList(l1) /\ Len(l1) \in Nat
  <2>1. Good(l1, V, M)
    BY <1>6, <1>7, CoalesceGood DEF l1
  <2>2. IsFreeList(l1)
    BY <2>1 DEF Good
  <2> QED BY <2>1, <2>2, FreeFacts
<1>10. /\ i <= Len(l1)
       /\ \A j \in 1..Len(l1) - 1 : MayCoalesce(l1[j], l1[j + 1]) => j = i - 1
  <2> DEFINE Merged ==
        /\ i + 1 \in 1..Len(l0)
        /\ Len(l1) = Len(l0) - 1
        /\ \A j \in 1..Len(l1) - 1 :
             MayCoalesce(l1[j], l1[j + 1]) =>
               \/ j < i /\ MayCoalesce(l0[j], l0[j + 1])
               \/ j >= i /\ MayCoalesce(l0[j + 1], l0[j + 2])
  <2>1. \/ l1 = l0 /\ (i = Len(l0) \/ ~MayCoalesce(l0[i], l0[i + 1]))
        \/ Merged
    BY <1>5, <1>7, CoalesceFree DEF l1
  <2>2. CASE l1 = l0 /\ (i = Len(l0) \/ ~MayCoalesce(l0[i], l0[i + 1]))
    BY <1>7, <1>8, <2>2
  <2>3. CASE Merged
    <3>1. i <= Len(l1)
      BY <1>7, <2>3
    <3>2. ASSUME NEW j \in 1..Len(l1) - 1, MayCoalesce(l1[j], l1[j + 1]) PROVE j = i - 1
      <4>0. j \in Nat /\ j \in 1..Len(l0) - 1 /\ j + 1 \in 1..Len(l0) - 1 /\ j + 1 + 1 = j + 2
        BY <1>7, <1>9, <2>3
      <4>1. CASE j < i /\ MayCoalesce(l0[j], l0[j + 1])
        BY <1>7, <1>8, <4>0, <4>1
      <4>2. CASE j >= i /\ MayCoalesce(l0[j + 1], l0[j + 2])
        <5>1. MayCoalesce(l0[j + 1], l0[j + 1 + 1])
          BY <4>0, <4>2
        <5>2. j + 1 = i \/ j + 1 = i - 1
          BY <1>8, <4>0, <5>1
        <5> QED BY <1>7, <4>0, <4>2, <5>2
      <4> QED BY <2>3, <3>2, <4>1, <4>2
    <3> QED BY <3>1, <3>2
  <2> QED BY <2>1, <2>2, <2>3
<1>11. CASE ~(i > 1)
  <2>1. l = l1 /\ i = 1
    BY <1>4, <1>7, <1>11
  <2>2. Coalesced(l1)
    BY <1>9, <1>10, <2>1 DEF Coalesced
  <2> QED BY <1>9, <2>1, <2>2
<1>12. CASE i > 1
  <2>1. l = Coalesce(l1, i - 1) /\ i - 1 \in 1..Len(l1) /\ i - 1 + 1 = i /\ i - 1 \in Nat
    BY <1>4, <1>7, <1>9, <1>10, <1>12
  <2>2. Good(l, V, M)
    BY <1>9, <2>1, CoalesceGood
  <2>3. Coalesced(l)
    <3> DEFINE k == i - 1
    <3> DEFINE Merged ==
          /\ Len(l) = Len(l1) - 1
          /\ \A j \in 1..Len(l) - 1 :
               MayCoalesce(l[j], l[j + 1]) =>
                 \/ j < k /\ MayCoalesce(l1[j], l1[j + 1])
                 \/ j >= k /\ MayCoalesce(l1[j + 1], l1[j + 2])
    <3>1. k \in 1..Len(l1) /\ l = Coalesce(l1, k) /\ k \in Nat
      BY <2>1
    <3>2. \A j \in 1..Len(l1) - 1 : MayCoalesce(l1[j], l1[j + 1]) => j = k
      BY <1>10
    <3> HIDE DEF k
    <3>3. \/ l = l1 /\ (k = Len(l1) \/ ~MayCoalesce(l1[k], l1[k + 1]))
          \/ Merged
      BY <1>9, <3>1, CoalesceFree
    <3>4. CASE l = l1 /\ (k = Len(l1) \/ ~MayCoalesce(l1[k], l1[k + 1]))
      BY <1>9, <3>1, <3>2, <3>4 DEF Coalesced
    <3>5. CASE Merged
      <4>1. SUFFICES ASSUME NEW j \in 1..Len(l) - 1, MayCoalesce(l[j], l[j + 1]) PROVE FALSE
        BY DEF Coalesced
      <4>2. j \in Nat /\ j \in 1..Len(l1) - 1 /\ j + 1 \in 1..Len(l1) - 1 /\ j + 1 + 1 = j + 2
        BY <1>9, <3>5
      <4>3. CASE j < k /\ MayCoalesce(l1[j], l1[j + 1])
        BY <3>1, <3>2, <4>2, <4>3
      <4>4. CASE j >= k /\ MayCoalesce(l1[j + 1], l1[j + 2])
        <5>1. MayCoalesce(l1[j + 1], l1[j + 1 + 1])
          BY <4>2, <4>4
        <5>2. j + 1 = k
          BY <3>2, <4>2, <5>1
        <5> QED BY <3>1, <4>2, <4>4, <5>2
      <4> QED BY <3>5, <4>1, <4>3, <4>4
    <3> QED BY <3>3, <3>4, <3>5
  <2> QED BY <2>2, <2>3
<1> QED BY <1>11, <1>12


(* What a request that admits a split finds: both parts have room for a    *)
(* header, and the first for the request and its size.                     *)
LEMMA SplitSizes ==
  ASSUME NEW c, c \in Area, c.bytes % Word = 0, NEW r \in [size : Nat \ {0}, align : Nat],
         MaySplit(c, r), NEW n, n = SplitSize(r)
  PROVE  n \in Nat /\ n % Word = 0 /\ n >= Header /\ n >= r.size + Word /\ n + Header <= c.bytes
<1> USE Sizes
<1>1. r.size \in Nat \ {0} /\ c.bytes \in Nat /\ c.bytes >= Header + r.size + Word
  BY DEF Area, MaySplit
<1> DEFINE k == Larger(r.size + Word, Header)
<1>2. k \in Nat /\ k >= r.size + Word /\ k >= Header /\ (k = r.size + Word \/ k = Header)
  BY <1>1 DEF Larger
<1>3. n = Ceil(k, Word)
  BY DEF SplitSize
<1> HIDE DEF k
<1>4. n \in Int /\ k <= n /\ n % Word = 0
  BY <1>2, <1>3, CeilRounds
<1>5. Word % Word = 0 /\ Header % Word = 0
  <2>1. Word = Word * 1 /\ Header = Word * 2
    BY <1>1
  <2> QED BY <2>1, Product
<1> DEFINE b == c.bytes - Header
<1>6. b % Word = 0 /\ b \in Int /\ b >= r.size + Word
  <2>1. c.bytes \in Int /\ Header \in Int
    BY <1>1
  <2>2. b % Word = 0
    BY <1>5, <2>1, MultiplesAdd
  <2> QED BY <1>1, <2>2
<1> HIDE DEF b
<1>7. n <= b
  <2>1. k <= b
    <3>1. CASE k = r.size + Word
      BY <1>6, <3>1
    <3>2. CASE k = Header
      <4>1. Word < b /\ Word \in Int
        BY <1>1, <1>6
      <4>2. Word + Word <= b
        BY <1>5, <1>6, <4>1, MultiplesApart
      <4> QED BY <3>2, <4>2
    <3> QED BY <1>2, <3>1, <3>2
  <2>2. k \in Int
    BY <1>2
  <2> QED BY <1>3, <1>6, <2>1, <2>2, CeilLeast
<1>8. b + Header = c.bytes
  BY <1>1 DEF b
<1> QED BY <1>6, <1>8, <1>1, <1>2, <1>4, <1>7

(* The list after a chunk is split and its first part taken is the list    *)
(* with the rest in the place of the chunk.                                *)
LEMMA SplitTake ==
  ASSUME NEW list \in Seq(Area), NEW i \in 1..Len(list), NEW f \in Area, NEW e \in Area,
         NEW l, l = InsertAt(ReplaceAt(list, i, f), i + 1, e)
  PROVE  l[i] = f /\ RemoveAt(l, i) = ReplaceAt(list, i, e)
<1>1. Len(list) \in Nat /\ i \in Nat
  BY Elements
<1> DEFINE s == ReplaceAt(list, i, f)
           t == ReplaceAt(list, i, e)
<1>2. /\ s \in Seq(Area) /\ Len(s) = Len(list)
      /\ \A j \in 1..Len(list) : s[j] = IF j = i THEN f ELSE list[j]
  BY ExceptSeq DEF ReplaceAt
<1>3. /\ t \in Seq(Area) /\ Len(t) = Len(list)
      /\ \A j \in 1..Len(list) : t[j] = IF j = i THEN e ELSE list[j]
  BY ExceptSeq DEF ReplaceAt
<1> HIDE DEF s, t
<1> DEFINE k == i + 1
<1>4. l = InsertAt(s, k, e) /\ k \in 1..Len(s) + 1
  BY <1>1, <1>2 DEF s
<1> HIDE DEF k
<1>5. /\ l \in Seq(Area) /\ Len(l) = Len(s) + 1
      /\ \A j \in 1..Len(s) + 1 : l[j] = IF j < i + 1 THEN s[j] ELSE IF j = i + 1 THEN e ELSE s[j - 1]
  <2>1. k \in 1..Len(s) + 1 /\ s \in Seq(Area)
    BY <1>2, <1>4
  <2>2. /\ InsertAt(s, k, e) \in Seq(Area) /\ Len(InsertAt(s, k, e)) = Len(s) + 1
        /\ \A j \in 1..Len(s) + 1 : InsertAt(s, k, e)[j] =
             IF j < k THEN s[j] ELSE IF j = k THEN e ELSE s[j - 1]
    BY <2>1, InsertAtElements
  <2> QED BY <1>4, <2>2 DEF k
<1>6. i \in 1..Len(l) /\ l[i] = f
  BY <1>1, <1>2, <1>5
<1>7. /\ RemoveAt(l, i) \in Seq(Area) /\ Len(RemoveAt(l, i)) = Len(l) - 1
      /\ \A j \in 1..Len(l) - 1 : RemoveAt(l, i)[j] = IF j < i THEN l[j] ELSE l[j + 1]
  BY <1>5, <1>6, RemoveAtElements
<1>8. ASSUME NEW j \in 1..Len(list) PROVE RemoveAt(l, i)[j] = t[j]
  <2>0. j \in Nat /\ j \in 1..Len(s) + 1 /\ j + 1 \in 1..Len(s) + 1 /\ j \in 1..Len(l) - 1
    BY <1>1, <1>2, <1>5
  <2>1. CASE j < i
    BY <1>1, <1>2, <1>3, <1>5, <1>7, <2>0, <2>1
  <2>2. CASE j = i
    BY <1>1, <1>2, <1>3, <1>5, <1>7, <2>0, <2>2
  <2>3. CASE j > i
    <3>1. l[j + 1] = s[j + 1 - 1] /\ j + 1 - 1 = j
      BY <1>1, <1>5, <2>0, <2>3
    <3>2. RemoveAt(l, i)[j] = l[j + 1]
      BY <1>1, <1>7, <2>0, <2>3
    <3> QED BY <1>1, <1>2, <1>3, <2>0, <2>3, <3>1, <3>2
  <2> QED BY <1>1, <2>0, <2>1, <2>2, <2>3
<1>9. Len(RemoveAt(l, i)) = Len(list)
  BY <1>1, <1>2, <1>5, <1>7
<1>10. RemoveAt(l, i) = t
  BY <1>3, <1>7, <1>8, <1>9, SeqEqual
<1> QED BY <1>6, <1>10 DEF t

(* Chunk i of the free list, split for r as l, is taken as the chunk v.     *)
IsTake(list, U, M, r, i, l, v) ==
  /\ Good(list, U, M) /\ Coalesced(list)
  /\ r \in [size : Nat \ {0}, align : Nat]
  /\ i \in 1..Len(list) /\ Fits(list[i], r)
  /\ l = Split(list, i, r)
  /\ v = [addr |-> l[i].addr, bytes |-> l[i].bytes, marked |-> l[i].marked,
          size |-> r.size, align |-> r.align]

(* Taking a chunk that fits, split or whole, for a request.                *)
LEMMA TakeGood ==
  ASSUME NEW list, NEW U, NEW M, NEW r, NEW i, NEW l, NEW v, IsTake(list, U, M, r, i, l, v)
  PROVE  /\ Good(RemoveAt(l, i), U \cup {v}, M) /\ Coalesced(RemoveAt(l, i))
         /\ \A u \in U : AreaOf(u) # AreaOf(v)
<1> SUFFICES ASSUME Good(list, U, M), Coalesced(list), r \in [size : Nat \ {0}, align : Nat],
                    i \in 1..Len(list), Fits(list[i], r), l = Split(list, i, r),
                    v = [addr |-> l[i].addr, bytes |-> l[i].bytes, marked |-> l[i].marked,
                         size |-> r.size, align |-> r.align]
             PROVE  /\ Good(RemoveAt(l, i), U \cup {v}, M) /\ Coalesced(RemoveAt(l, i))
                    /\ \A u \in U : AreaOf(u) # AreaOf(v)
  BY DEF IsTake
<1> USE Sizes
<1> DEFINE c == list[i]
           f == l[i]
           n == RemoveAt(l, i)
           X == Areas(list, U)
<1>1. /\ IsFreeList(list) /\ Regions(X, M) /\ InUse(list, U) /\ list \in Seq(Area)
      /\ Len(list) \in Nat /\ i \in Nat /\ DOMAIN list = 1..Len(list)
  BY FreeFacts DEF Good, IsFreeList
<1>2. c \in Elems(list) /\ c \in X
  BY <1>1, FreeFacts DEF Areas
<1>3. /\ c \in Area /\ c.addr \in Nat /\ c.bytes \in Nat /\ c.marked \in BOOLEAN
      /\ c.addr % Word = 0 /\ c.bytes % Word = 0 /\ c.bytes >= Header /\ End(c) = c.addr + c.bytes
  BY <1>1, <1>2, AreaFacts DEF Regions
<1>4. r.size \in Nat \ {0} /\ r.align \in Nat /\ c.bytes - Word >= r.size /\ IsAligned(c.addr, r.align)
  BY DEF Fits
<1>5. \A u \in U : AreaOf(u) \in X /\ AreaOf(u) \notin Elems(list)
  BY GoodFacts
<1>6. \A j \in 1..Len(list) - 1 : ~MayCoalesce(list[j], list[j + 1])
  BY DEF Coalesced
<1> HIDE DEF c, X, f, n
<1>7. ASSUME f \in Area, f.addr = c.addr, f.bytes >= r.size + Word,
             IsFreeList(n), f \notin Elems(n), \A u \in U : AreaOf(u) \notin Elems(n),
             \A u \in U : AreaOf(u) # f,
             Regions(Elems(n) \cup {f} \cup {AreaOf(u) : u \in U}, M)
      PROVE  /\ Good(n, U \cup {v}, M)
             /\ \A u \in U : AreaOf(u) # AreaOf(v)
  <2>0. v = [addr |-> f.addr, bytes |-> f.bytes, marked |-> f.marked,
             size |-> r.size, align |-> r.align]
    BY DEF f
  <2>1. /\ v \in Block /\ v.addr = f.addr /\ v.bytes = f.bytes /\ v.size = r.size /\ v.align = r.align
        /\ AreaOf(v) = f
    BY <1>4, <1>7, <2>0 DEF Area, Block, AreaOf
  <2>2. v.size + Word <= v.bytes
    BY <1>4, <1>7, <2>1 DEF Area
  <2>3. IsAligned(v.addr, v.align)
    BY <1>4, <1>7, <2>1
  <2>4. \A u \in U : AreaOf(u) # AreaOf(v)
    BY <1>7, <2>1
  <2>5. InUse(n, U \cup {v})
    BY <1>1, <1>7, <2>1, <2>2, <2>3, <2>4 DEF InUse
  <2>6. Areas(n, U \cup {v}) = Elems(n) \cup {f} \cup {AreaOf(u) : u \in U}
    BY <2>1 DEF Areas
  <2> QED BY <1>7, <2>4, <2>5, <2>6 DEF Good
<1>8. CASE ~MaySplit(c, r)
  <2>1. l = list /\ f = c /\ n = RemoveAt(list, i)
    BY <1>8 DEF Split, c, f, n
  <2>2. /\ Len(n) = Len(list) - 1
        /\ \A j \in 1..Len(n) : n[j] = IF j < i THEN list[j] ELSE list[j + 1]
        /\ IsFreeList(n)
        /\ Elems(n) = Elems(list) \ {c}
    <3>1. n = RemoveAt(list, i)
      BY <2>1
    <3>2. IsFreeList(list)
      BY <1>1
    <3>3. /\ Len(n) = Len(list) - 1
          /\ \A j \in 1..Len(n) : n[j] = IF j < i THEN list[j] ELSE list[j + 1]
      BY SMTT(30), <3>1, <3>2, RemoveFree
    <3>4. IsFreeList(n)
      BY <3>1, <3>2, RemoveFree
    <3>5. Elems(n) = Elems(list) \ {list[i]}
      BY <3>1, <3>2, RemoveFree
    <3> QED BY <3>3, <3>4, <3>5 DEF c
  <2>3. Elems(n) \cup {c} \cup {AreaOf(u) : u \in U} = X
    BY <1>2, <2>2 DEF Areas, X
  <2>4. c.bytes >= r.size + Word
    BY <1>3, <1>4
  <2>5. Good(n, U \cup {v}, M) /\ \A u \in U : AreaOf(u) # AreaOf(v)
    <3>1. c \notin Elems(n) /\ \A u \in U : AreaOf(u) \notin Elems(n) /\ AreaOf(u) # c
      BY <1>2, <1>5, <2>2
    <3> QED BY <1>1, <1>3, <1>7, <2>1, <2>2, <2>3, <2>4, <3>1
  <2>6. ASSUME NEW j \in 1..Len(n) - 1 PROVE ~MayCoalesce(n[j], n[j + 1])
    <3>0. j \in Nat /\ j \in 1..Len(n) /\ j + 1 \in 1..Len(n) /\ j \in 1..Len(list) - 1
          /\ j + 1 \in 1..Len(list) - 1 /\ j + 1 + 1 \in 1..Len(list)
      BY <1>1, <2>2
    <3>1. CASE j + 1 < i
      <4>1. n[j] = list[j] /\ n[j + 1] = list[j + 1]
        BY <1>1, <2>2, <3>0, <3>1
      <4> QED BY <1>6, <3>0, <4>1
    <3>2. CASE j + 1 = i
      <4>1. n[j] = list[j] /\ n[j + 1] = list[i + 1]
        BY <1>1, <2>2, <3>0, <3>2
      <4>2. End(list[j]) <= c.addr /\ End(c) <= list[i + 1].addr
        <5>1. i + 1 \in 1..Len(list) /\ j < i /\ i < i + 1 /\ j \in 1..Len(list)
          BY <1>1, <3>0, <3>2
        <5> QED BY <1>1, <5>1 DEF IsFreeList, c
      <4>3. /\ list[i + 1].addr \in Nat /\ list[j].addr \in Nat /\ list[j].bytes \in Nat
            /\ End(list[j]) = list[j].addr + list[j].bytes
        <5>1. i + 1 \in 1..Len(list) /\ j \in 1..Len(list)
          BY <1>1, <3>0, <3>2
        <5> QED BY <1>1, <5>1, FreeFacts
      <4>4. c.addr \in Nat /\ c.bytes \in Nat \ {0} /\ End(c) = c.addr + c.bytes
        BY <1>3
      <4>5. list[j].addr + list[j].bytes # list[i + 1].addr
        BY SMTT(30), <4>2, <4>3, <4>4
      <4> QED BY <4>1, <4>5 DEF MayCoalesce
    <3>3. CASE j + 1 > i
      <4>1. n[j] = list[j + 1] /\ n[j + 1] = list[j + 1 + 1]
        BY <1>1, <2>2, <3>0, <3>3
      <4> QED BY <1>6, <3>0, <4>1
    <3> QED BY <1>1, <3>0, <3>1, <3>2, <3>3
  <2> QED BY <2>5, <2>6 DEF Coalesced, n
<1>9. CASE MaySplit(c, r)
  <2> DEFINE k == SplitSize(r)
             p == [addr |-> c.addr, bytes |-> k, marked |-> c.marked]
             e == [addr |-> c.addr + k, bytes |-> c.bytes - k, marked |-> FALSE]
  <2>1. k \in Nat /\ k % Word = 0 /\ k >= Header /\ k >= r.size + Word /\ k + Header <= c.bytes
    BY <1>3, <1>9, SplitSizes
  <2> HIDE DEF k
  <2>2. /\ p \in Area /\ p.addr = c.addr /\ p.bytes = k /\ End(p) = c.addr + k
        /\ e \in Area /\ e.addr = c.addr + k /\ e.bytes = c.bytes - k /\ e.bytes >= Header
        /\ End(e) = End(c)
    BY SMTT(30), <1>3, <2>1 DEF Area, End
  <2>3. FirstPart(c, r) = p /\ Rest(c, r) = e
    <3>1. c \in Area
      BY <1>3
    <3> QED BY SMTT(30), <3>1 DEF FirstPart, Rest, k, Area
  <2>4. l = InsertAt(ReplaceAt(list, i, p), i + 1, e)
    BY <1>9, <2>3 DEF Split, c
  <2>5. f = p /\ n = ReplaceAt(list, i, e)
    BY <1>1, <2>2, <2>4, SplitTake DEF f, n
  <2>6. p = [addr |-> c.addr, bytes |-> k, marked |-> c.marked]
        /\ e = [addr |-> c.addr + k, bytes |-> c.bytes - k, marked |-> FALSE]
    OBVIOUS
  <2> HIDE DEF p, e
  <2>7. /\ Regions((X \ {c}) \cup {f, e}, M) /\ f # e /\ f \notin X \ {c} /\ e \notin X \ {c}
    <3>1. /\ Regions((X \ {c}) \cup {p, e}, M) /\ p # e /\ p \notin X \ {c} /\ e \notin X \ {c}
      <4> DEFINE Y == (X \ {c}) \cup {p, e}
      <4>1. Regions(X, M) /\ c \in X
        BY <1>1, <1>2
      <4>2. IsCut(c, k, p, e)
        BY <2>1, <2>6 DEF IsCut
      <4> HIDE DEF Y
      <4>3. Y = (X \ {c}) \cup {p, e}
        BY DEF Y
      <4> QED BY <4>1, <4>2, <4>3, CutRegions
    <3> QED BY <2>5, <3>1
  <2>20. /\ Len(n) = Len(list)
         /\ \A j \in 1..Len(n) : n[j] = IF j = i THEN e ELSE list[j]
         /\ IsFreeList(n)
         /\ Elems(n) = (Elems(list) \ {c}) \cup {e}
    <3>1. c.addr <= e.addr /\ End(e) <= End(c)
      BY SMTT(30), <1>3, <2>1, <2>2
    <3> QED BY <1>1, <2>2, <2>5, <3>1, ReplaceFree DEF c
  <2>8. Elems(n) \cup {f} \cup {AreaOf(u) : u \in U} = (X \ {c}) \cup {f, e}
    BY <1>2, <1>5, <2>20 DEF Areas, X
  <2>9. f \notin Elems(n)
    BY <1>2, <2>20, <2>7 DEF Areas, X
  <2>10. ASSUME NEW u \in U PROVE AreaOf(u) \notin Elems(n) /\ AreaOf(u) # f
    <3>1. AreaOf(u) \in X \ {c}
      BY <1>2, <1>5
    <3> QED BY <1>5, <2>20, <2>7, <3>1
  <2>11. f.bytes >= r.size + Word
    BY <2>1, <2>2, <2>5
  <2>12. Good(n, U \cup {v}, M) /\ \A u \in U : AreaOf(u) # AreaOf(v)
    BY <1>7, <2>2, <2>5, <2>20, <2>7, <2>8, <2>9, <2>10, <2>11
  <2>13. ASSUME NEW j \in 1..Len(n) - 1 PROVE ~MayCoalesce(n[j], n[j + 1])
    <3>0. /\ j \in Nat /\ j \in 1..Len(n) /\ j + 1 \in 1..Len(n)
          /\ j \in 1..Len(list) - 1 /\ j + 1 \in 1..Len(list)
      BY <1>1, <2>20
    <3>1. CASE j # i /\ j + 1 # i
      <4>1. n[j] = list[j] /\ n[j + 1] = list[j + 1]
        BY <2>20, <3>0, <3>1
      <4> QED BY <1>6, <3>0, <4>1
    <3>2. CASE j + 1 = i
      <4>1. n[j] = list[j] /\ n[j + 1] = e
        BY <1>1, <2>20, <3>0, <3>2
      <4>2. End(list[j]) <= c.addr
        <5>1. j \in 1..Len(list) /\ j < i
          BY <1>1, <2>20, <3>0, <3>2
        <5> QED BY <1>1, <5>1 DEF IsFreeList, c
      <4>3. /\ list[j].addr \in Nat /\ list[j].bytes \in Nat
            /\ End(list[j]) = list[j].addr + list[j].bytes
        <5>1. j \in 1..Len(list)
          BY <1>1, <2>20, <3>0
        <5> QED BY <1>1, <5>1, FreeFacts
      <4>4. list[j].addr + list[j].bytes # e.addr
        BY <1>3, <2>1, <2>2, <4>2, <4>3
      <4> QED BY <4>1, <4>4 DEF MayCoalesce
    <3>3. CASE j = i
      <4>1. n[j] = e /\ n[j + 1] = list[i + 1]
        BY <1>1, <2>20, <3>0, <3>3
      <4>2. ~MayCoalesce(c, list[i + 1])
        BY <1>6, <3>0, <3>3 DEF c
      <4> QED BY <2>2, <4>1, <4>2 DEF MayCoalesce, End
    <3> QED BY <3>1, <3>2, <3>3
  <2> QED BY <2>12, <2>13 DEF Coalesced, n
<1> QED BY <1>8, <1>9


(* add_fresh_chunk(): a mapping that overlaps no other brings one marked   *)
(* chunk, which coalesces with none: the successor begins its own mapping. *)
LEMMA FreshGood ==
  ASSUME NEW list, NEW U, NEW M, Good(list, U, M), Coalesced(list),
         NEW a, NEW b, IsFresh(a, b, M), NEW c, c = FreshArea(a, b),
         NEW i, i = SortedPos(list, a), NEW l, l = InsertSorted(list, c)
  PROVE  /\ Good(l, U, M \cup {[addr |-> a, bytes |-> b]}) /\ Coalesced(l)
         /\ i \in 1..Len(l) /\ l[i] = c
<1> DEFINE X == Areas(list, U)
           N == M \cup {[addr |-> a, bytes |-> b]}
<1>1. IsFreeList(list) /\ Regions(X, M) /\ InUse(list, U) /\ Len(list) \in Nat
  BY FreeFacts DEF Good
<1>2. Elems(list) \subseteq X /\ \A u \in U : AreaOf(u) \in X
  BY DEF Areas
<1> HIDE DEF X
<1>3. /\ Regions(X \cup {c}, N)
      /\ \A d \in X : Apart(c, d) /\ Apart(d, c) /\ d # c /\ ~MayCoalesce(c, d)
  BY <1>1, AddRegions
<1>4. c \in Area /\ c.addr = a /\ c.bytes >= Header /\ c.marked = TRUE
  BY DEF Area, FreshArea, IsFresh
<1>5. /\ i \in 1..Len(list) + 1 /\ Len(l) = Len(list) + 1
      /\ \A j \in 1..Len(l) : l[j] = IF j < i THEN list[j] ELSE IF j = i THEN c ELSE list[j - 1]
      /\ IsFreeList(l)
      /\ Elems(l) = Elems(list) \cup {c}
  <2>1. \A d \in Elems(list) : Apart(c, d)
    BY <1>2, <1>3
  <2>2. i = SortedPos(list, c.addr)
    BY <1>4
  <2> QED BY <1>1, <1>4, <2>1, <2>2, InsertSortedFree
<1>6. i \in 1..Len(l) /\ l[i] = c /\ i \in Nat
  BY <1>1, <1>5
<1>7. Good(l, U, N)
  <2>1. Areas(l, U) = X \cup {c}
    BY <1>5 DEF Areas, X
  <2>2. \A u \in U : AreaOf(u) \notin Elems(l)
    BY <1>1, <1>2, <1>3, <1>5 DEF InUse
  <2>3. InUse(l, U)
    BY <1>1, <2>2 DEF InUse
  <2> QED BY <1>3, <1>5, <2>1, <2>3 DEF Good
<1>8. ASSUME NEW j \in 1..Len(l) - 1 PROVE ~MayCoalesce(l[j], l[j + 1])
  <2>0. j \in Nat /\ j \in 1..Len(l) /\ j + 1 \in 1..Len(l)
    BY <1>1, <1>5
  <2>1. \A k \in 1..Len(list) - 1 : ~MayCoalesce(list[k], list[k + 1])
    BY DEF Coalesced
  <2>2. CASE j + 1 < i
    <3>1. l[j] = list[j] /\ l[j + 1] = list[j + 1] /\ j \in 1..Len(list) - 1
      BY <1>1, <1>5, <1>6, <2>0, <2>2
    <3> QED BY <2>1, <3>1
  <2>3. CASE j + 1 = i
    <3>1. l[j + 1] = c
      BY <1>6, <2>3
    <3> QED BY <1>4, <3>1 DEF MayCoalesce
  <2>4. CASE j = i
    <3>1. l[j] = c /\ l[j + 1] = list[j + 1 - 1] /\ j + 1 - 1 = j /\ j \in 1..Len(list)
      BY <1>1, <1>5, <1>6, <2>0, <2>4
    <3>2. list[j] \in X
      BY <1>1, <1>2, <3>1, FreeFacts
    <3> QED BY <1>3, <3>1, <3>2
  <2>5. CASE j > i
    <3>1. /\ l[j] = list[j - 1] /\ l[j + 1] = list[j + 1 - 1]
          /\ j + 1 - 1 = j - 1 + 1 /\ j - 1 \in 1..Len(list) - 1
      BY <1>1, <1>5, <1>6, <2>0, <2>5
    <3> QED BY <2>1, <3>1
  <2> QED BY <1>6, <2>0, <2>2, <2>3, <2>4, <2>5
<1> QED BY <1>6, <1>7, <1>8 DEF Coalesced

(* aligned_mmap() gives whole pages that overlap no mapping and satisfy    *)
(* the alignment, be it within a page or beyond it.                        *)
LEMMA FreshFacts ==
  ASSUME NEW r \in [size : Nat \ {0}, align : Nat],
         r.align = 0 \/ Page % r.align = 0 \/ r.align % Page = 0,
         NEW least \in Nat, AreMappings(mapped), NEW b, b = FreshBytes(r, least),
         NEW a \in FreshPlaces(r, least)
  PROVE  IsFresh(a, b, mapped) /\ b >= r.size + Word /\ IsAligned(a, r.align)
<1>0. Page \in Nat \ {0} /\ Word \in Nat \ {0} /\ Header \in Nat /\ Page >= Header
  BY Sizes, PageAssumption
<1>1. r.size \in Nat \ {0} /\ r.align \in Nat
  OBVIOUS
<1>2. b \in Nat \ {0} /\ b % Page = 0 /\ b >= Header /\ b >= r.size + Word
  <2> DEFINE k == Larger(r.size + Word, least)
  <2>1. k \in Nat /\ k >= r.size + Word
    BY <1>0, <1>1 DEF Larger
  <2>2. b = Ceil(k, Page)
    BY DEF FreshBytes
  <2> HIDE DEF k
  <2>3. b \in Int /\ k <= b /\ b % Page = 0
    BY <1>0, <2>1, <2>2, CeilRounds
  <2>4. b \in Nat \ {0} /\ b >= r.size + Word
    BY <1>0, <1>1, <2>1, <2>3
  <2>5. 0 % Page = 0
    <3>1. 0 = Page * 0
      BY <1>0
    <3> QED BY <1>0, <3>1, Product
  <2>6. 0 + Page <= b
    <3>1. 0 \in Int /\ 0 < b
      BY <2>4
    <3> QED BY <1>0, <2>3, <2>5, <3>1, MultiplesApart
  <2> QED BY <1>0, <2>3, <2>4, <2>6
<1>3. ASSUME NEW h, NEW n, h \in Holes(n)
      PROVE  /\ h \in Nat /\ h % Page = 0
             /\ \A m \in mapped : h + n <= m.addr \/ m.addr + m.bytes <= h
  <2>1. PICK p \in 1..NumPages : h = Page * p
    BY <1>3 DEF Holes
  <2>2. p \in Nat /\ p \in Int
    BY BoundsAssumption
  <2>3. h \in Nat
    BY <1>0, <2>1, <2>2
  <2>4. h % Page = 0
    BY <1>0, <2>1, <2>2, <2>3, Product
  <2> QED BY <1>3, <2>3, <2>4 DEF Holes
<1> DEFINE align == Larger(r.align, Page)
<1>4. a \in Places(b, align)
  BY DEF FreshPlaces
<1>5. \A m \in mapped : m.addr \in Nat /\ m.bytes \in Nat
  BY MappingFacts
<1>6. CASE align = Page
  <2>1. a \in Holes(b)
    BY <1>4, <1>6 DEF Places
  <2>2. a \in Nat /\ a % Page = 0 /\ \A m \in mapped : a + b <= m.addr \/ m.addr + m.bytes <= a
    BY <1>3, <2>1
  <2>3. IsAligned(a, r.align)
    <3>1. SUFFICES ASSUME r.align # 0 PROVE a % r.align = 0
      BY DEF IsAligned
    <3>2. r.align \in Nat \ {0} /\ r.align <= Page
      BY <1>0, <1>1, <1>6, <3>1 DEF Larger
    <3>3. CASE Page % r.align = 0
      BY <1>0, <2>2, <3>2, <3>3, MultiplesTransitive
    <3>4. CASE r.align % Page = 0
      <4>1. r.align = Page
        <5>1. 0 % Page = 0
          <6>1. 0 = Page * 0
            BY <1>0
          <6> QED BY <1>0, <6>1, Product
        <5>2. 0 + Page <= r.align
          <6>1. 0 \in Int /\ 0 < r.align /\ r.align \in Int
            BY <3>2
          <6> QED BY <1>0, <3>4, <5>1, <6>1, MultiplesApart
        <5> QED BY <1>0, <3>2, <5>2
      <4> QED BY <2>2, <4>1
    <3> QED BY <3>1, <3>3, <3>4
  <2> QED BY <1>2, <2>2, <2>3 DEF IsFresh
<1>7. CASE align # Page
  <2>1. align = r.align /\ r.align > Page /\ r.align \in Nat \ {0}
    BY <1>0, <1>1, <1>7 DEF Larger
  <2> HIDE DEF align
  <2>2. PICK h \in Holes(b + align) : a = Ceil(h, align)
    BY <1>4, <1>7 DEF Places
  <2>3. h \in Nat /\ \A m \in mapped : h + (b + align) <= m.addr \/ m.addr + m.bytes <= h
    BY <1>3, <2>2
  <2>4. a \in Int /\ h <= a /\ a < h + align /\ a % align = 0
    <3>1. h \in Int /\ align \in Nat \ {0}
      BY <2>1, <2>3
    <3> QED BY <2>2, <3>1, CeilRounds
  <2>5. r.align % Page = 0
    <3>1. ~(Page % r.align = 0)
      <4>1. SUFFICES ASSUME Page % r.align = 0 PROVE FALSE
        OBVIOUS
      <4>2. 0 % r.align = 0
        <5>1. 0 = r.align * 0
          BY <2>1
        <5> QED BY <2>1, <5>1, Product
      <4>3. 0 + r.align <= Page
        <5>1. 0 \in Int /\ 0 < Page /\ Page \in Int
          BY <1>0
        <5> QED BY <2>1, <4>1, <4>2, <5>1, MultiplesApart
      <4> QED BY <1>0, <2>1, <4>3
    <3> QED BY <2>1, <3>1
  <2>6. a % Page = 0
    BY <1>0, <2>1, <2>4, <2>5, MultiplesTransitive
  <2>7. a \in Nat /\ \A m \in mapped : a + b <= m.addr \/ m.addr + m.bytes <= a
    BY <1>2, <1>5, <2>1, <2>3, <2>4
  <2>8. IsAligned(a, r.align)
    BY <2>1, <2>4 DEF IsAligned
  <2> QED BY <1>2, <2>6, <2>7, <2>8 DEF IsFresh
<1> QED BY <1>6, <1>7


-----------------------------------------------------------------------------
(* The invariant. *)

(* With nothing allocated, what is left of each mapping is its one marked  *)
(* chunk: an unused neighbour in the mapping would have been coalesced.    *)
LEMMA MappingIsChunk ==
  ASSUME NEW list, NEW M, Good(list, {}, M), Coalesced(list), NEW m \in M
  PROVE  \E i \in DOMAIN list : list[i] = [addr |-> m.addr, bytes |-> m.bytes, marked |-> TRUE]
<1> DEFINE X == Areas(list, {})
<1>1. IsFreeList(list) /\ Regions(X, M) /\ Len(list) \in Nat /\ DOMAIN list = 1..Len(list)
  BY FreeFacts DEF Good
<1>2. X = Elems(list)
  BY DEF Areas
<1> HIDE DEF X
<1>3. \A x \in X : \E i \in 1..Len(list) : x = list[i]
  BY <1>1, <1>2 DEF Elems
<1>4. PICK c \in X : c.addr = m.addr
  BY <1>1 DEF Regions, Tiled
<1>5. PICK i \in 1..Len(list) : c = list[i]
  BY <1>3
<1>6. /\ c \in Area /\ c.addr \in Nat /\ End(c) \in Nat /\ c.addr < End(c)
      /\ End(c) = c.addr + c.bytes /\ c.bytes \in Nat /\ c.marked \in BOOLEAN
  BY <1>1, AreaFacts DEF Regions
<1>7. m.addr \in Nat /\ End(m) \in Nat /\ m.addr < End(m) /\ End(m) = m.addr + m.bytes /\ m.bytes \in Nat
  BY <1>1, MappingFacts DEF Regions
<1>8. Within(c, m) /\ Continues(c, m, X)
  BY <1>1, <1>4, <1>6, <1>7, MarkedBegins
<1>9. c.marked
  BY <1>4, <1>8 DEF Within
<1>10. End(c) = End(m)
  <2>1. SUFFICES ASSUME End(c) # End(m) PROVE FALSE
    OBVIOUS
  <2>2. PICK d \in X : d.addr = End(c)
    BY <1>8, <2>1 DEF Continues
  <2>3. PICK k \in 1..Len(list) : d = list[k]
    BY <1>3
  <2>4. i \in Nat /\ k \in Nat /\ d.addr \in Nat /\ End(d) \in Nat /\ d.addr < End(d)
    BY <1>1, AreaFacts DEF Regions
  <2>5. k = i + 1
    <3>1. ~(k <= i)
      <4>1. CASE k = i
        BY <1>5, <1>6, <2>2, <2>3, <4>1
      <4>2. CASE k < i
        <5>1. End(d) <= c.addr
          BY <1>1, <1>5, <2>3, <4>2 DEF IsFreeList
        <5> QED BY <1>6, <2>2, <2>4, <5>1
      <4> QED BY <2>4, <4>1, <4>2
    <3>2. ~(k > i + 1)
      <4>1. SUFFICES ASSUME k > i + 1 PROVE FALSE
        OBVIOUS
      <4>2. i + 1 \in 1..Len(list) /\ i < i + 1 /\ i + 1 < k
        BY <1>1, <2>4, <4>1
      <4>3. End(c) <= list[i + 1].addr /\ End(list[i + 1]) <= d.addr
        BY <1>1, <1>5, <2>3, <4>2 DEF IsFreeList
      <4>4. list[i + 1].addr \in Nat /\ End(list[i + 1]) \in Nat /\ End(list[i + 1]) > list[i + 1].addr
        BY <1>1, <4>2, FreeFacts
      <4> QED BY <1>6, <2>2, <2>4, <4>3, <4>4
    <3> QED BY <2>4, <3>1, <3>2
  <2>6. i \in 1..Len(list) - 1
    BY <1>1, <2>4, <2>5
  <2>7. d.marked
    <3>1. ~MayCoalesce(c, d)
      BY <1>5, <2>3, <2>5, <2>6 DEF Coalesced
    <3> QED BY <2>2, <3>1 DEF MayCoalesce, End
  <2>8. m.addr <= d.addr /\ d.addr < End(m)
    <3>1. End(c) <= End(m)
      BY <1>8 DEF Within
    <3> QED BY <1>4, <1>6, <1>7, <2>1, <2>2, <3>1
  <2>9. Within(d, m)
    BY <1>1, <2>8, MarkedBegins
  <2> QED BY <1>4, <1>6, <2>2, <2>4, <2>7, <2>9 DEF Within
<1>11. c.bytes = m.bytes
  BY <1>4, <1>6, <1>7, <1>10
<1>12. c = [addr |-> m.addr, bytes |-> m.bytes, marked |-> TRUE]
  BY <1>4, <1>6, <1>9, <1>11 DEF Area
<1> QED BY <1>1, <1>5, <1>12

(* The chunk that allocate() finds fits.                                   *)
LEMMA FirstFitFits ==
  ASSUME NEW list, Len(list) \in Nat, NEW r, NEW i, i = FirstFit(list, r), i # 0
  PROVE  i \in 1..Len(list) /\ Fits(list[i], r)
<1> DEFINE I == {j \in 1..Len(list) : Fits(list[j], r)}
<1>1. i = IF I # {} THEN Min(I) ELSE 0
  BY DEF FirstFit, SelectInSeq
<1>2. I \in SUBSET (1..Len(list)) /\ \A j \in I : Fits(list[j], r)
  OBVIOUS
<1> HIDE DEF I
<1>3. i \in I
  BY <1>1, <1>2, Selected
<1> QED BY <1>2, <1>3

(* An allocator without memory is in a good state.                         *)
LEMMA EmptyGood == Good(<<>>, {}, {}) /\ Coalesced(<<>>) /\ 0 % Page = 0
<1>1. Areas(<<>>, {}) = {} /\ Elems(<<>>) = {}
  BY DEF Areas, Elems
<1>2. Regions({}, {})
  BY DEF Regions, Shaped, Disjoint, AreMappings, Tiled
<1>3. IsFreeList(<<>>)
  BY DEF IsFreeList
<1>4. InUse(<<>>, {})
  BY DEF InUse
<1>5. Coalesced(<<>>)
  BY DEF Coalesced
<1>6. 0 % Page = 0
  <2>1. Page \in Nat \ {0} /\ 0 = Page * 0
    BY Sizes
  <2> QED BY <2>1, Product
<1> QED BY <1>1, <1>2, <1>3, <1>4, <1>5, <1>6 DEF Good

(* The invariant holds before the allocator is constructed.                *)
LEMMA InitInv == Init => AllocatorInv
<1> SUFFICES ASSUME Init PROVE AllocatorInv
  OBVIOUS
<1>1. chunks = <<>> /\ used = {} /\ mapped = {} /\ minSize = 0 /\ alive = FALSE /\ strategy = "Linear"
  BY DEF Init
<1>2. Good(chunks, used, mapped) /\ Coalesced(chunks) /\ minSize % Page = 0
  BY <1>1, EmptyGood
<1> QED BY <1>1, <1>2 DEF AllocatorInv

(* The size of the next mapping stays a multiple of a page.                *)
LEMMA AddFreshSize ==
  ASSUME NEW addr, NEW r, NEW least \in Nat, least % Page = 0, NEW s, AddFreshChunk(addr, r, least, s)
  PROVE  /\ minSize' \in Nat /\ minSize' % Page = 0
         /\ mapped' = mapped \cup {[addr |-> addr, bytes |-> FreshBytes(r, least)]}
<1>1. (least + least) % Page = 0
  <2>1. Page \in Nat \ {0} /\ least \in Int
    BY Sizes
  <2> QED BY <2>1, MultiplesAdd
<1>2. minSize' = least + least \/ minSize' = least
  BY DEF AddFreshChunk
<1> QED BY <1>1, <1>2 DEF AddFreshChunk

(* What an allocation for r leaves: one more chunk in use.                 *)
Taken(r) ==
  /\ Good(chunks', used', mapped') /\ Coalesced(chunks')
  /\ \E v : /\ used' = used \cup {v} /\ v.size = r.size /\ v.align = r.align
            /\ \A u \in used : AreaOf(u) # AreaOf(v)

(* Allocating from the free list leaves a good state.                      *)
LEMMA ListTake ==
  ASSUME Good(chunks, used, mapped), Coalesced(chunks), NEW r \in Requests, AllocateFromList(r)
  PROVE  Taken(r)
<1> DEFINE k == chunks
           i == FirstFit(k, r)
           l == Split(k, i, r)
           v == [addr |-> l[i].addr, bytes |-> l[i].bytes, marked |-> l[i].marked,
                 size |-> r.size, align |-> r.align]
<1>1. Len(chunks) \in Nat /\ i # 0
  BY FreeFacts DEF Good, AllocateFromList
<1>2. r \in [size : Nat \ {0}, align : Nat]
  BY RequestsAssumption
<1>3. Good(k, used, mapped) /\ Coalesced(k) /\ i \in 1..Len(k) /\ Fits(k[i], r)
  BY <1>1, FirstFitFits
<1>4. chunks' = RemoveAt(l, i) /\ used' = used \cup {v} /\ mapped' = mapped
  BY DEF AllocateFromList, Take
<1>5. /\ l = Split(k, i, r)
      /\ v = [addr |-> l[i].addr, bytes |-> l[i].bytes, marked |-> l[i].marked,
              size |-> r.size, align |-> r.align]
  OBVIOUS
<1>6. v.size = r.size /\ v.align = r.align
  OBVIOUS
<1> HIDE DEF i, k, l, v
<1>7. /\ Good(RemoveAt(l, i), used \cup {v}, mapped) /\ Coalesced(RemoveAt(l, i))
      /\ \A u \in used : AreaOf(u) # AreaOf(v)
  <2>1. IsTake(k, used, mapped, r, i, l, v)
    BY <1>2, <1>3, <1>5 DEF IsTake
  <2> QED BY <2>1, TakeGood
<1> QED BY <1>4, <1>6, <1>7 DEF Taken

(* Allocating from a fresh mapping leaves a good state.                    *)
LEMMA FreshTake ==
  ASSUME Good(chunks, used, mapped), Coalesced(chunks), minSize \in Nat, minSize % Page = 0,
         AreMappings(mapped), NEW r \in Requests, NEW addr \in FreshPlaces(r, minSize),
         AddFreshChunk(addr, r, minSize, strategy),
         Take(InsertSorted(chunks, FreshChunk(addr, r, minSize)), SortedPos(chunks, addr), r)
  PROVE  Taken(r)
<1> DEFINE b == FreshBytes(r, minSize)
           c == FreshArea(addr, b)
           i == SortedPos(chunks, addr)
           k == InsertSorted(chunks, c)
           l == Split(k, i, r)
           v == [addr |-> l[i].addr, bytes |-> l[i].bytes, marked |-> l[i].marked,
                 size |-> r.size, align |-> r.align]
           M == mapped \cup {[addr |-> addr, bytes |-> b]}
<1>1. /\ r \in [size : Nat \ {0}, align : Nat]
      /\ r.align = 0 \/ Page % r.align = 0 \/ r.align % Page = 0
  BY RequestsAssumption
<1>2. FreshChunk(addr, r, minSize) = c
  BY DEF FreshChunk, FreshArea
<1>3. mapped' = M
  BY DEF AddFreshChunk
<1>4. chunks' = RemoveAt(l, i) /\ used' = used \cup {v}
  BY <1>2 DEF Take
<1>5. IsFresh(addr, b, mapped) /\ b >= r.size + Word /\ IsAligned(addr, r.align)
  BY <1>1, FreshFacts
<1> HIDE DEF b, i
<1>6. /\ Good(k, used, M) /\ Coalesced(k) /\ i \in 1..Len(k) /\ k[i] = c
  BY <1>5, FreshGood DEF i
<1>7. Fits(k[i], r)
  <2>1. c.addr = addr /\ c.bytes = b
    BY DEF FreshArea
  <2>2. b - Word >= r.size
    BY <1>1, <1>5, Sizes DEF IsFresh
  <2> QED BY <1>5, <1>6, <2>1, <2>2 DEF Fits
<1>9. /\ l = Split(k, i, r)
      /\ v = [addr |-> l[i].addr, bytes |-> l[i].bytes, marked |-> l[i].marked,
              size |-> r.size, align |-> r.align]
  OBVIOUS
<1>10. v.size = r.size /\ v.align = r.align
  OBVIOUS
<1> HIDE DEF k, l, v, M
<1>8. /\ Good(RemoveAt(l, i), used \cup {v}, M) /\ Coalesced(RemoveAt(l, i))
      /\ \A u \in used : AreaOf(u) # AreaOf(v)
  <2>1. IsTake(k, used, M, r, i, l, v)
    BY <1>1, <1>6, <1>7, <1>9 DEF IsTake
  <2> QED BY <2>1, TakeGood
<1> QED BY <1>3, <1>4, <1>8, <1>10 DEF Taken

(* Every step of the allocator preserves the invariant.                    *)
LEMMA StepInv == AllocatorInv /\ [Next]_vars => AllocatorInv'
<1> SUFFICES ASSUME AllocatorInv, [Next]_vars PROVE AllocatorInv'
  OBVIOUS
<1>0. /\ alive \in BOOLEAN /\ strategy \in {"Linear", "Exponential"}
      /\ minSize \in Nat /\ minSize % Page = 0
      /\ Good(chunks, used, mapped) /\ Coalesced(chunks)
      /\ ~alive => chunks = <<>> /\ used = {} /\ mapped = {}
      /\ AreMappings(mapped)
  BY DEF AllocatorInv, Good, Regions
<1>1. ASSUME NEW initial \in InitialSizes, NEW s \in {"Linear", "Exponential"}, Construct(initial, s)
      PROVE  AllocatorInv'
  <2> DEFINE least == Ceil(IF initial = 0 THEN Header ELSE initial, Page)
             any == [size |-> 1, align |-> 0]
  <2>1. least \in Nat /\ least % Page = 0
    <3>1. (IF initial = 0 THEN Header ELSE initial) \in Nat /\ Page \in Nat \ {0}
      BY InitialAssumption, Sizes
    <3> DEFINE n == IF initial = 0 THEN Header ELSE initial
    <3>2. n \in Nat
      BY <3>1
    <3> HIDE DEF n
    <3>3. Ceil(n, Page) \in Int /\ n <= Ceil(n, Page) /\ Ceil(n, Page) % Page = 0
      BY <3>1, <3>2, CeilRounds
    <3>4. Ceil(n, Page) \in Nat
      BY <3>2, <3>3
    <3> QED BY <3>3, <3>4 DEF n
  <2>2. alive' = TRUE /\ strategy' = s /\ used' = used
    BY <1>1 DEF Construct
  <2>3. CASE initial = 0
    <3>1. minSize' = least /\ chunks' = chunks /\ mapped' = mapped
      BY <1>1, <2>3 DEF Construct
    <3> HIDE DEF least
    <3> QED BY <1>0, <2>1, <2>2, <3>1 DEF AllocatorInv
  <2>4. CASE initial # 0
    <3>1. PICK addr \in FreshPlaces(any, least) :
            /\ AddFreshChunk(addr, any, least, s)
            /\ chunks' = InsertSorted(chunks, FreshChunk(addr, any, least))
      BY <1>1, <2>4 DEF Construct
    <3>2. any \in [size : Nat \ {0}, align : Nat] /\ any.align = 0
      OBVIOUS
    <3> HIDE DEF least, any
    <3> DEFINE b == FreshBytes(any, least)
    <3>3. IsFresh(addr, b, mapped)
      BY <1>0, <2>1, <3>1, <3>2, FreshFacts
    <3>4. FreshChunk(addr, any, least) = FreshArea(addr, b)
      BY DEF FreshChunk, FreshArea
    <3>5. /\ minSize' \in Nat /\ minSize' % Page = 0
          /\ mapped' = mapped \cup {[addr |-> addr, bytes |-> b]}
      BY <2>1, <3>1, AddFreshSize
    <3> HIDE DEF b
    <3>6. Good(chunks', used, mapped') /\ Coalesced(chunks')
      BY <1>0, <3>1, <3>3, <3>4, <3>5, FreshGood
    <3> QED BY <2>2, <3>5, <3>6 DEF AllocatorInv
  <2> QED BY <2>3, <2>4
<1>2. ASSUME NEW r \in Requests, AllocateFromList(r)
      PROVE  AllocatorInv'
  <2>1. alive /\ alive' = alive /\ strategy' = strategy /\ minSize' = minSize
    BY <1>2 DEF AllocateFromList
  <2>2. Taken(r)
    BY <1>0, <1>2, ListTake
  <2> QED BY <1>0, <2>1, <2>2 DEF Taken, AllocatorInv
<1>3. ASSUME NEW r \in Requests, AllocateFresh(r)
      PROVE  AllocatorInv'
  <2>1. PICK addr \in FreshPlaces(r, minSize) :
          /\ AddFreshChunk(addr, r, minSize, strategy)
          /\ Take(InsertSorted(chunks, FreshChunk(addr, r, minSize)), SortedPos(chunks, addr), r)
    BY <1>3 DEF AllocateFresh
  <2>2. alive /\ alive' = alive /\ strategy' = strategy
    BY <1>3 DEF AllocateFresh
  <2>3. Taken(r)
    BY <1>0, <2>1, FreshTake
  <2> QED BY <1>0, <2>1, <2>2, <2>3, AddFreshSize DEF Taken, AllocatorInv
<1>4. ASSUME NEW u \in used, Deallocate(u)
      PROVE  AllocatorInv'
  <2>1. chunks' = Reclaim(chunks, AreaOf(u))
    BY <1>4 DEF Deallocate, AreaOf
  <2>2. /\ alive /\ alive' = alive /\ strategy' = strategy /\ minSize' = minSize /\ mapped' = mapped
        /\ used' = used \ {u}
    BY <1>4 DEF Deallocate
  <2>3. Good(chunks', used', mapped') /\ Coalesced(chunks')
    BY <1>0, <2>1, <2>2, ReclaimGood
  <2> QED BY <1>0, <2>2, <2>3 DEF AllocatorInv
<1>5. CASE Destroy
  <2>1. mapped' = {}
    <3>1. used = {}
      BY <1>5 DEF Destroy
    <3>2. \A m \in mapped : \E i \in DOMAIN chunks :
            chunks[i] = [addr |-> m.addr, bytes |-> m.bytes, marked |-> TRUE]
      BY <1>0, <3>1, MappingIsChunk
    <3> QED BY <1>5, <3>2 DEF Destroy
  <2>2. /\ alive' = FALSE /\ chunks' = <<>> /\ used' = {} /\ strategy' = "Linear" /\ minSize' = 0
    BY <1>5 DEF Destroy
  <2> QED BY <2>1, <2>2, EmptyGood DEF AllocatorInv
<1>6. CASE UNCHANGED vars
  BY <1>0, <1>6 DEF AllocatorInv, vars
<1> QED BY <1>1, <1>2, <1>3, <1>4, <1>5, <1>6 DEF Next


(* The inductive invariant holds in every reachable state.                 *)
THEOREM AllocatorInvariant == Spec => []AllocatorInv
<1>1. Init => AllocatorInv
  BY InitInv
<1>2. AllocatorInv /\ [Next]_vars => AllocatorInv'
  BY StepInv
<1> QED BY <1>1, <1>2, PTL DEF Spec

-----------------------------------------------------------------------------
(* What follows from the invariant. *)

(* The chunks are areas of their own.                                      *)
LEMMA ChunksAreAreas ==
  ASSUME AllocatorInv
  PROVE  /\ \A c \in Chunks : /\ AreaOf(c) \in Areas(chunks, used)
                              /\ AreaOf(c).addr = c.addr /\ AreaOf(c).bytes = c.bytes
                              /\ AreaOf(c).marked = c.marked /\ End(AreaOf(c)) = End(c)
         /\ \A x \in Areas(chunks, used) : \E c \in Chunks : x = AreaOf(c)
         /\ \A c, d \in Chunks : AreaOf(c) = AreaOf(d) => c = d
<1>1. Good(chunks, used, mapped) /\ InUse(chunks, used) /\ IsFreeList(chunks)
  BY DEF AllocatorInv, Good
<1>2. Unused = Elems(chunks)
  BY DEF Unused, Elems
<1>3. Elems(chunks) \subseteq Area
  BY <1>1, FreeFacts DEF Elems
<1>4. \A c \in Area : AreaOf(c) = c
  BY DEF Area, AreaOf
<1>5. \A c \in Chunks : AreaOf(c) \in Areas(chunks, used)
  BY <1>2, <1>3, <1>4 DEF Chunks, Areas
<1>6. \A c : /\ AreaOf(c).addr = c.addr /\ AreaOf(c).bytes = c.bytes
             /\ AreaOf(c).marked = c.marked /\ End(AreaOf(c)) = End(c)
  BY DEF AreaOf, End
<1>7. \A x \in Areas(chunks, used) : \E c \in Chunks : x = AreaOf(c)
  BY <1>2, <1>3, <1>4 DEF Chunks, Areas
<1>8. ASSUME NEW c \in Chunks, NEW d \in Chunks, AreaOf(c) = AreaOf(d)
      PROVE  c = d
  <2>1. \A u \in used : AreaOf(u) \notin Elems(chunks)
    BY <1>1 DEF InUse
  <2>2. CASE c \in Elems(chunks) /\ d \in Elems(chunks)
    BY <1>3, <1>4, <1>8, <2>2
  <2>3. CASE c \in Elems(chunks) /\ d \in used
    BY <1>3, <1>4, <1>8, <2>1, <2>3
  <2>4. CASE c \in used /\ d \in Elems(chunks)
    BY <1>3, <1>4, <1>8, <2>1, <2>4
  <2>5. CASE c \in used /\ d \in used
    BY <1>1, <1>8, <2>5 DEF InUse
  <2> QED BY <1>2, <2>2, <2>3, <2>4, <2>5 DEF Chunks
<1> QED BY <1>5, <1>6, <1>7, <1>8

(* Distinct chunks share no byte.                                          *)
LEMMA ChunksApart ==
  ASSUME AllocatorInv, NEW c \in Chunks, NEW d \in Chunks, c # d
  PROVE  Apart(c, d)
<1>1. AreaOf(c) \in Areas(chunks, used) /\ AreaOf(d) \in Areas(chunks, used) /\ AreaOf(c) # AreaOf(d)
  BY ChunksAreAreas
<1>2. Apart(AreaOf(c), AreaOf(d))
  BY <1>1 DEF AllocatorInv, Good, Regions, Disjoint
<1>3. /\ AreaOf(c).addr = c.addr /\ End(AreaOf(c)) = End(c)
      /\ AreaOf(d).addr = d.addr /\ End(AreaOf(d)) = End(d)
  BY ChunksAreAreas
<1> QED BY <1>2, <1>3 DEF Apart

(* The invariant implies the type invariant.                               *)
LEMMA InvType == AllocatorInv => TypeOK
<1> SUFFICES ASSUME AllocatorInv PROVE TypeOK
  OBVIOUS
<1>1. Regions(Areas(chunks, used), mapped)
  BY DEF AllocatorInv, Good
<1>2. ASSUME NEW c \in Chunks
      PROVE  /\ c.addr \in Nat /\ c.bytes \in Nat /\ c.marked \in BOOLEAN
             /\ c.addr % Word = 0 /\ c.bytes % Word = 0 /\ c.bytes >= Header
  <2>1. /\ AreaOf(c) \in Areas(chunks, used)
        /\ AreaOf(c).addr = c.addr /\ AreaOf(c).bytes = c.bytes /\ AreaOf(c).marked = c.marked
    BY ChunksAreAreas
  <2>2. /\ AreaOf(c).addr \in Nat /\ AreaOf(c).bytes \in Nat /\ AreaOf(c).marked \in BOOLEAN
        /\ AreaOf(c).addr % Word = 0 /\ AreaOf(c).bytes % Word = 0 /\ AreaOf(c).bytes >= Header
    BY <1>1, <2>1, AreaFacts DEF Regions
  <2> QED BY <2>1, <2>2
<1>3. \A m \in mapped : m.addr % Page = 0 /\ m.bytes % Page = 0
  BY <1>1 DEF Regions, AreMappings
<1> QED BY <1>2, <1>3 DEF AllocatorInv, TypeOK

(* The size recorded behind a block lies inside its chunk and in no other. *)
LEMMA InvSize == AllocatorInv => SizeSurvives
<1> SUFFICES ASSUME AllocatorInv, NEW u \in used
             PROVE  /\ SizeAddr(u) + Word <= End(u)
                    /\ \A c \in Chunks : c # u => End(c) <= u.addr \/ End(u) <= c.addr
  BY DEF SizeSurvives
<1>1. u \in Chunks
  BY DEF Chunks
<1>2. /\ u.addr \in Nat /\ u.bytes \in Nat /\ u.addr % Word = 0 /\ u.bytes % Word = 0
  BY <1>1, InvType DEF TypeOK
<1>3. u.size \in Nat \ {0} /\ u.size + Word <= u.bytes
  BY DEF AllocatorInv, Good, InUse, Block
<1>4. SizeAddr(u) + Word <= End(u)
  <2> DEFINE n == u.addr + u.size
             e == u.addr + u.bytes
             x == e - Word
  <2>1. n \in Int /\ x \in Int /\ n <= x
    BY <1>2, <1>3, Sizes
  <2>2. x % Word = 0
    <3>1. Word % Word = 0
      <4>1. Word \in Nat \ {0} /\ Word = Word * 1
        BY Sizes
      <4> QED BY <4>1, Product
    <3>2. e % Word = 0 /\ e \in Int
      BY <1>2, Sizes, MultiplesAdd
    <3>3. Word \in Nat \ {0} /\ Word \in Int
      BY Sizes
    <3> HIDE DEF e
    <3> QED BY <3>1, <3>2, <3>3, MultiplesAdd
  <2>3. x + Word = End(u)
    BY <1>2, Sizes DEF End
  <2>4. SizeAddr(u) = Ceil(n, Word)
    BY DEF SizeAddr
  <2> HIDE DEF n, x
  <2>5. Ceil(n, Word) \in Int /\ Ceil(n, Word) <= x
    BY <2>1, <2>2, Sizes, CeilRounds, CeilLeast
  <2> QED BY <2>1, <2>3, <2>4, <2>5, Sizes
<1>5. \A c \in Chunks : c # u => End(c) <= u.addr \/ End(u) <= c.addr
  BY <1>1, ChunksApart DEF Apart
<1> QED BY <1>4, <1>5

(* The chunks of a good state tile its mappings.                           *)
LEMMA InvTiling == AllocatorInv => ChunksTileMappings
<1> SUFFICES ASSUME AllocatorInv PROVE ChunksTileMappings
  OBVIOUS
<1> DEFINE X == Areas(chunks, used)
<1>1. Tiled(X, mapped)
  BY DEF AllocatorInv, Good, Regions
<1>2. /\ \A c \in Chunks : /\ AreaOf(c) \in X /\ AreaOf(c).addr = c.addr
                           /\ AreaOf(c).marked = c.marked /\ End(AreaOf(c)) = End(c)
      /\ \A x \in X : \E c \in Chunks : x = AreaOf(c)
  BY ChunksAreAreas
<1> HIDE DEF X
<1>3. ASSUME NEW a, NEW x \in X, x.addr = a PROVE \E c \in Chunks : c.addr = a
  BY <1>2, <1>3
<1>4. \A m \in mapped : \E c \in Chunks : c.addr = m.addr
  BY <1>1, <1>3 DEF Tiled
<1>5. ASSUME NEW c \in Chunks
      PROVE  \E m \in mapped :
               /\ m.addr <= c.addr /\ End(c) <= End(m)
               /\ c.marked <=> c.addr = m.addr
               /\ End(c) = End(m) \/ \E d \in Chunks : d.addr = End(c)
  <2>1. PICK m \in mapped : Within(AreaOf(c), m) /\ Continues(AreaOf(c), m, X)
    BY <1>1, <1>2 DEF Tiled
  <2>2. m.addr <= c.addr /\ End(c) <= End(m) /\ (c.marked <=> c.addr = m.addr)
    BY <1>2, <2>1 DEF Within
  <2>3. End(c) = End(m) \/ \E d \in Chunks : d.addr = End(c)
    BY <1>2, <1>3, <2>1 DEF Continues
  <2> QED BY <2>2, <2>3
<1> QED BY <1>4, <1>5 DEF ChunksTileMappings

(* No two neighbours of a good state could be coalesced.                   *)
LEMMA InvCoalesced == AllocatorInv => FullyCoalesced
<1> SUFFICES ASSUME AllocatorInv, NEW i \in 1..Len(chunks) - 1
             PROVE  /\ End(chunks[i]) <= chunks[i + 1].addr
                    /\ ~MayCoalesce(chunks[i], chunks[i + 1])
  BY DEF FullyCoalesced
<1>1. IsFreeList(chunks) /\ Coalesced(chunks)
  BY DEF AllocatorInv, Good
<1>2. i \in 1..Len(chunks) /\ i + 1 \in 1..Len(chunks) /\ i < i + 1
  BY <1>1, FreeFacts
<1> QED BY <1>1, <1>2 DEF IsFreeList, Coalesced

(* Every chunk, used or not, lies at a multiple of a word, is a multiple   *)
(* of words long and has room for a header: no split leaves less.          *)
THEOREM TypeCorrect == Spec => []TypeOK
BY AllocatorInvariant, InvType, PTL

(* The size behind the bytes of a client is inside its chunk, and no other *)
(* chunk overlaps it: deallocate() reads what allocate() wrote.            *)
THEOREM SizesSurvive == Spec => []SizeSurvives
BY AllocatorInvariant, InvSize, PTL

(* Splitting and coalescing lose no memory of a mapping, and the mark      *)
(* stays at its beginning.                                                 *)
THEOREM MappingsTiled == Spec => []ChunksTileMappings
BY AllocatorInvariant, InvTiling, PTL

(* Two attempts to coalesce are enough to leave none that would succeed.   *)
THEOREM AlwaysCoalesced == Spec => []FullyCoalesced
BY AllocatorInvariant, InvCoalesced, PTL

(* The destructor unmaps all that was mapped.                              *)
THEOREM NothingEverLeaks == Spec => []NothingLeaks
<1>1. AllocatorInv => NothingLeaks
  BY DEF AllocatorInv, NothingLeaks
<1> QED BY <1>1, AllocatorInvariant, PTL

-----------------------------------------------------------------------------
(* The refinement: what the client sees is Allocation. *)

BlockOf(u) == [addr |-> u.addr, size |-> u.size, align |-> u.align]

Live(U) == {BlockOf(u) : u \in U}

(* Two chunks in use are two blocks that share no byte.                    *)
LEMMA BlocksDisjoint ==
  ASSUME NEW list, NEW U, NEW M, Good(list, U, M), NEW u \in U, NEW w \in U, u # w
  PROVE  BlockOf(u) # BlockOf(w) /\ A!Bytes(BlockOf(u)) \cap A!Bytes(BlockOf(w)) = {}
<1>1. AreaOf(u) # AreaOf(w)
  BY DEF Good, InUse
<1>2. /\ AreaOf(u) \in Areas(list, U) /\ AreaOf(u).addr = u.addr /\ End(AreaOf(u)) = End(u)
      /\ AreaOf(w) \in Areas(list, U) /\ AreaOf(w).addr = w.addr /\ End(AreaOf(w)) = End(w)
  BY GoodFacts
<1>3. End(u) <= w.addr \/ End(w) <= u.addr
  BY <1>1, <1>2 DEF Good, Regions, Disjoint, Apart
<1>4. /\ u \in Block /\ w \in Block
      /\ u.size + Word <= u.bytes /\ w.size + Word <= w.bytes
  BY DEF Good, InUse
<1>5. /\ u.addr \in Nat /\ u.bytes \in Nat /\ u.size \in Nat \ {0} /\ End(u) = u.addr + u.bytes
      /\ w.addr \in Nat /\ w.bytes \in Nat /\ w.size \in Nat \ {0} /\ End(w) = w.addr + w.bytes
  BY <1>4 DEF Block, End
<1>6. /\ u.addr + u.size < End(u) /\ w.addr + w.size < End(w)
  BY <1>4, <1>5, Sizes
<1>7. u.addr # w.addr
  BY <1>3, <1>5, <1>6
<1>8. BlockOf(u) # BlockOf(w)
  <2>1. BlockOf(u).addr = u.addr /\ BlockOf(w).addr = w.addr
    BY DEF BlockOf
  <2> QED BY <1>7, <2>1
<1>9. /\ A!Bytes(BlockOf(u)) = u.addr .. u.addr + u.size - 1
      /\ A!Bytes(BlockOf(w)) = w.addr .. w.addr + w.size - 1
  BY DEF A!Bytes, BlockOf
<1>10. (u.addr .. u.addr + u.size - 1) \cap (w.addr .. w.addr + w.size - 1) = {}
  BY <1>3, <1>5, <1>6
<1> QED BY <1>8, <1>9, <1>10

(* A chunk that joins those in use is a block that is allocated.           *)
LEMMA TakenIsAllocated ==
  ASSUME NEW list, NEW M, NEW v, Good(list, used', M), used' = used \cup {v},
         \A u \in used : AreaOf(u) # AreaOf(v)
  PROVE  A!Allocate
<1> DEFINE live == Live(used)
           b == BlockOf(v)
<1>1. v \in used' /\ v \notin used /\ \A u \in used : u \in used' /\ u # v
  OBVIOUS
<1>2. \A u \in used : BlockOf(v) # BlockOf(u) /\ A!Bytes(BlockOf(v)) \cap A!Bytes(BlockOf(u)) = {}
  BY <1>1, BlocksDisjoint
<1>3. v \in Block /\ IsAligned(v.addr, v.align)
  BY <1>1 DEF Good, InUse
<1>4. b.addr = v.addr /\ b.size = v.size /\ b.align = v.align
  BY DEF BlockOf
<1>5. v.size > 0
  BY <1>3 DEF Block
<1>6. b.align = 0 \/ b.addr % b.align = 0
  BY <1>3, <1>4 DEF IsAligned
<1>7. Live(used') = Live(used) \cup {b}
  BY DEF Live
<1>8. b \notin Live(used) /\ \A c \in Live(used) : A!Bytes(b) \cap A!Bytes(c) = {}
  BY <1>2 DEF Live
<1> HIDE DEF b
<1> QED BY <1>4, <1>5, <1>6, <1>7, <1>8 DEF A!Allocate, Live, BlockOf

(* Every step of the allocator is a step, or a stutter, of Allocation.     *)
LEMMA StepAllocation == AllocatorInv /\ [Next]_vars => [A!Next]_(Live(used))
<1> SUFFICES ASSUME AllocatorInv, [Next]_vars PROVE A!Next \/ Live(used)' = Live(used)
  BY DEF A!Next
<1>0. AllocatorInv'
  BY StepInv
<1>1. ASSUME NEW initial \in InitialSizes, NEW s \in {"Linear", "Exponential"}, Construct(initial, s)
      PROVE  Live(used)' = Live(used)
  BY <1>1 DEF Construct, Live
<1>2. ASSUME NEW r \in Requests, AllocateFromList(r)
      PROVE  A!Next
  <2>1. Taken(r)
    BY <1>2, ListTake DEF AllocatorInv
  <2> QED BY <2>1, TakenIsAllocated DEF Taken, A!Next
<1>3. ASSUME NEW r \in Requests, AllocateFresh(r)
      PROVE  A!Next
  <2>1. PICK addr \in FreshPlaces(r, minSize) :
          /\ AddFreshChunk(addr, r, minSize, strategy)
          /\ Take(InsertSorted(chunks, FreshChunk(addr, r, minSize)), SortedPos(chunks, addr), r)
    BY <1>3 DEF AllocateFresh
  <2>2. Taken(r)
    BY <2>1, FreshTake DEF AllocatorInv, Good, Regions
  <2> QED BY <2>2, TakenIsAllocated DEF Taken, A!Next
<1>4. ASSUME NEW u \in used, Deallocate(u)
      PROVE  A!Next
  <2>1. used' = used \ {u}
    BY <1>4 DEF Deallocate
  <2>2. \A w \in used : w # u => BlockOf(w) # BlockOf(u)
    BY BlocksDisjoint DEF AllocatorInv
  <2>3. Live(used') = Live(used) \ {BlockOf(u)} /\ BlockOf(u) \in Live(used)
    BY <2>1, <2>2 DEF Live
  <2> QED BY <2>3 DEF A!Next, A!Deallocate, Live, BlockOf
<1>5. CASE Destroy
  BY <1>5 DEF Destroy, Live
<1>6. CASE UNCHANGED vars
  BY <1>6 DEF vars, Live
<1> QED BY <1>1, <1>2, <1>3, <1>4, <1>5, <1>6 DEF Next


(* Every behaviour of the allocator is one of Allocation: a block handed   *)
(* out is aligned and shares no byte with another, until it is given back. *)
THEOREM RefinesAllocation == Spec => ImplementsAllocation
<1>1. Init => A!Init
  BY DEF Init, A!Init
<1>2. AllocatorInv /\ [Next]_vars
      => [A!Next]_({[addr |-> u.addr, size |-> u.size, align |-> u.align] : u \in used})
  BY StepAllocation DEF Live, BlockOf
<1> QED BY <1>1, <1>2, AllocatorInvariant, PTL DEF Spec, ImplementsAllocation, A!Spec
=============================================================================
