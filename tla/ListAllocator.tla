------------------------------ MODULE ListAllocator ------------------------------
(***************************************************************************)
(* list_allocator of include/mutable/util/list_allocator.hpp: memory comes *)
(* in mappings of whole pages, each cut into chunks.  Unused chunks are in *)
(* a list sorted by address, with a header at their front; a used chunk    *)
(* keeps its size behind the bytes of the client, where only the size of   *)
(* the request finds it again.  The first chunk of a mapping is marked and *)
(* must never be coalesced into the chunk before it, so that the           *)
(* destructor can unmap it.                                                *)
(*                                                                         *)
(* Addresses and sizes are in bytes.  A request that finds no memory       *)
(* throws before anything is changed: it is no step of this specification. *)
(***************************************************************************)
EXTENDS Integers, SequencesExt

CONSTANTS
  Word,          \* sizeof and alignof size_type
  Header,        \* sizeof(header_type): the link and the size of an unused chunk
  Page,          \* get_pagesize()
  NumPages,      \* bound: how many pages the address space has
  Requests,      \* the requests of the clients: [size, align]
  InitialSizes,  \* arguments of the constructor
  MaxUsed        \* bound: how many chunks are in use at a time

ASSUME WordAssumption == Word \in Nat \ {0}
\* A header is two words, the link and the size.  With a larger header the
\* rest of a split could be too small for one: MaySplit does not exclude it.
ASSUME HeaderAssumption == Header = 2 * Word
ASSUME PageAssumption == Page \in Nat /\ Page % Word = 0 /\ Page >= 2 * Header
ASSUME BoundsAssumption == NumPages \in Nat /\ MaxUsed \in Nat
\* Alignments are powers of two, as the size of a page is.
ASSUME RequestsAssumption ==
  /\ Requests \subseteq [size : Nat \ {0}, align : Nat]
  /\ \A r \in Requests : r.align = 0 \/ Page % r.align = 0 \/ r.align % Page = 0
ASSUME InitialAssumption == InitialSizes \subseteq Nat

VARIABLES
  alive,     \* whether the allocator is constructed
  strategy,  \* strategy_
  minSize,   \* min_allocation_size_
  chunks,    \* chunks_, in list order: [addr, bytes, marked]
  used,      \* the chunks in use, with their requests
  mapped     \* the mappings of the process: [addr, bytes]

vars == <<alive, strategy, minSize, chunks, used, mapped>>

(* ceil_to_multiple_of_pow_2 *)
Ceil(n, m) == ((n + m - 1) \div m) * m

IsAligned(addr, align) == align = 0 \/ addr % align = 0

Larger(m, n) == IF m > n THEN m ELSE n

(* Where a used chunk has its size: at the first word behind the request. *)
SizeAddr(u) == Ceil(u.addr + u.size, Word)

-----------------------------------------------------------------------------
(* The list of unused chunks.                                              *)
(*                                                                         *)
(* A definition named ...Mutant is a plausible bug in the definition that  *)
(* follows it: PROJECT.json names the property that each of them violates. *)
(* No action uses it.                                                      *)

ValueAddr(c) == c.addr + Header - Word

(* Before the first chunk whose value is not below addr. *)
SortedPos(list, addr) ==
  LET i == SelectInSeq(list, LAMBDA c : ValueAddr(c) >= addr)
  IN  IF i = 0 THEN Len(list) + 1 ELSE i

InsertSorted(list, c) == InsertAt(list, SortedPos(list, c.addr), c)

MayCoalesceMarkMutant(c, d) == c.addr + c.bytes = d.addr

(* Only with an adjacent successor that does not begin a mapping. *)
MayCoalesce(c, d) == ~d.marked /\ c.addr + c.bytes = d.addr

(* The i-th chunk swallows its successor if it may. *)
Coalesce(list, i) ==
  IF i < Len(list) /\ MayCoalesce(list[i], list[i + 1])
  THEN ReplaceAt(RemoveAt(list, i + 1), i, [list[i] EXCEPT !.bytes = @ + list[i + 1].bytes])
  ELSE list

ReclaimMutant(list, c) == Coalesce(InsertSorted(list, c), SortedPos(list, c.addr))

(* Insert the chunk, coalesce it with its successor, then its predecessor  *)
(* with it.                                                                *)
Reclaim(list, c) ==
  LET i == SortedPos(list, c.addr)
      l == Coalesce(InsertSorted(list, c), i)
  IN  IF i > 1 THEN Coalesce(l, i - 1) ELSE l

FitsSizeMutant(c, r) == c.bytes >= r.size /\ IsAligned(c.addr, r.align)

FitsAlignMutant(c, r) == c.bytes - Word >= r.size

(* The chunk has room for the request and its size, and is aligned. *)
Fits(c, r) == c.bytes - Word >= r.size /\ IsAligned(c.addr, r.align)

FirstFit(list, r) == SelectInSeq(list, LAMBDA c : Fits(c, r))

MaySplitMutant(c, r) == 2 * r.size <= c.bytes - Word

(* Worthwhile, and the rest has room for a header. *)
MaySplit(c, r) ==
  /\ c.bytes >= Header + r.size + Word
  /\ 2 * r.size <= c.bytes - Word

(* The bytes of the first of the two chunks. *)
SplitSize(r) == Ceil(Larger(r.size + Word, Header), Word)

FirstPartMutant(c, r) == [c EXCEPT !.bytes = SplitSize(r), !.marked = FALSE]

FirstPart(c, r) == [c EXCEPT !.bytes = SplitSize(r)]

Rest(c, r) ==
  [addr |-> c.addr + SplitSize(r), bytes |-> c.bytes - SplitSize(r), marked |-> FALSE]

(* The list with its i-th chunk split, if it may be. *)
Split(list, i, r) ==
  IF MaySplit(list[i], r)
  THEN InsertAt(ReplaceAt(list, i, FirstPart(list[i], r)), i + 1, Rest(list[i], r))
  ELSE list

-----------------------------------------------------------------------------
(* Mappings. *)

(* Where the kernel may put a mapping: any hole of whole pages. *)
Holes(bytes) ==
  {addr \in {Page * p : p \in 1..NumPages} :
     /\ addr + bytes <= Page * (NumPages + 1)
     /\ \A m \in mapped : addr + bytes <= m.addr \/ m.addr + m.bytes <= addr}

(* For more than the alignment of a page, aligned_mmap maps a longer range *)
(* and unmaps what lies before and behind the aligned part.                *)
Places(bytes, align) ==
  IF align = Page
  THEN Holes(bytes)
  ELSE {Ceil(addr, align) : addr \in Holes(bytes + align)}

FreshBytes(r, least) == Ceil(Larger(r.size + Word, least), Page)

FreshChunk(addr, r, least) ==
  [addr |-> addr, bytes |-> FreshBytes(r, least), marked |-> TRUE]

FreshPlaces(r, least) == Places(FreshBytes(r, least), Larger(r.align, Page))

(* Map memory for r at addr; the mapping is one marked chunk. *)
AddFreshChunk(addr, r, least, s) ==
  /\ mapped' = mapped \cup {[addr |-> addr, bytes |-> FreshBytes(r, least)]}
  /\ minSize' = IF s = "Exponential" THEN 2 * least ELSE least

-----------------------------------------------------------------------------
Init ==
  /\ alive = FALSE
  /\ strategy = "Linear"
  /\ minSize = 0
  /\ chunks = <<>>
  /\ used = {}
  /\ mapped = {}

(* The constructor maps memory at once if it is given an initial size. *)
Construct(initial, s) ==
  LET least == Ceil(IF initial = 0 THEN Header ELSE initial, Page)
      any   == [size |-> 1, align |-> 0]
  IN  /\ ~alive
      /\ alive' = TRUE
      /\ strategy' = s
      /\ IF initial = 0
         THEN minSize' = least /\ UNCHANGED <<chunks, mapped>>
         ELSE \E addr \in FreshPlaces(any, least) :
                /\ AddFreshChunk(addr, any, least, s)
                /\ chunks' = InsertSorted(chunks, FreshChunk(addr, any, least))
      /\ UNCHANGED used

(* The i-th chunk of list serves r: it is split, leaves the list, and its  *)
(* size moves behind the bytes of the client.                              *)
Take(list, i, r) ==
  LET l == Split(list, i, r)
  IN  /\ chunks' = RemoveAt(l, i)
      /\ used' = used \cup
           {[addr |-> l[i].addr, bytes |-> l[i].bytes, marked |-> l[i].marked,
             size |-> r.size, align |-> r.align]}

AllocateFromList(r) ==
  /\ alive /\ Cardinality(used) < MaxUsed
  /\ FirstFit(chunks, r) # 0
  /\ Take(chunks, FirstFit(chunks, r), r)
  /\ UNCHANGED <<alive, strategy, minSize, mapped>>

AllocateFresh(r) ==
  /\ alive /\ Cardinality(used) < MaxUsed
  /\ FirstFit(chunks, r) = 0
  /\ \E addr \in FreshPlaces(r, minSize) :
       /\ AddFreshChunk(addr, r, minSize, strategy)
       /\ Take(InsertSorted(chunks, FreshChunk(addr, r, minSize)), SortedPos(chunks, addr), r)
  /\ UNCHANGED <<alive, strategy>>

(* The client gives a block back, with the size it asked for. *)
Deallocate(u) ==
  /\ alive
  /\ chunks' = Reclaim(chunks, [addr |-> u.addr, bytes |-> u.bytes, marked |-> u.marked])
  /\ used' = used \ {u}
  /\ UNCHANGED <<alive, strategy, minSize, mapped>>

(* The marked chunks are unmapped; a mapping that is not covered by its    *)
(* marked chunk stays.  Clients give everything back before.               *)
Destroy ==
  /\ alive /\ used = {}
  /\ alive' = FALSE
  /\ mapped' = {m \in mapped :
                  \A i \in DOMAIN chunks :
                    chunks[i] # [addr |-> m.addr, bytes |-> m.bytes, marked |-> TRUE]}
  /\ chunks' = <<>>
  /\ strategy' = "Linear" /\ minSize' = 0
  /\ UNCHANGED used

Next ==
  \/ \E initial \in InitialSizes, s \in {"Linear", "Exponential"} : Construct(initial, s)
  \/ \E r \in Requests : AllocateFromList(r)
  \/ \E r \in Requests : AllocateFresh(r)
  \/ \E u \in used : Deallocate(u)
  \/ Destroy

Spec == Init /\ [][Next]_vars

-----------------------------------------------------------------------------
(* Properties *)

Unused == {chunks[i] : i \in DOMAIN chunks}

Chunks == Unused \cup used

End(c) == c.addr + c.bytes

(* Sizes and addresses are as the code has them.  Every chunk, used or     *)
(* not, lies at a multiple of a word, is a multiple of words long and has  *)
(* room for a header: the M_insist of allocate() and split_unused_chunk(). *)
TypeOK ==
  /\ alive \in BOOLEAN
  /\ strategy \in {"Linear", "Exponential"}
  /\ minSize \in Nat /\ minSize % Page = 0
  /\ \A c \in Chunks :
       /\ c.addr \in Nat /\ c.bytes \in Nat /\ c.marked \in BOOLEAN
       /\ c.addr % Word = 0 /\ c.bytes % Word = 0 /\ c.bytes >= Header
  /\ \A m \in mapped : m.addr % Page = 0 /\ m.bytes % Page = 0

(* A chunk in use holds the bytes of its client and behind them, at the    *)
(* next word, its size: deallocate() reads it there, and neither the       *)
(* client nor the header of another chunk has overwritten it.              *)
SizeSurvives ==
  \A u \in used :
    /\ SizeAddr(u) + Word <= End(u)
    /\ \A c \in Chunks : c # u => End(c) <= u.addr \/ End(u) <= c.addr

(* The chunks, used and unused, cut every mapping into pieces without a    *)
(* gap: no memory is lost by splitting and coalescing, and each mapping    *)
(* begins with a chunk that bears the mark, and only there is a mark.      *)
ChunksTileMappings ==
  /\ \A m \in mapped : \E c \in Chunks : c.addr = m.addr
  /\ \A c \in Chunks : \E m \in mapped :
       /\ m.addr <= c.addr /\ End(c) <= End(m)
       /\ c.marked <=> c.addr = m.addr
       /\ End(c) = End(m) \/ \E d \in Chunks : d.addr = End(c)

(* The list is sorted and there is no work left for coalesce(): unused     *)
(* neighbours of one mapping are always one chunk.                         *)
FullyCoalesced ==
  \A i \in 1 .. Len(chunks) - 1 :
    /\ End(chunks[i]) <= chunks[i + 1].addr
    /\ ~MayCoalesce(chunks[i], chunks[i + 1])

(* The destructor returns every mapping of the allocator, at its full      *)
(* length, whatever was allocated in which order before.                   *)
NothingLeaks == ~alive => mapped = {}

A == INSTANCE Allocation WITH
       live <- {[addr |-> u.addr, size |-> u.size, align |-> u.align] : u \in used}

(* Clients get aligned blocks that overlap no allocated block. *)
ImplementsAllocation == A!Spec

=============================================================================
