------------------------------- MODULE Allocation -------------------------------
(***************************************************************************)
(* What an allocator promises its client: a block it hands out is aligned  *)
(* as requested, overlaps no block that is still allocated, and stays as   *)
(* it is until the client gives it back.                                   *)
(***************************************************************************)
EXTENDS Integers

VARIABLE live   \* the allocated blocks: [addr, size, align]

Bytes(b) == b.addr .. b.addr + b.size - 1

Init == live = {}

Allocate ==
  \E b \in live' \ live :
    /\ live' = live \cup {b}
    /\ b.size > 0
    /\ b.align = 0 \/ b.addr % b.align = 0
    /\ \A c \in live : Bytes(b) \cap Bytes(c) = {}

Deallocate == \E b \in live : live' = live \ {b}

Next == Allocate \/ Deallocate

Spec == Init /\ [][Next]_live

=============================================================================
