---------------------------- MODULE MCListAllocator ----------------------------
(* Instances of ListAllocator for TLC: pages of 64 bytes. *)
EXTENDS ListAllocator

(* Less than a word, more than a page together with the size behind it,    *)
(* and two with alignments, inside a page and beyond it.                   *)
MCRequests ==
  {[size |-> 5, align |-> 0], [size |-> 24, align |-> 32],
   [size |-> 57, align |-> 0], [size |-> 9, align |-> 128]}

MCInitialSizes == {0, 1, 100}
=============================================================================
