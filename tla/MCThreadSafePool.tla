--------------------------- MODULE MCThreadSafePool ---------------------------
(* Instances of ThreadSafePool for TLC. *)
EXTENDS ThreadSafePool

CONSTANTS t1, t2, t3, a, b

MCThreads  == {t1, t2, t3}
MCEntities == {a, b}
=============================================================================
