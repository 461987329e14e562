--------------------------- MODULE MCSerialScheduler ---------------------------
(* Instances of SerialScheduler for TLC. *)
EXTENDS SerialScheduler

CONSTANTS t1, t2

Two == {t1, t2}

(* One command per transaction, as Scheduler::autocommit() does. *)
Autocommit == [t \in Txns |-> 1]

(* A session that may have two commands in the queue at a time, and a client *)
(* with one.                                                                 *)
SessionAndOne == [t \in Txns |-> IF t = t1 THEN 2 ELSE 1]
=============================================================================
