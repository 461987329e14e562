-------------------------- MODULE MCReaderWriterMutex --------------------------
(* Instances of ReaderWriterMutex for TLC. *)
EXTENDS ReaderWriterMutex

CONSTANTS t1, t2, t3, t4

Three == {t1, t2, t3}
Four  == {t1, t2, t3, t4}

(* Every thread may make every call. *)
AnyCall == [t \in Threads |-> Calls]

(* One plain writer, the others read and may upgrade. *)
OneWriter == [t \in Threads |-> IF t = t1 THEN {"lock_write"} ELSE {"lock_read", "upgrade"}]
=============================================================================
