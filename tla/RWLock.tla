--------------------------------- MODULE RWLock --------------------------------
(***************************************************************************)
(* What a reader-writer lock promises, without counters, queues or         *)
(* wakeups: many readers or one writer, and an upgrade that turns the last *)
(* read lock into the write lock in one step, with no writer in between.   *)
(***************************************************************************)
CONSTANT Threads
VARIABLE holds    \* holds[t]: the lock t holds

Init == holds = [t \in Threads |-> "none"]

Others(t) == Threads \ {t}

AcquireRead(t) ==
  /\ holds[t] = "none"
  /\ \A u \in Others(t) : holds[u] # "write"
  /\ holds' = [holds EXCEPT ![t] = "read"]

AcquireWrite(t) ==
  /\ holds[t] = "none"
  /\ \A u \in Others(t) : holds[u] = "none"
  /\ holds' = [holds EXCEPT ![t] = "write"]

Upgrade(t) ==
  /\ holds[t] = "read"
  /\ \A u \in Others(t) : holds[u] = "none"
  /\ holds' = [holds EXCEPT ![t] = "write"]

Release(t) ==
  /\ holds[t] # "none"
  /\ holds' = [holds EXCEPT ![t] = "none"]

Next == \E t \in Threads : AcquireRead(t) \/ AcquireWrite(t) \/ Upgrade(t) \/ Release(t)

Spec == Init /\ [][Next]_holds

=============================================================================
