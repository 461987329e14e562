---------------------------- MODULE SerialExecution ----------------------------
(***************************************************************************)
(* What SerialScheduler promises (SerialScheduler.hpp: "a consistent,      *)
(* serial execution"): transactions execute one after the other, each      *)
(* begins once, and no command executes twice.  Until commands overlap,    *)
(* those of a transaction execute in the order in which its client         *)
(* scheduled them.  The header rules overlapping commands out ("no         *)
(* concurrent execution"); the code does not.                              *)
(***************************************************************************)
EXTENDS Integers, Sequences

CONSTANTS
  Txns,
  NumCommands,   \* NumCommands[t]: how many commands t has
  None           \* not a transaction

VARIABLES
  current,   \* the transaction that executes, or None
  history,   \* the commands executed so far, <<transaction, number>>
  ended,     \* the transactions that are over
  overlapping  \* whether commands of a transaction may execute at the same time

Init == current = None /\ history = <<>> /\ ended = {} /\ overlapping = FALSE

Begin(t) ==
  /\ current = None /\ t \notin ended
  /\ current' = t
  /\ UNCHANGED <<history, ended, overlapping>>

Execute(i) ==
  /\ current # None
  /\ \A k \in DOMAIN history : history[k][1] = current =>
       history[k][2] < i \/ (overlapping /\ history[k][2] # i)
  /\ history' = Append(history, <<current, i>>)
  /\ UNCHANGED <<current, ended, overlapping>>

End ==
  /\ current # None
  /\ current' = None
  /\ ended' = ended \cup {current}
  /\ UNCHANGED <<history, overlapping>>

Overlap == overlapping' = TRUE /\ UNCHANGED <<current, history, ended>>

Next ==
  \/ \E t \in Txns : Begin(t)
  \/ current # None /\ \E i \in 1..NumCommands[current] : Execute(i)
  \/ End
  \/ Overlap

Spec == Init /\ [][Next]_<<current, history, ended, overlapping>>

=============================================================================
