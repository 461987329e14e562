-------------------------- MODULE SerialSchedulerProofs --------------------------
(***************************************************************************)
(* Theorems about SerialScheduler, for any number of clients and commands. *)
(***************************************************************************)
EXTENDS SerialScheduler, SequenceTheorems, FiniteSetTheorems, TLAPS

(* A command is a transaction and one of its numbers; NoCommand is none. *)
LEMMA CommandType ==
  /\ \A t \in Txns : \A i \in 1..NumCommands[t] : <<t, i>> \in Commands
  /\ \A c \in Commands : /\ c[1] \in Txns /\ c[2] \in 1..NumCommands[c[1]]
                         /\ c = <<c[1], c[2]>>
  /\ NoCommand \notin Commands
BY TxnsAssumption DEF Commands, NoCommand

(* What the outcomes of the search in push() have in common: the new list  *)
(* is the old one with c put at some place p, the last one if the search   *)
(* stops at rbegin().                                                      *)
InsertedAt(new, list, c, p) ==
  /\ new \in Seq(Commands)
  /\ Len(new) = Len(list) + 1
  /\ new[p] = c
  /\ \A k \in 1..Len(list) : new[IF k < p THEN k ELSE k + 1] = list[k]

(* Insert, the list operation of push(), puts the command at one place. *)
LEMMA InsertPlace ==
  ASSUME NEW list \in Seq(Commands), NEW c \in Commands, NEW read
  PROVE  \E p \in 1..(Len(list) + 1) :
           /\ InsertedAt(Insert(list, c, read), list, c, p)
           /\ read = "differ" => p = Len(list) + 1
<1> DEFINE new == Insert(list, c, read)
<1>1. CASE list = <<>> \/ read = "differ"
  <2>1. new = Append(list, c)
    BY <1>1 DEF Insert
  <2>2. InsertedAt(new, list, c, Len(list) + 1)
    BY <2>1 DEF InsertedAt
  <2> QED
    BY <2>2
<1>2. CASE ~(list = <<>> \/ read = "differ") /\ running = Txn(c)
  <2>1. new = <<c>> \o list
    BY <1>2 DEF Insert
  <2>2. InsertedAt(new, list, c, 1)
    BY <2>1, ConcatProperties DEF InsertedAt
  <2> QED
    BY <1>2, <2>2
<1>3. CASE ~(list = <<>> \/ read = "differ") /\ running # Txn(c)
  <2>1. new = <<Head(list), c>> \o Tail(list)
    BY <1>3 DEF Insert
  <2>2. /\ Head(list) = list[1] /\ list[1] \in Commands
        /\ Tail(list) \in Seq(Commands) /\ Len(Tail(list)) = Len(list) - 1
        /\ \A k \in 1..Len(Tail(list)) : Tail(list)[k] = list[k + 1]
    BY <1>3, HeadTailProperties
  <2>3. InsertedAt(new, list, c, 2)
    BY <2>1, <2>2, ConcatProperties DEF InsertedAt
  <2> QED
    BY <1>3, <2>2, <2>3
<1> QED
  BY <1>1, <1>2, <1>3

(* What push() does to a queue that is open. *)
LEMMA PushPlace ==
  ASSUME TypeOK, NEW t \in Txns, Push(t)
  PROVE  LET c == <<t, scheduled[t] + 1>> IN
         /\ c \in Commands
         /\ ~closed => \E p \in 1..(Len(command_list) + 1) :
              /\ InsertedAt(command_list', command_list, c, p)
              /\ "match" \notin SentinelReads => p = Len(command_list) + 1
<1> DEFINE c == <<t, scheduled[t] + 1>>
<1>1. c \in Commands
  <2>1. scheduled[t] \in Nat /\ NumCommands[t] \in Nat /\ scheduled[t] < NumCommands[t]
    BY TxnsAssumption DEF Push, MayPush, TypeOK
  <2> QED
    BY <2>1, CommandType
<1>2. ASSUME ~closed
      PROVE  \E p \in 1..(Len(command_list) + 1) :
               /\ InsertedAt(command_list', command_list, c, p)
               /\ "match" \notin SentinelReads => p = Len(command_list) + 1
  <2>1. PICK read \in Reads \ {"fault"} : command_list' = Insert(command_list, c, read)
    BY <1>2 DEF Push
  <2>2. "match" \notin SentinelReads => read = "differ"
    BY <2>1, SentinelAssumption DEF Reads
  <2>3. command_list \in Seq(Commands)
    BY DEF TypeOK
  <2> HIDE DEF c
  <2> QED
    BY <1>1, <2>1, <2>2, <2>3, InsertPlace
<1> QED
  BY <1>1, <1>2

(* The client that starts a worker is on its way to store it, or some      *)
(* worker is stored; a client starts one worker.                           *)
Created ==
  /\ handle # None => worker[handle] # "none"
  /\ \A t \in Txns :
       /\ worker[t] # "none" => handle # None \/ pc[t] \in {"assign", "store"}
       /\ pc[t] = "create" => worker[t] = "none"
       /\ pc[t] \in {"assign", "store"} => worker[t] # "none" /\ handle # t

(* Every step of the scheduler and its clients preserves the types. *)
LEMMA TypeInductive == TypeOK /\ Created /\ [Next]_vars => TypeOK'
<1> SUFFICES ASSUME TypeOK, Created, [Next]_vars PROVE TypeOK'
  OBVIOUS
<1> USE CommandType
<1>1. ASSUME NEW t \in Txns, Push(t) PROVE TypeOK'
  <2>1. <<t, scheduled[t] + 1>> \in Commands
    BY <1>1, PushPlace
  <2>2. command_list' \in Seq(Commands)
    BY <1>1, PushPlace DEF Push, InsertedAt, TypeOK
  <2>3. promise' \in [Commands -> {"none", "unset", "true", "false"}] /\ pc' \in [Txns -> Labels]
    <3> DEFINE c == <<t, scheduled[t] + 1>>
    <3>1. PICK v \in {"unset", "false"}, l \in {"notify", "check"} :
            promise' = [promise EXCEPT ![c] = v] /\ pc' = [pc EXCEPT ![t] = l]
      BY <1>1 DEF Push, GoTo
    <3> HIDE DEF c
    <3> QED
      BY <2>1, <3>1 DEF TypeOK, Labels
  <2>4. UNCHANGED <<running, closed, handle, worker, workerVars, dtor, fault>> /\ scheduled' \in [Txns -> Nat]
    BY <1>1 DEF Push, Alive, TypeOK
  <2> QED
    BY <2>2, <2>3, <2>4 DEF workerVars, TypeOK
<1>2. ASSUME NEW t \in Txns, PushFaults(t) PROVE TypeOK'
  BY <1>2 DEF PushFaults, Die, TypeOK, queueVars, workerVars, clientVars
<1>3. ASSUME NEW t \in Txns, NotifyPush(t) \/ NotifyStop(t) PROVE TypeOK'
  <2>1. pc' \in [Txns -> Labels]
    BY <1>3 DEF NotifyPush, NotifyStop, GoTo, TypeOK, Labels
  <2>2. UNCHANGED <<queueVars, promise, handle, workerVars, scheduled, dtor, fault>>
    BY <1>3 DEF NotifyPush, NotifyStop, Alive
  <2>3. /\ worker' \in [Txns -> WorkerLabels]
        /\ \A u \in Txns : worker'[u] \in Busy <=> worker[u] \in Busy
    BY <1>3 DEF NotifyPush, NotifyStop, WakeWorker, Asleep, Step, TypeOK, WorkerLabels, Busy
  <2> QED
    BY <2>1, <2>2, <2>3 DEF TypeOK, queueVars, workerVars
<1>4. ASSUME NEW t \in Txns, CheckThread(t) \/ AssignThread(t) \/ StoreThread(t) PROVE TypeOK'
  <2>1. pc' \in [Txns -> Labels] /\ handle' \in Txns \cup {None}
    BY <1>4 DEF CheckThread, AssignThread, StoreThread, GoTo, TypeOK, Labels
  <2>2. UNCHANGED <<queueVars, promise, worker, workerVars, scheduled, dtor>>
    BY <1>4 DEF CheckThread, AssignThread, StoreThread
  <2>3. fault' \in {"none", "terminate"}
    BY <1>4 DEF CheckThread, AssignThread, StoreThread, Alive, Die
  <2> QED
    BY <2>1, <2>2, <2>3 DEF TypeOK, queueVars, workerVars
<1>5. ASSUME NEW t \in Txns, CreateThread(t) PROVE TypeOK'
  <2>1. pc' \in [Txns -> Labels] /\ worker' = [worker EXCEPT ![t] = "test"] /\ worker[t] = "none"
    BY <1>5 DEF CreateThread, Created, GoTo, Step, TypeOK, Labels
  <2>2. UNCHANGED <<queueVars, promise, handle, workerVars, scheduled, dtor, fault>>
    BY <1>5 DEF CreateThread, Alive
  <2> QED
    BY <2>1, <2>2 DEF TypeOK, queueVars, workerVars, WorkerLabels, Busy
<1>6. ASSUME NEW t \in Txns, Stop(t) PROVE TypeOK'
  <2>1. pc' \in [Txns -> Labels] /\ running' \in Txns \cup {None} /\ fault' \in {"none", "insist"}
    BY <1>6 DEF Stop, Die, GoTo, TypeOK, Labels
  <2>2. UNCHANGED <<command_list, closed, promise, handle, worker, workerVars, scheduled, dtor>>
    BY <1>6 DEF Stop
  <2> QED
    BY <2>1, <2>2 DEF TypeOK, workerVars
<1>7. ASSUME NEW u \in Txns, TestClosed(u) \/ Sleep(u) \/ PopNothing(u) \/ SpuriousWakeup(u)
      PROVE  TypeOK'
  <2>1. /\ worker[u] \in {"test", "pop", "asleep"}
        /\ \E l \in {"exited", "pop", "asleep", "test"} : worker' = [worker EXCEPT ![u] = l]
    BY <1>7 DEF TestClosed, Sleep, PopNothing, SpuriousWakeup, Step
  <2>2. UNCHANGED <<queueVars, promise, workerVars, clientVars, dtor, fault>>
    BY <1>7 DEF TestClosed, Sleep, PopNothing, SpuriousWakeup, Alive
  <2> QED
    BY <2>1, <2>2 DEF TypeOK, queueVars, workerVars, clientVars, WorkerLabels, Busy
<1>8. ASSUME NEW u \in Txns, Pop(u) PROVE TypeOK'
  <2>1. Head(command_list) \in Commands /\ Tail(command_list) \in Seq(Commands)
    BY <1>8, HeadTailProperties DEF Pop, TypeOK
  <2>2. /\ running' \in Txns \cup {None} /\ command_list' \in Seq(Commands)
        /\ UNCHANGED <<closed, promise, start_time, next_start_time, log, outcome, handle, pc,
                       scheduled, dtor, fault>>
    BY <1>8, <2>1 DEF Pop, Alive, Txn, TypeOK, clientVars
  <2>3. /\ worker' = [worker EXCEPT ![u] = "begin"] /\ cur' = [cur EXCEPT ![u] = Head(command_list)]
    BY <1>8 DEF Pop, Step
  <2> QED
    BY <2>1, <2>2, <2>3 DEF TypeOK, WorkerLabels, Busy
<1>9. ASSUME NEW u \in Txns, ReadStartTime(u) PROVE TypeOK'
  <2>1. /\ worker[u] = "begin" /\ \E l \in {"stamp", "execute"} : worker' = [worker EXCEPT ![u] = l]
        /\ UNCHANGED <<queueVars, promise, workerVars, clientVars, dtor, fault>>
    BY <1>9 DEF ReadStartTime, Step, Alive
  <2> QED
    BY <2>1 DEF TypeOK, queueVars, workerVars, clientVars, WorkerLabels, Busy
<1>10. ASSUME NEW u \in Txns, Stamp(u) PROVE TypeOK'
  <2>1. cur[u] \in Commands /\ Txn(cur[u]) \in Txns
    BY <1>10 DEF Stamp, Txn, TypeOK, Busy
  <2>2. start_time' \in [Txns -> Nat \cup {-1}] /\ next_start_time' \in Nat
    <3> DEFINE T == Nat \cup {-1}
               t == Txn(cur[u])
    <3>1. /\ start_time \in [Txns -> T] /\ next_start_time \in Nat
          /\ next_start_time \in T /\ next_start_time + 1 \in Nat
      BY DEF TypeOK
    <3>2. /\ \/ start_time' = [start_time EXCEPT ![t] = next_start_time]
             \/ UNCHANGED start_time
          /\ next_start_time' = next_start_time + 1
      BY <1>10 DEF Stamp, NextStartTime
    <3> HIDE DEF T, t
    <3>3. start_time' \in [Txns -> T] /\ next_start_time' \in Nat
      BY <3>1, <3>2
    <3> QED BY <3>3 DEF T
  <2>3. /\ worker' \in [Txns -> WorkerLabels] /\ fault' \in {"none", "start_time"}
        /\ \A v \in Txns : worker'[v] \in Busy <=> worker[v] \in Busy
    BY <1>10 DEF Stamp, Step, Die, TypeOK, WorkerLabels, Busy
  <2>4. UNCHANGED <<queueVars, promise, cur, log, outcome, clientVars, dtor>>
    BY <1>10 DEF Stamp
  <2> QED
    BY <2>2, <2>3, <2>4 DEF TypeOK, queueVars, clientVars
<1>11. ASSUME NEW u \in Txns, Reject(u) \/ Execute(u) PROVE TypeOK'
  <2>1. /\ worker[u] = "execute" /\ worker' = [worker EXCEPT ![u] = "resolve"] /\ cur[u] \in Commands
        /\ \E o \in {"rejected", "ok", "throw"} : outcome' = [outcome EXCEPT ![cur[u]] = o]
        /\ fault' \in {"none", "terminate"} /\ log' \in {log, Append(log, cur[u])}
    BY <1>11, OutcomesAssumption DEF Reject, Execute, Step, Alive, Die, TypeOK, Busy
  <2>2. UNCHANGED <<queueVars, promise, cur, start_time, next_start_time, clientVars, dtor>>
    BY <1>11 DEF Reject, Execute
  <2>3. log' \in Seq(Commands) /\ outcome' \in [Commands -> {"none", "rejected", "ok", "throw"}]
    <3>1. log \in Seq(Commands) /\ outcome \in [Commands -> {"none", "rejected", "ok", "throw"}]
      BY DEF TypeOK
    <3>2. Append(log, cur[u]) \in Seq(Commands)
      BY <2>1, <3>1
    <3>3. log' \in Seq(Commands)
      BY <2>1, <3>1, <3>2
    <3>4. outcome' \in [Commands -> {"none", "rejected", "ok", "throw"}]
      BY <2>1, <3>1
    <3> QED
      BY <3>3, <3>4
  <2>4. /\ worker' \in [Txns -> WorkerLabels]
        /\ \A v \in Txns : worker'[v] \in Busy <=> worker[v] \in Busy
    BY <2>1 DEF TypeOK, WorkerLabels, Busy
  <2> QED
    BY <2>1, <2>2, <2>3, <2>4 DEF TypeOK, queueVars, clientVars
<1>12. ASSUME NEW u \in Txns, Resolve(u) PROVE TypeOK'
  <2>1. /\ cur[u] \in Commands /\ \E v \in {"true", "false"} : promise' = [promise EXCEPT ![cur[u]] = v]
        /\ worker' = [worker EXCEPT ![u] = "test"] /\ cur' = [cur EXCEPT ![u] = NoCommand]
        /\ UNCHANGED <<queueVars, start_time, next_start_time, log, outcome, clientVars, dtor, fault>>
    BY <1>12 DEF Resolve, Step, Answer, Alive, TypeOK, Busy
  <2> QED
    BY <2>1 DEF TypeOK, queueVars, clientVars, WorkerLabels, Busy
<1>13. CASE DestroyUnused \/ Join
  BY <1>13 DEF DestroyUnused, Join, Alive, TypeOK, queueVars, workerVars, clientVars
<1>14. CASE Close
  BY <1>14 DEF Close, Alive, AnswerQueued, TypeOK, workerVars, clientVars
<1>15. CASE NotifyClose
  BY <1>15 DEF NotifyClose, Alive, WakeAll, Asleep, TypeOK, WorkerLabels, Busy, queueVars, workerVars, clientVars
<1>16. CASE UNCHANGED vars
  BY <1>16 DEF vars, TypeOK
<1> QED
  BY <1>1, <1>2, <1>3, <1>4, <1>5, <1>6, <1>7, <1>8, <1>9, <1>10, <1>11, <1>12, <1>13,
     <1>14, <1>15, <1>16 DEF Next, Client, Worker, Destructor

-----------------------------------------------------------------------------
(* The inductive invariant.  It relates the promises, which the clients    *)
(* see, to the places a command can be at and to the history.              *)

Distinct(s) == \A k, l \in 1..Len(s) : s[k] = s[l] => k = l
Over(t) == pc[t] \in {"notifyStop", "done"}

(* Exactly the scheduled commands have a promise. *)
Asked ==
  \A t \in Txns :
    /\ scheduled[t] <= NumCommands[t]
    /\ \A i \in 1..NumCommands[t] : promise[<<t, i>>] = "none" <=> scheduled[t] < i

(* An unanswered command is in one place, an answered one in none. *)
Held(c) == \E u \in Txns : cur[u] = c

Waiting ==
  /\ \A c \in Commands : promise[c] = "unset" <=> Contains(command_list, c) \/ Held(c)
  /\ Distinct(command_list)
  /\ \A u \in Txns : ~Contains(command_list, cur[u])
  /\ \A u, v \in Txns : cur[u] = cur[v] /\ cur[u] # NoCommand => u = v

(* A command executes before it is answered, and then only once. *)
Executing(c) == \E u \in Txns : cur[u] = c /\ worker[u] = "resolve" /\ outcome[c] # "rejected"

Executed ==
  /\ Distinct(log)
  /\ \A c \in Commands : Contains(log, c) <=> promise[c] = "true" \/ Executing(c)

(* The running transaction owns the workers and is not over; neither is    *)
(* one with an unanswered command.                                         *)
Living ==
  /\ running # None => ~Over(running)
  /\ \A u \in Txns : cur[u] # NoCommand => running = Txn(cur[u])
  /\ \A c \in Commands : promise[c] = "unset" => ~Over(Txn(c))

(* A transaction is stamped while it runs, later than all before it. *)
Stamped ==
  /\ \A t \in Txns : start_time[t] < next_start_time
  /\ \A t \in Txns : start_time[t] # -1 => t = running \/ Over(t)
  /\ running # None /\ start_time[running] # -1 =>
       \A t \in Txns \ {running} : start_time[t] < start_time[running]
  /\ \A u \in Txns : worker[u] \in {"execute", "resolve"} => start_time[Txn(cur[u])] # -1

Emptied == closed => command_list = <<>>

IInv ==
  TypeOK /\ Created /\ Asked /\ Waiting /\ Executed /\ Living /\ Stamped /\ TimestampOrder /\ Emptied

(* The scheduler is constructed with the inductive invariant. *)
LEMMA InitIInv == Init => IInv
<1> SUFFICES ASSUME Init PROVE IInv
  OBVIOUS
<1> USE CommandType DEF Init
<1>1. TypeOK
  <2>1. command_list \in Seq(Commands) /\ log \in Seq(Commands)
    BY EmptySeq
  <2>2. start_time \in [Txns -> Nat \cup {-1}]
    BY Zenon
  <2>3. \A u \in Txns : cur[u] # NoCommand <=> worker[u] \in Busy
    BY DEF Busy
  <2> QED
    BY <2>1, <2>2, <2>3 DEF TypeOK, Labels, WorkerLabels
<1>2. Asked
  BY TxnsAssumption DEF Asked
<1>3. Waiting /\ Emptied /\ TimestampOrder
  BY DEF Waiting, Held, Emptied, TimestampOrder, Distinct, Contains
<1>4. Executed
  BY DEF Executed, Executing, Distinct, Contains
<1>5. Living /\ Stamped
  BY TxnsAssumption DEF Living, Stamped, Over, NoCommand
<1>6. Created
  BY DEF Created
<1> QED
  BY <1>1, <1>2, <1>3, <1>4, <1>5, <1>6 DEF IInv

(* Every step keeps the workers and their creators together: a client that *)
(* goes to start a worker has seen no thread stored, so it has none yet.   *)
LEMMA CreatedStep == TypeOK /\ Created /\ [Next]_vars => Created'
<1> SUFFICES ASSUME TypeOK, Created, [Next]_vars PROVE Created'
  OBVIOUS
<1> DEFINE Same == \A u \in Txns : worker'[u] = "none" <=> worker[u] = "none"
<1>1. ASSUME NEW t \in Txns, CreateThread(t) PROVE Created'
  <2>1. /\ pc' = [pc EXCEPT ![t] = "assign"] /\ worker' = [worker EXCEPT ![t] = "test"]
        /\ handle' = handle /\ worker[t] = "none" /\ handle # t
    BY <1>1, TxnsAssumption DEF CreateThread, GoTo, Step, Created
  <2> QED
    BY <2>1 DEF Created, TypeOK
<1>2. ASSUME NEW t \in Txns, CheckThread(t) PROVE Created'
  <2>1. /\ pc[t] = "check" /\ handle' = handle /\ worker' = worker
        /\ \/ pc' = [pc EXCEPT ![t] = "ready"]
           \/ handle = None /\ pc' = [pc EXCEPT ![t] = "create"]
    BY <1>2 DEF CheckThread, GoTo
  <2> QED
    BY <2>1 DEF Created, TypeOK
<1>3. ASSUME NEW t \in Txns, AssignThread(t) PROVE Created'
  <2>1. /\ pc[t] = "assign" /\ handle' = handle /\ worker' = worker
        /\ pc' = pc \/ pc' = [pc EXCEPT ![t] = "store"]
    BY <1>3 DEF AssignThread, GoTo
  <2> QED
    BY <2>1 DEF Created, TypeOK
<1>4. ASSUME NEW t \in Txns, StoreThread(t) PROVE Created'
  <2>1. /\ pc[t] = "store" /\ worker' = worker
        /\ \/ handle' = t /\ pc' = [pc EXCEPT ![t] = "ready"]
           \/ handle' = handle /\ pc' = pc
    BY <1>4 DEF StoreThread, GoTo
  <2> QED
    BY <2>1, TxnsAssumption DEF Created, TypeOK
<1>5. ASSUME NEW t \in Txns, Push(t) \/ PushFaults(t) \/ NotifyPush(t) \/ Stop(t) \/ NotifyStop(t)
      PROVE  Created'
  <2>1. /\ handle' = handle
        /\ \/ pc' = pc
           \/ /\ pc[t] \notin {"create", "assign", "store"}
              /\ \E l \in {"check", "notify", "notifyStop", "done"} : pc' = [pc EXCEPT ![t] = l]
    BY <1>5 DEF Push, MayPush, PushFaults, NotifyPush, Stop, Answered, NotifyStop, GoTo, clientVars
  <2>2. Same
    BY <1>5 DEF Push, PushFaults, NotifyPush, Stop, NotifyStop, WakeWorker, Asleep, Step, TypeOK
  <2> QED
    BY <2>1, <2>2 DEF Created, TypeOK
<1>6. ASSUME NEW u \in Txns, Worker(u) \/ SpuriousWakeup(u) PROVE Created'
  <2>1. /\ worker[u] # "none"
        /\ \/ worker' = worker
           \/ \E l \in WorkerLabels \ {"none"} : worker' = [worker EXCEPT ![u] = l]
    BY <1>6 DEF Worker, TestClosed, Sleep, PopNothing, Pop, ReadStartTime, Stamp, Reject, Execute,
       Resolve, SpuriousWakeup, Step, WorkerLabels, Busy
  <2>2. UNCHANGED clientVars
    BY <1>6 DEF Worker, TestClosed, Sleep, PopNothing, Pop, ReadStartTime, Stamp, Reject, Execute,
       Resolve, SpuriousWakeup
  <2>3. Same
    BY <2>1 DEF TypeOK
  <2> QED
    BY <2>2, <2>3 DEF Created, TypeOK, clientVars
<1>7. CASE DestroyUnused \/ Close \/ Destructor \/ UNCHANGED vars
  <2>1. UNCHANGED clientVars
    BY <1>7 DEF DestroyUnused, Close, Destructor, NotifyClose, Join, vars, clientVars
  <2>2. Same
    BY <1>7 DEF DestroyUnused, Close, Destructor, NotifyClose, Join, vars, WakeAll, Asleep, TypeOK
  <2> QED
    BY <2>1, <2>2 DEF Created, TypeOK, clientVars
<1> QED
  BY <1>1, <1>2, <1>3, <1>4, <1>5, <1>6, <1>7 DEF Next, Client

(* The steps that leave the commands where they are and every transaction  *)
(* what it was: notifications, thread creation, the tests of the workers   *)
(* and all that ends the process.                                          *)
Quiet ==
  /\ UNCHANGED <<command_list, running, promise, scheduled, workerVars>>
  /\ \A t \in Txns : Over(t)' <=> Over(t)
  /\ \A u \in Txns : worker'[u] = worker[u] \/ {worker[u], worker'[u]} \cap Busy = {}
  /\ UNCHANGED closed

(* Every step is quiet or one of the nine that move a command or a         *)
(* transaction.                                                            *)
LEMMA StepCases ==
  ASSUME TypeOK, Created, [Next]_vars
  PROVE  \/ Quiet
         \/ \E t \in Txns : Push(t) \/ (Stop(t) /\ running = t)
         \/ \E u \in Txns : Pop(u) \/ ReadStartTime(u) \/ Stamp(u) \/ Reject(u) \/ Execute(u) \/ Resolve(u)
         \/ Close
<1>1. ASSUME NEW t \in Txns, Client(t) PROVE Quiet \/ Push(t) \/ (Stop(t) /\ running = t)
  <2>1. CASE PushFaults(t)
    BY <2>1 DEF PushFaults, Quiet, Over, queueVars, clientVars
  <2>2. CASE NotifyPush(t) \/ NotifyStop(t)
    BY <2>2 DEF NotifyPush, NotifyStop, GoTo, WakeWorker, Asleep, Step, Quiet, Over, Busy, queueVars, TypeOK
  <2>3. CASE CheckThread(t) \/ AssignThread(t) \/ StoreThread(t)
    BY <2>3 DEF CheckThread, AssignThread, StoreThread, GoTo, Quiet, Over, queueVars, TypeOK
  <2>4. CASE CreateThread(t)
    BY <2>4 DEF CreateThread, Created, GoTo, Step, Quiet, Over, Busy, queueVars, TypeOK
  <2>5. CASE Stop(t) /\ running # t
    BY <2>5 DEF Stop, Quiet, Over
  <2> QED
    BY <1>1, <2>1, <2>2, <2>3, <2>4, <2>5 DEF Client
<1>2. ASSUME NEW u \in Txns, TestClosed(u) \/ Sleep(u) \/ PopNothing(u) \/ SpuriousWakeup(u)
      PROVE  Quiet
  BY <1>2 DEF TestClosed, Sleep, PopNothing, SpuriousWakeup, Step, Quiet, Over, Busy, TypeOK,
     queueVars, clientVars
<1>3. CASE DestroyUnused \/ Destructor
  BY <1>3 DEF DestroyUnused, Destructor, NotifyClose, Join, WakeAll, Asleep, Quiet, Over, Busy,
     queueVars, clientVars
<1>4. CASE UNCHANGED vars
  BY <1>4 DEF vars, Quiet, Over, workerVars
<1> QED
  BY <1>1, <1>2, <1>3, <1>4 DEF Next, Worker

(* Quiet steps preserve the inductive invariant. *)
LEMMA QuietStep == IInv /\ TypeOK' /\ Created' /\ Quiet => IInv'
<1> SUFFICES ASSUME IInv, TypeOK', Created', Quiet PROVE IInv'
  OBVIOUS
<1> USE CommandType DEF IInv, Quiet, workerVars
<1>1. Asked' /\ Waiting' /\ TimestampOrder' /\ Emptied'
  BY DEF Asked, Waiting, Held, TimestampOrder, Emptied, Contains, Distinct, Txn
<1>2. \A c \in Commands : Executing(c)' <=> Executing(c)
  BY DEF Executing, Busy
<1>3. Executed'
  BY <1>2 DEF Executed, Contains, Distinct
<1>4. Living'
  BY DEF Living, TypeOK, Txn
<1>5. Stamped'
  BY DEF Stamped, Txn, Busy
<1> QED
  BY <1>1, <1>3, <1>4, <1>5

(* An insertion adds its element and nothing else, and no duplicate of     *)
(* it.                                                                     *)
LEMMA InsertedElements ==
  ASSUME NEW new, NEW list \in Seq(Commands), NEW c, NEW p \in 1..(Len(list) + 1),
         InsertedAt(new, list, c, p)
  PROVE  /\ \A d : Contains(new, d) <=> d = c \/ Contains(list, d)
         /\ Distinct(list) /\ ~Contains(list, c) => Distinct(new)
<1>1. Len(new) = Len(list) + 1 /\ Len(list) \in Nat /\ new[p] = c
  BY DEF InsertedAt
<1>2. \A k \in 1..Len(new) : \/ k = p
                             \/ k < p /\ k \in 1..Len(list) /\ new[k] = list[k]
                             \/ k > p /\ k - 1 \in 1..Len(list) /\ new[k] = list[k - 1]
  <2> SUFFICES ASSUME NEW k \in 1..Len(new), k # p
               PROVE  \/ k < p /\ k \in 1..Len(list) /\ new[k] = list[k]
                      \/ k > p /\ k - 1 \in 1..Len(list) /\ new[k] = list[k - 1]
    OBVIOUS
  <2>1. CASE k < p
    BY <1>1, <2>1 DEF InsertedAt
  <2>2. CASE k > p
    <3>1. k - 1 \in 1..Len(list) /\ ~(k - 1 < p) /\ (k - 1) + 1 = k
      BY <1>1, <2>2
    <3> QED
      BY <2>2, <3>1 DEF InsertedAt
  <2> QED
    BY <1>1, <2>1, <2>2
<1>3. \A k \in 1..Len(list) : \E l \in 1..Len(new) : new[l] = list[k]
  <2> SUFFICES ASSUME NEW k \in 1..Len(list) PROVE \E l \in 1..Len(new) : new[l] = list[k]
    OBVIOUS
  <2>1. new[IF k < p THEN k ELSE k + 1] = list[k]
    BY DEF InsertedAt
  <2> QED
    BY <1>1, <2>1
<1>4. \A d : Contains(new, d) <=> d = c \/ Contains(list, d)
  BY <1>1, <1>2, <1>3 DEF Contains
<1>5. ASSUME Distinct(list), ~Contains(list, c) PROVE Distinct(new)
  <2> SUFFICES ASSUME NEW k \in 1..Len(new), NEW l \in 1..Len(new), new[k] = new[l], k # l
               PROVE  FALSE
    BY DEF Distinct
  <2>1. CASE k = p \/ l = p
    BY <1>1, <1>2, <1>5, <2>1 DEF Contains
  <2>2. CASE k # p /\ l # p
    BY SMTT(30), <1>1, <1>2, <1>5, <2>2 DEF Distinct
  <2> QED
    BY <2>1, <2>2
<1> QED
  BY <1>4, <1>5

(* An insertion behind the last element is an Append. *)
LEMMA InsertedLast ==
  ASSUME NEW new, NEW list \in Seq(Commands), NEW c,
         InsertedAt(new, list, c, Len(list) + 1)
  PROVE  /\ Len(new) = Len(list) + 1 /\ Len(list) \in Nat /\ new[Len(list) + 1] = c
         /\ \A k \in 1..Len(list) : new[k] = list[k]
<1>1. \A k \in 1..Len(list) : k < Len(list) + 1
  OBVIOUS
<1> QED
  BY <1>1 DEF InsertedAt

(* push() preserves the inductive invariant: a new command gets a          *)
(* promise and one place in the queue, or its answer if the queue is       *)
(* closed.                                                                 *)
LEMMA PushStep ==
  ASSUME IInv, TypeOK', Created', NEW t \in Txns, Push(t)
  PROVE  IInv'
<1> DEFINE c == <<t, scheduled[t] + 1>>
<1> USE CommandType DEF IInv, workerVars
<1>1. /\ c \in Commands /\ c[1] = t /\ promise[c] = "none" /\ c # NoCommand
      /\ scheduled[t] \in Nat /\ scheduled[t] + 1 \in 1..NumCommands[t]
  <2>1. c \in Commands
    BY PushPlace
  <2>2. scheduled[t] \in Nat /\ NumCommands[t] \in Nat /\ scheduled[t] < NumCommands[t]
    BY TxnsAssumption DEF Push, MayPush, TypeOK
  <2> QED
    BY <2>1, <2>2 DEF Asked
<1>2. /\ scheduled' = [scheduled EXCEPT ![t] = @ + 1] /\ ~Over(t) /\ ~Over(t)'
      /\ \A u \in Txns \ {t} : pc'[u] = pc[u]
      /\ UNCHANGED <<running, closed, worker, cur, start_time, next_start_time, log, outcome>>
  BY DEF Push, MayPush, GoTo, Over, TypeOK
<1>3. \A u \in Txns : Over(u)' <=> Over(u)
  BY <1>2 DEF Over
<1>4. \E v \in {"unset", "false"} : promise' = [promise EXCEPT ![c] = v]
  BY DEF Push
<1>5. \/ closed /\ promise' = [promise EXCEPT ![c] = "false"] /\ UNCHANGED command_list
      \/ /\ ~closed /\ promise' = [promise EXCEPT ![c] = "unset"]
         /\ \A d : Contains(command_list', d) <=> d = c \/ Contains(command_list, d)
         /\ Distinct(command_list) /\ ~Contains(command_list, c) => Distinct(command_list')
  <2>1. CASE closed
    BY <2>1 DEF Push
  <2>2. CASE ~closed
    <3>1. PICK p \in 1..(Len(command_list) + 1) : InsertedAt(command_list', command_list, c, p)
      BY <2>2, PushPlace
    <3>2. promise' = [promise EXCEPT ![c] = "unset"]
      BY <2>2 DEF Push
    <3>3. command_list \in Seq(Commands)
      BY DEF TypeOK
    <3> QED
      BY <2>2, <3>1, <3>2, <3>3, InsertedElements
  <2> QED
    BY <2>1, <2>2
<1>6. Asked'
  <2> SUFFICES ASSUME NEW u \in Txns
               PROVE  /\ scheduled'[u] <= NumCommands[u]
                      /\ \A i \in 1..NumCommands[u] :
                           promise'[<<u, i>>] = "none" <=> scheduled'[u] < i
    BY DEF Asked
  <2>1. promise \in [Commands -> {"none", "unset", "true", "false"}] /\ scheduled \in [Txns -> Nat]
    BY DEF TypeOK
  <2>2. CASE u = t
    BY SMTT(30), <1>1, <1>2, <1>4, <2>1, <2>2 DEF Asked
  <2>3. CASE u # t
    BY <1>1, <1>2, <1>4, <2>1, <2>3 DEF Asked
  <2> QED
    BY <2>2, <2>3
<1> HIDE DEF c
<1>7. (\A u \in Txns : cur[u] # c) /\ ~Contains(command_list, c)
  BY <1>1 DEF Waiting, Held
<1>8. Waiting'
  <2>1. \A d \in Commands : Held(d)' <=> Held(d)
    BY <1>2 DEF Held
  <2>2. \A d \in Commands : d # c => promise'[d] = promise[d]
    BY <1>1, <1>4 DEF TypeOK
  <2>3. promise'[c] = "unset" <=> ~closed
    BY <1>1, <1>5 DEF TypeOK
  <2>4. ~Held(c)
    BY <1>7 DEF Held
  <2>5. \A d \in Commands : promise'[d] = "unset" <=> Contains(command_list', d) \/ Held(d)
    BY <1>1, <1>5, <1>7, <2>2, <2>3, <2>4 DEF Waiting
  <2> QED
    BY <1>1, <1>2, <1>5, <1>7, <2>1, <2>5 DEF Waiting, TypeOK
<1>9. Executed'
  <2>1. \A d \in Commands : Executing(d)' <=> Executing(d)
    BY <1>2 DEF Executing
  <2>2. \A d \in Commands : promise'[d] = "true" <=> promise[d] = "true"
    BY <1>1, <1>4 DEF TypeOK
  <2> QED
    BY <1>2, <2>1, <2>2 DEF Executed, Contains, Distinct
<1>10. Living'
  BY <1>1, <1>2, <1>3, <1>4 DEF Living, Txn, TypeOK
<1>11. Stamped' /\ TimestampOrder'
  BY <1>2, <1>3 DEF Stamped, TimestampOrder, Txn
<1>12. Emptied'
  BY <1>2, <1>5 DEF Emptied
<1> QED
  BY <1>6, <1>8, <1>9, <1>10, <1>11, <1>12

(* stop_transaction() preserves the inductive invariant: all the           *)
(* commands of the transaction are answered by then, so none is queued     *)
(* or executes.                                                            *)
LEMMA StopStep ==
  ASSUME IInv, TypeOK', Created', NEW t \in Txns, Stop(t), running = t
  PROVE  IInv'
<1> USE CommandType DEF IInv, workerVars
<1>1. /\ running' = None /\ ~Over(t) /\ Over(t)'
      /\ \A u \in Txns \ {t} : Over(u)' <=> Over(u)
      /\ UNCHANGED <<command_list, closed, promise, worker, cur, start_time, next_start_time,
                     log, outcome, scheduled>>
  BY DEF Stop, Answered, GoTo, Over, TypeOK
<1>2. \A d \in Commands : d[1] = t => promise[d] # "unset"
  <2> SUFFICES ASSUME NEW d \in Commands, d[1] = t PROVE promise[d] # "unset"
    OBVIOUS
  <2>1. d = <<t, d[2]>> /\ d[2] \in 1..NumCommands[t] /\ NumCommands[t] \in Nat
    BY TxnsAssumption
  <2>2. scheduled[t] \in Nat
    BY DEF TypeOK
  <2>3. CASE d[2] <= scheduled[t]
    <3>1. promise[<<t, d[2]>>] \in {"true", "false"}
      BY <2>1, <2>2, <2>3 DEF Stop, Answered
    <3> QED
      BY <2>1, <3>1
  <2>4. CASE scheduled[t] < d[2]
    <3>1. promise[<<t, d[2]>>] = "none"
      BY <2>1, <2>4 DEF Asked
    <3> QED
      BY <2>1, <3>1
  <2> QED
    BY <2>1, <2>2, <2>3, <2>4
<1>3. \A u \in Txns : cur[u] = NoCommand
  <2> SUFFICES ASSUME NEW u \in Txns, cur[u] # NoCommand PROVE FALSE
    OBVIOUS
  <2>1. cur[u] \in Commands /\ Txn(cur[u]) = t /\ promise[cur[u]] = "unset"
    BY DEF Living, Waiting, Held, TypeOK
  <2> QED
    BY <1>2, <2>1 DEF Txn
<1>4. Asked' /\ Waiting' /\ TimestampOrder' /\ Emptied'
  BY <1>1 DEF Asked, Waiting, Held, TimestampOrder, Emptied, Contains, Distinct, Txn
<1>5. Executed'
  BY <1>1 DEF Executed, Executing, Contains, Distinct
<1>6. Living'
  BY <1>1, <1>2, <1>3 DEF Living, Txn
<1>7. Stamped'
  BY <1>1, <1>3 DEF Stamped, TypeOK, Busy
<1> QED
  BY <1>4, <1>5, <1>6, <1>7

(* pop() preserves the inductive invariant: the command moves from the     *)
(* queue to the worker and its transaction runs.                           *)
LEMMA PopStep ==
  ASSUME IInv, TypeOK', Created', NEW u \in Txns, Pop(u)
  PROVE  IInv'
<1> USE CommandType DEF IInv
<1> DEFINE c == Head(command_list)
<1>1. /\ command_list # <<>> /\ cur' = [cur EXCEPT ![u] = c] /\ command_list' = Tail(command_list)
      /\ cur[u] = NoCommand /\ worker' = [worker EXCEPT ![u] = "begin"] /\ worker[u] = "pop"
      /\ running' = IF running = None THEN Txn(c) ELSE running
      /\ UNCHANGED <<closed, promise, start_time, next_start_time, log, outcome, scheduled, pc>>
  BY DEF Pop, Step, TypeOK, Busy, clientVars
<1>2. /\ c = command_list[1] /\ c \in Commands
      /\ Len(command_list') = Len(command_list) - 1 /\ Len(command_list) \in Nat \ {0}
      /\ \A k \in 1..Len(command_list') : command_list'[k] = command_list[k + 1]
  BY <1>1, HeadTailProperties, EmptySeq DEF TypeOK
<1>3. ~closed
  BY <1>1 DEF Emptied
<1>4. running' = Txn(c) /\ (running = None \/ running' = running)
  BY <1>1, <1>3 DEF Pop, MayPop
<1> HIDE DEF c
<1>5. Contains(command_list, c) /\ promise[c] = "unset"
  BY <1>2 DEF Contains, Waiting
<1>6. /\ \A d : Contains(command_list, d) <=> d = c \/ Contains(command_list', d)
      /\ ~Contains(command_list', c) /\ Distinct(command_list')
  <2>1. \A d : Contains(command_list', d) => Contains(command_list, d)
    BY <1>2 DEF Contains
  <2>2. \A k \in 1..Len(command_list) :
          k = 1 \/ \E l \in 1..Len(command_list') : command_list'[l] = command_list[k]
    <3> SUFFICES ASSUME NEW k \in 1..Len(command_list), k # 1
                 PROVE  \E l \in 1..Len(command_list') : command_list'[l] = command_list[k]
      OBVIOUS
    <3>1. k - 1 \in 1..Len(command_list') /\ (k - 1) + 1 = k
      BY <1>2
    <3> QED
      BY <1>2, <3>1
  <2>3. \A d : Contains(command_list, d) => d = c \/ Contains(command_list', d)
    BY <1>2, <2>2 DEF Contains
  <2>4. ~Contains(command_list', c)
    BY <1>2 DEF Waiting, Distinct, Contains
  <2>5. Distinct(command_list')
    BY <1>2 DEF Waiting, Distinct
  <2> QED
    BY <1>5, <2>1, <2>3, <2>4, <2>5
<1>7. Asked' /\ TimestampOrder' /\ Emptied'
  BY <1>1, <1>3 DEF Asked, TimestampOrder, Emptied, Txn
<1>8. /\ cur'[u] = c /\ \A v \in Txns \ {u} : cur'[v] = cur[v] /\ cur[v] # c /\ worker'[v] = worker[v]
      /\ worker'[u] = "begin"
  <2>1. \A v \in Txns : cur[v] # c
    BY <1>5 DEF Waiting
  <2> QED
    BY <1>1, <2>1 DEF TypeOK
<1>9. Waiting'
  <2>1. \A d \in Commands : Held(d)' <=> d = c \/ Held(d)
    BY <1>1, <1>8 DEF Held
  <2>2. \A d \in Commands : promise'[d] = "unset" <=> Contains(command_list', d) \/ Held(d)'
    BY <1>1, <1>6, <2>1 DEF Waiting
  <2>3. \A v \in Txns : ~Contains(command_list', cur'[v])
    BY <1>6, <1>8 DEF Waiting
  <2>4. \A v, w \in Txns : cur'[v] = cur'[w] /\ cur'[v] # NoCommand => v = w
    BY <1>8 DEF Waiting
  <2> QED
    BY <1>6, <2>2, <2>3, <2>4 DEF Waiting
<1>10. Executed'
  <2>1. \A d \in Commands : Executing(d)' <=> Executing(d)
    BY <1>1, <1>8 DEF Executing
  <2> QED
    BY <1>1, <2>1 DEF Executed, Contains, Distinct
<1>11. Living'
  <2>1. \A v \in Txns : cur'[v] # NoCommand => running' = Txn(cur'[v])
    <3> SUFFICES ASSUME NEW v \in Txns, cur'[v] # NoCommand PROVE running' = Txn(cur'[v])
      OBVIOUS
    <3>1. CASE v = u
      BY <1>4, <1>8, <3>1
    <3>2. CASE v # u
      <4>1. cur'[v] = cur[v] /\ cur[v] \in Commands
        BY <1>8, <3>2 DEF TypeOK
      <4>2. running = Txn(cur[v]) /\ running # None
        BY <4>1, TxnsAssumption DEF Living, Txn
      <4> QED
        BY <1>4, <4>1, <4>2
    <3> QED
      BY <3>1, <3>2
  <2>2. ~Over(Txn(c))
    BY <1>2, <1>5 DEF Living
  <2> QED
    BY <1>1, <1>4, <2>1, <2>2 DEF Living, Txn, Over
<1>12. Stamped'
  <2>1. ~Over(Txn(c)) /\ Txn(c) \in Txns
    BY <1>2, <1>5 DEF Living, Txn
  <2>2. \A v \in Txns : worker'[v] \in {"execute", "resolve"} => start_time'[Txn(cur'[v])] # -1
    BY <1>1, <1>8 DEF Stamped
  <2>3. CASE running = None
    <3>1. start_time[Txn(c)] = -1
      BY <2>1, <2>3, TxnsAssumption DEF Stamped
    <3> QED
      BY <1>1, <1>4, <2>2, <2>3, <3>1, TxnsAssumption DEF Stamped, Over
  <2>4. CASE running # None
    BY <1>1, <1>4, <2>2, <2>4 DEF Stamped, Over
  <2> QED
    BY <2>3, <2>4
<1> QED
  BY <1>7, <1>9, <1>10, <1>11, <1>12

(* The test of the start time preserves the inductive invariant: a worker  *)
(* goes on to execute only if its transaction has one.                     *)
LEMMA ReadStep ==
  ASSUME IInv, TypeOK', Created', NEW u \in Txns, ReadStartTime(u)
  PROVE  IInv'
<1> USE CommandType DEF IInv
<1>1. /\ worker[u] = "begin"
      /\ \/ worker' = [worker EXCEPT ![u] = "stamp"]
         \/ worker' = [worker EXCEPT ![u] = "execute"] /\ start_time[Txn(cur[u])] # -1
      /\ UNCHANGED <<command_list, running, closed, promise, cur, start_time, next_start_time,
                     log, outcome, scheduled, pc>>
  BY DEF ReadStartTime, Step, queueVars, workerVars, clientVars
<1>2. Asked' /\ Waiting' /\ TimestampOrder' /\ Emptied' /\ Living'
  BY <1>1 DEF Asked, Waiting, Held, TimestampOrder, Emptied, Living, Over, Contains, Distinct, Txn
<1>3. \A c \in Commands : Executing(c)' <=> Executing(c)
  BY <1>1 DEF Executing, TypeOK
<1>4. Executed'
  BY <1>1, <1>3 DEF Executed, Contains, Distinct
<1>5. Stamped'
  BY <1>1 DEF Stamped, Over, Txn, TypeOK
<1> QED
  BY <1>2, <1>4, <1>5

(* Giving out a start time preserves the inductive invariant: it is        *)
(* later than all start times before it, even if the transaction had one.  *)
LEMMA StampStep ==
  ASSUME IInv, TypeOK', Created', NEW u \in Txns, Stamp(u)
  PROVE  IInv'
<1> USE CommandType DEF IInv
<1> DEFINE t == Txn(cur[u])
<1>1. /\ worker[u] = "stamp" /\ worker' \in {worker, [worker EXCEPT ![u] = "execute"]}
      /\ cur[u] \in Commands /\ t \in Txns /\ running = t
      /\ UNCHANGED <<command_list, running, closed, promise, cur, log, outcome, scheduled, pc>>
  BY DEF Stamp, Step, Txn, Living, TypeOK, Busy, queueVars, clientVars
<1>2. /\ next_start_time' = next_start_time + 1
      /\ \/ start_time' = [start_time EXCEPT ![t] = next_start_time]
         \/ UNCHANGED start_time /\ (worker' = worker \/ start_time[t] # -1)
  BY DEF Stamp, NextStartTime
<1>3. Asked' /\ Waiting' /\ Emptied' /\ Living'
  BY <1>1 DEF Asked, Waiting, Held, Emptied, Living, Over, Contains, Distinct, Txn
<1>4. Executed'
  <2>1. \A c \in Commands : Executing(c)' <=> Executing(c)
    BY <1>1 DEF Executing, TypeOK
  <2> QED
    BY <1>1, <2>1 DEF Executed, Contains, Distinct
<1>5. start_time \in [Txns -> Nat \cup {-1}] /\ next_start_time \in Nat
  BY DEF TypeOK
<1>6. CASE UNCHANGED start_time /\ (worker' = worker \/ start_time[t] # -1)
  <2>1. \A v \in Txns : start_time[v] < next_start_time'
    BY <1>2, <1>5 DEF Stamped
  <2>2. \A v \in Txns : worker'[v] \in {"execute", "resolve"} => start_time[Txn(cur[v])] # -1
    <3> SUFFICES ASSUME NEW v \in Txns, worker'[v] \in {"execute", "resolve"}, worker' # worker
                 PROVE  start_time[Txn(cur[v])] # -1
      BY DEF Stamped
    <3>1. start_time[t] # -1
      BY <1>6
    <3>2. v = u \/ worker'[v] = worker[v]
      BY <1>1 DEF TypeOK
    <3> QED
      BY <3>1, <3>2 DEF Stamped
  <2> QED
    BY <1>1, <1>3, <1>4, <1>6, <2>1, <2>2 DEF Stamped, TimestampOrder, Over, Txn
<1>7. CASE start_time' = [start_time EXCEPT ![t] = next_start_time]
  <2> HIDE DEF t
  <2>1. \A v \in Txns : cur[v] # NoCommand => Txn(cur[v]) = t
    BY <1>1 DEF Living
  <2>2. \A v \in Txns : Over(v)' <=> Over(v)
    BY <1>1 DEF Over
  <2>3. start_time'[t] # -1 /\ start_time'[t] < next_start_time'
    BY <1>1, <1>2, <1>5, <1>7
  <2>4. \A v \in Txns \ {t} : start_time'[v] = start_time[v] /\ start_time'[v] < start_time'[t]
                              /\ start_time'[v] < next_start_time'
    BY <1>1, <1>2, <1>5, <1>7 DEF Stamped
  <2>5. Stamped'
    <3>1. \A v \in Txns : worker'[v] \in {"execute", "resolve"} => start_time'[Txn(cur'[v])] # -1
      BY <1>1, <2>1, <2>3 DEF TypeOK, Busy
    <3> QED
      BY <1>1, <2>2, <2>3, <2>4, <3>1 DEF Stamped
  <2>6. TimestampOrder'
    <3> SUFFICES ASSUME NEW k \in 1..Len(log), NEW l \in 1..Len(log)
                 PROVE  /\ start_time'[Txn(log[k])] # -1
                        /\ k < l /\ Txn(log[k]) # Txn(log[l]) =>
                             start_time'[Txn(log[k])] < start_time'[Txn(log[l])]
      BY <1>1 DEF TimestampOrder, Txn
    <3>1. Txn(log[k]) \in Txns /\ Txn(log[l]) \in Txns
      BY ElementOfSeq DEF TypeOK, Txn
    <3>2. start_time'[Txn(log[k])] # -1
      BY <2>3, <2>4, <3>1 DEF TimestampOrder
    <3>3. ASSUME k < l, Txn(log[k]) # Txn(log[l])
          PROVE  start_time'[Txn(log[k])] < start_time'[Txn(log[l])]
      <4>1. start_time[Txn(log[k])] < start_time[Txn(log[l])] /\ start_time[Txn(log[k])] # -1
        BY <3>3 DEF TimestampOrder
      <4>2. Txn(log[k]) # t
        <5> SUFFICES ASSUME Txn(log[k]) = t PROVE FALSE
          OBVIOUS
        <5>1. start_time[t] # -1 /\ running = t /\ running # None
          BY <1>1, <4>1, TxnsAssumption
        <5>2. start_time[Txn(log[l])] < start_time[t]
          BY <3>1, <3>3, <5>1 DEF Stamped
        <5>3. start_time[t] \in Int /\ start_time[Txn(log[l])] \in Int
          BY <1>1, <1>5, <3>1
        <5> QED
          BY <4>1, <5>2, <5>3
      <4> QED
        BY <2>4, <3>1, <4>1, <4>2
    <3> QED
      BY <3>2, <3>3
  <2> QED
    BY <1>3, <1>4, <2>5, <2>6
<1> QED
  BY <1>2, <1>6, <1>7

(* A command that Sema rejects preserves the inductive invariant. *)
LEMMA RejectStep ==
  ASSUME IInv, TypeOK', Created', NEW u \in Txns, Reject(u)
  PROVE  IInv'
<1> USE CommandType DEF IInv
<1>1. /\ worker[u] = "execute" /\ worker' = [worker EXCEPT ![u] = "resolve"] /\ cur[u] \in Commands
      /\ outcome' = [outcome EXCEPT ![cur[u]] = "rejected"]
      /\ UNCHANGED <<command_list, running, closed, promise, cur, start_time, next_start_time,
                     log, scheduled, pc>>
  BY DEF Reject, Step, TypeOK, Busy, queueVars, clientVars
<1>2. Asked' /\ Waiting' /\ Emptied' /\ TimestampOrder' /\ Living'
  BY <1>1 DEF Asked, Waiting, Held, Emptied, TimestampOrder, Living, Over, Contains, Distinct, Txn
<1>3. Stamped'
  BY <1>1 DEF Stamped, Over, Txn, TypeOK
<1>4. Executed'
  <2>1. \A c \in Commands : Executing(c)' <=> Executing(c)
    <3> SUFFICES ASSUME NEW c \in Commands PROVE Executing(c)' <=> Executing(c)
      OBVIOUS
    <3>1. CASE c = cur[u]
      <4>1. \A v \in Txns : cur[v] = c => v = u
        BY <1>1, <3>1 DEF Waiting
      <4>2. outcome'[c] = "rejected" /\ worker[u] # "resolve"
        BY <1>1, <3>1 DEF TypeOK
      <4> QED
        BY <4>1, <4>2 DEF Executing
    <3>2. CASE c # cur[u]
      BY <1>1, <3>2 DEF Executing, TypeOK
    <3> QED
      BY <3>1, <3>2
  <2> QED
    BY <1>1, <2>1 DEF Executed, Contains, Distinct
<1> QED
  BY <1>2, <1>3, <1>4

(* An execution preserves the inductive invariant: the command is new in   *)
(* the history, and its transaction has the latest start time.             *)
LEMMA ExecuteStep ==
  ASSUME IInv, TypeOK', Created', NEW u \in Txns, Execute(u)
  PROVE  IInv'
<1> USE CommandType DEF IInv
<1> DEFINE c == cur[u]
<1>1. /\ worker[u] = "execute" /\ worker' = [worker EXCEPT ![u] = "resolve"] /\ c \in Commands
      /\ log' = Append(log, c)
      /\ \E o \in {"ok", "throw"} : outcome' = [outcome EXCEPT ![c] = o]
      /\ UNCHANGED <<command_list, running, closed, promise, cur, start_time, next_start_time,
                     scheduled, pc>>
  <2>1. /\ worker[u] = "execute" /\ worker' = [worker EXCEPT ![u] = "resolve"]
        /\ log' = Append(log, c)
        /\ UNCHANGED <<command_list, running, closed, promise, cur, start_time, next_start_time,
                       scheduled, pc>>
    BY DEF Execute, Step, queueVars, clientVars
  <2>2. \E o \in {"ok", "throw"} : outcome' = [outcome EXCEPT ![c] = o]
    BY OutcomesAssumption DEF Execute
  <2>3. c \in Commands
    BY <2>1 DEF TypeOK, Busy
  <2> QED
    BY <2>1, <2>2, <2>3
<1>2. /\ Len(log') = Len(log) + 1 /\ Len(log) \in Nat /\ log'[Len(log) + 1] = c
      /\ \A k \in 1..Len(log) : log'[k] = log[k]
  BY <1>1 DEF TypeOK
<1>3. ~Contains(log, c) /\ \A d : Contains(log', d) <=> d = c \/ Contains(log, d)
  <2>1. promise[c] = "unset" /\ ~Executing(c)
    BY <1>1 DEF Waiting, Held, Executing
  <2>2. ~Contains(log, c)
    BY <1>1, <2>1 DEF Executed
  <2> QED
    BY <1>2, <2>2 DEF Contains
<1>4. Asked' /\ Waiting' /\ Emptied' /\ Living'
  BY <1>1 DEF Asked, Waiting, Held, Emptied, Living, Over, Contains, Distinct, Txn
<1>5. Stamped'
  BY <1>1 DEF Stamped, Over, Txn, TypeOK
<1>6. Executed'
  <2>1. Distinct(log')
    BY <1>2, <1>3 DEF Executed, Distinct, Contains
  <2>2. outcome'[c] # "rejected" /\ \A d \in Commands : d # c => outcome'[d] = outcome[d]
    BY <1>1 DEF TypeOK
  <2>3. \A d \in Commands : Executing(d)' <=> d = c \/ Executing(d)
    BY <1>1, <2>2 DEF Executing, Waiting, TypeOK
  <2> QED
    BY <1>1, <1>3, <2>1, <2>3 DEF Executed
<1>7. TimestampOrder'
  <2>1. /\ Txn(c) = running /\ Txn(c) \in Txns /\ start_time[Txn(c)] # -1
        /\ running # None
    BY <1>1, TxnsAssumption DEF Living, Stamped, Txn
  <2>2. \A k \in 1..Len(log) : Txn(log[k]) \in Txns
    BY ElementOfSeq DEF TypeOK, Txn
  <2>3. \A k \in 1..Len(log) :
          Txn(log[k]) # Txn(c) => start_time[Txn(log[k])] < start_time[Txn(c)]
    BY <2>1, <2>2 DEF Stamped
  <2>4. SUFFICES ASSUME NEW k \in 1..Len(log'), NEW l \in 1..Len(log')
                 PROVE  /\ start_time[Txn(log'[k])] # -1
                        /\ k < l /\ Txn(log'[k]) # Txn(log'[l]) =>
                             start_time[Txn(log'[k])] < start_time[Txn(log'[l])]
    BY <1>1 DEF TimestampOrder, Txn
  <2>5. k \in 1..Len(log) \/ k = Len(log) + 1
    BY <1>2
  <2>6. l \in 1..Len(log) \/ l = Len(log) + 1
    BY <1>2
  <2> HIDE DEF c
  <2> QED
    BY <1>2, <2>1, <2>3, <2>5, <2>6 DEF TimestampOrder
<1> QED
  BY <1>4, <1>5, <1>6, <1>7

(* Answering the popped command preserves the inductive invariant. *)
LEMMA ResolveStep ==
  ASSUME IInv, TypeOK', Created', NEW u \in Txns, Resolve(u)
  PROVE  IInv'
<1> USE CommandType DEF IInv
<1> DEFINE c == cur[u]
<1>1. /\ worker[u] = "resolve" /\ worker' = [worker EXCEPT ![u] = "test"] /\ c \in Commands
      /\ cur' = [cur EXCEPT ![u] = NoCommand]
      /\ promise' = [promise EXCEPT ![c] = Answer(u)]
      /\ UNCHANGED <<command_list, running, closed, start_time, next_start_time,
                     log, outcome, scheduled, pc>>
  BY DEF Resolve, Step, TypeOK, Busy, queueVars, clientVars
<1>2. /\ Answer(u) = IF outcome[c] = "rejected" THEN "false" ELSE "true"
      /\ promise[c] = "unset" /\ ~Contains(command_list, c)
  BY <1>1 DEF Answer, Waiting, Held
<1>3. ~Contains(command_list, NoCommand)
  <2>1. \A k \in 1..Len(command_list) : command_list[k] \in Commands
    BY ElementOfSeq DEF TypeOK
  <2> QED
    BY <2>1 DEF Contains
<1>4. /\ cur'[u] = NoCommand /\ worker'[u] = "test"
      /\ \A v \in Txns \ {u} : cur'[v] = cur[v] /\ cur[v] # c /\ worker'[v] = worker[v]
  <2>1. \A v \in Txns \ {u} : cur[v] # c
    BY <1>1 DEF Waiting
  <2> QED
    BY <1>1, <2>1 DEF TypeOK
<1>5. /\ promise'[c] = Answer(u) /\ \A d \in Commands : d # c => promise'[d] = promise[d]
  BY <1>1 DEF TypeOK
<1> HIDE DEF c
<1>6. Asked'
  BY <1>1, <1>2, <1>5 DEF Asked
<1>7. Waiting'
  <2>1. \A d \in Commands : Held(d)' <=> d # c /\ Held(d)
    <3>1. cur[u] = c
      BY DEF c
    <3> QED
      BY <1>1, <1>4, <3>1 DEF Held
  <2>2. \A d \in Commands : promise'[d] = "unset" <=> Contains(command_list, d) \/ Held(d)'
    BY <1>2, <1>5, <2>1 DEF Waiting
  <2>3. \A v \in Txns : ~Contains(command_list, cur'[v])
    BY <1>3, <1>4 DEF Waiting
  <2>4. \A v, w \in Txns : cur'[v] = cur'[w] /\ cur'[v] # NoCommand => v = w
    BY <1>4 DEF Waiting
  <2> QED
    BY <1>1, <2>2, <2>3, <2>4 DEF Waiting, Contains, Distinct
<1>8. Executed'
  <2>1. \A d \in Commands : d # c => (Executing(d)' <=> Executing(d))
    <3>1. cur[u] = c
      BY DEF c
    <3> QED
      BY <1>1, <1>4, <3>1 DEF Executing
  <2>2. \A d \in Commands : d = c => ~Executing(d)'
    BY <1>1, <1>4 DEF Executing
  <2>3. Executing(c) <=> outcome[c] # "rejected"
    <3>1. cur[u] = c
      BY DEF c
    <3> QED
      BY <1>1, <1>4, <3>1 DEF Executing
  <2>4. Contains(log, c) <=> promise'[c] = "true"
    BY <1>1, <1>2, <1>5, <2>3 DEF Executed
  <2>5. \A d \in Commands : Contains(log, d) <=> promise'[d] = "true" \/ Executing(d)'
    BY <1>5, <2>1, <2>2, <2>4 DEF Executed
  <2> QED
    BY <1>1, <2>5 DEF Executed, Contains, Distinct
<1>9. Living'
  <2>1. \A d \in Commands : promise'[d] = "unset" => promise[d] = "unset"
    BY <1>2, <1>5
  <2> QED
    BY <1>1, <1>4, <2>1 DEF Living, Over, Txn
<1>10. Stamped'
  BY <1>1, <1>4 DEF Stamped, Over, Txn
<1>11. TimestampOrder' /\ Emptied'
  BY <1>1 DEF TimestampOrder, Emptied, Txn
<1> QED
  BY <1>6, <1>7, <1>8, <1>9, <1>10, <1>11

(* close() preserves the inductive invariant: all queued commands are      *)
(* answered and leave the queue together.                                  *)
LEMMA CloseStep ==
  ASSUME IInv, TypeOK', Created', Close
  PROVE  IInv'
<1> USE CommandType DEF IInv
<1>1. /\ closed' /\ command_list' = <<>>
      /\ promise' = [c \in Commands |-> IF Contains(command_list, c) THEN "false" ELSE promise[c]]
      /\ UNCHANGED <<running, worker, cur, start_time, next_start_time, log, outcome, scheduled, pc>>
  BY DEF Close, AnswerQueued, workerVars, clientVars
<1>2. \A u \in Txns : ~Contains(command_list, cur[u])
  BY DEF Waiting
<1>3. \A c : ~Contains(command_list', c)
  BY <1>1 DEF Contains
<1>4. \A c \in Commands : (Held(c)' <=> Held(c)) /\ (Executing(c)' <=> Executing(c))
  BY <1>1 DEF Held, Executing
<1>5. \A c \in Commands : Held(c) => ~Contains(command_list, c)
  BY <1>2 DEF Held
<1>6. Asked'
  BY <1>1 DEF Asked, Waiting
<1>7. Waiting'
  BY <1>1, <1>2, <1>3, <1>4, <1>5 DEF Waiting, Distinct
<1>8. Executed'
  <2>1. \A c \in Commands : Contains(command_list, c) => promise[c] = "unset"
    BY DEF Waiting
  <2> QED
    BY <1>1, <1>4, <2>1 DEF Executed, Contains, Distinct
<1>9. Living'
  BY <1>1 DEF Living, Over, Txn
<1>10. Stamped' /\ TimestampOrder' /\ Emptied'
  BY <1>1 DEF Stamped, TimestampOrder, Emptied, Over, Txn
<1> QED
  BY <1>6, <1>7, <1>8, <1>9, <1>10

(* IInv holds in every reachable state. *)
THEOREM Invariance == Spec => []IInv
<1>1. IInv /\ [Next]_vars => IInv'
  <2> SUFFICES ASSUME IInv, [Next]_vars PROVE IInv'
    OBVIOUS
  <2>1. TypeOK' /\ Created'
    BY TypeInductive, CreatedStep DEF IInv
  <2> QED
    BY <2>1, StepCases, QuietStep, PushStep, StopStep, PopStep, ReadStep, StampStep, RejectStep,
       ExecuteStep, ResolveStep, CloseStep DEF IInv
<1> QED
  BY <1>1, InitIInv, PTL DEF Spec

(* Type correctness of every reachable state. *)
THEOREM TypeCorrect == Spec => []TypeOK
BY Invariance, PTL DEF IInv

(* A future waits exactly as long as its command is queued or executing,   *)
(* and no command is queued or executed twice, by however many workers.    *)
THEOREM PromisesExact == Spec => []PromiseExact
<1>1. IInv => PromiseExact
  <2> SUFFICES ASSUME IInv, NEW c \in Commands
               PROVE  LET places  == {k \in 1..Len(command_list) : command_list[k] = c}
                          holders == {u \in Txns : cur[u] = c}
                      IN
                      /\ promise[c] = "unset" <=> places \cup holders # {}
                      /\ \A k, l \in places : k = l
                      /\ \A u, v \in holders : u = v
                      /\ holders # {} => places = {}
                      /\ \A k, l \in 1..Len(log) : log[k] = c /\ log[l] = c => k = l
    BY DEF PromiseExact
  <2>1. c # NoCommand
    BY CommandType
  <2>2. promise[c] = "unset" <=> Contains(command_list, c) \/ Held(c)
    BY DEF IInv, Waiting
  <2>3. \A u \in Txns : cur[u] = c => ~Contains(command_list, c)
    BY DEF IInv, Waiting
  <2>4. \A u, v \in Txns : cur[u] = c /\ cur[v] = c => u = v
    BY <2>1 DEF IInv, Waiting
  <2> QED
    BY <2>2, <2>3, <2>4 DEF IInv, Waiting, Executed, Distinct, Contains, Held
<1> QED
  BY <1>1, Invariance, PTL

(* The queue and the workers refer to no transaction that is over. *)
THEOREM ReferencesAlive == Spec => []TransactionsAlive
<1>1. IInv => TransactionsAlive
  <2> SUFFICES ASSUME IInv PROVE TransactionsAlive
    OBVIOUS
  <2>1. \A k \in 1..Len(command_list) : command_list[k] \in Commands /\ ~Over(Txn(command_list[k]))
    <3> SUFFICES ASSUME NEW k \in 1..Len(command_list)
                 PROVE  command_list[k] \in Commands /\ ~Over(Txn(command_list[k]))
      OBVIOUS
    <3>1. command_list[k] \in Commands
      BY ElementOfSeq DEF IInv, TypeOK
    <3>2. promise[command_list[k]] = "unset"
      BY <3>1 DEF IInv, Waiting, Contains
    <3> QED
      BY <3>1, <3>2 DEF IInv, Living
  <2> QED
    BY <2>1 DEF IInv, Living, Over, TransactionsAlive
<1> QED
  BY <1>1, Invariance, PTL

(* Start times follow the order in which transactions execute. *)
THEOREM StartTimesOrdered == Spec => []TimestampOrder
BY Invariance, PTL DEF IInv

(* An answer is final, and it tells whether the command executed. *)
THEOREM AnswersStay == Spec => AnswersFinal
<1> DEFINE Final(c) ==
      /\ promise[c] \in {"true", "false"} => promise'[c] = promise[c]
      /\ promise'[c] = "true" => Contains(log', c)
      /\ promise'[c] = "false" => ~Contains(log', c)
<1>1. ASSUME IInv, IInv', [Next]_vars, NEW c \in Commands PROVE Final(c)
  <2>0. Executing(c)' => Held(c)'
    BY DEF Executing, Held
  <2>1. /\ promise'[c] = "true" => Contains(log', c)
        /\ promise'[c] = "false" => ~Contains(log', c)
    BY <1>1, <2>0 DEF IInv, Executed, Waiting
  <2>2. SUFFICES ASSUME promise[c] \in {"true", "false"} PROVE promise'[c] = promise[c]
    BY <2>1
  <2>3. CASE Quiet \/ \E u \in Txns : Pop(u) \/ ReadStartTime(u) \/ Stamp(u) \/ Reject(u) \/ Execute(u) \/ Stop(u)
    BY <2>3 DEF Quiet, Pop, ReadStartTime, Stamp, Reject, Execute, Stop
  <2>4. ASSUME NEW t \in Txns, Push(t) PROVE promise'[c] = promise[c]
    <3> DEFINE d == <<t, scheduled[t] + 1>>
    <3>1. d \in Commands /\ scheduled[t] \in Nat /\ scheduled[t] + 1 \in 1..NumCommands[t]
      BY <1>1, <2>4, PushPlace, CommandType DEF IInv, TypeOK
    <3>2. promise[d] = "none"
      BY <1>1, <3>1 DEF IInv, Asked
    <3>3. \E v \in {"unset", "false"} : promise' = [promise EXCEPT ![d] = v]
      BY <2>4 DEF Push
    <3> HIDE DEF d
    <3> QED
      BY <1>1, <2>2, <3>1, <3>2, <3>3 DEF IInv, TypeOK
  <2>5. ASSUME NEW u \in Txns, Resolve(u) PROVE promise'[c] = promise[c]
    <3>1. cur[u] \in Commands /\ promise[cur[u]] = "unset"
      BY <1>1, <2>5 DEF Resolve, IInv, Waiting, Held, TypeOK, Busy
    <3> QED
      BY <1>1, <2>2, <2>5, <3>1 DEF Resolve, IInv, TypeOK
  <2>6. CASE Close
    BY <1>1, <2>2, <2>6 DEF Close, AnswerQueued, IInv, Waiting
  <2> QED
    BY <1>1, <2>3, <2>4, <2>5, <2>6, StepCases DEF IInv
<1>2. IInv /\ IInv' /\ [Next]_vars => [\A c \in Commands : Final(c)]_vars
  BY <1>1
<1> QED
  BY <1>2, Invariance, PTL DEF AnswersFinal, Spec

(* Once the queue is closed, no worker gets a further command. *)
THEOREM ClosedIsFinal == Spec => NothingPoppedAfterClose
<1> DEFINE Nothing == closed => \A u \in Txns : cur'[u] \in {cur[u], NoCommand}
<1>1. ASSUME IInv, [Next]_vars, closed, NEW u \in Txns PROVE cur'[u] \in {cur[u], NoCommand}
  <2>1. ASSUME NEW v \in Txns, Pop(v) PROVE FALSE
    BY <1>1, <2>1 DEF Pop, IInv, Emptied
  <2>2. ASSUME NEW v \in Txns, Resolve(v) PROVE cur'[u] \in {cur[u], NoCommand}
    BY <1>1, <2>2 DEF Resolve, IInv, TypeOK
  <2>3. CASE \/ Quiet \/ Close
             \/ \E v \in Txns : ReadStartTime(v) \/ Stamp(v) \/ Reject(v) \/ Execute(v) \/ Push(v) \/ Stop(v)
    BY <2>3 DEF Quiet, ReadStartTime, Stamp, Reject, Execute, Close, Push, Stop, workerVars
  <2> QED
    BY <1>1, <2>1, <2>2, <2>3, StepCases DEF IInv
<1>2. IInv /\ [Next]_vars => [Nothing]_vars
  BY <1>1
<1> QED
  BY <1>2, Invariance, PTL DEF NothingPoppedAfterClose, Spec

-----------------------------------------------------------------------------
(* What the process dies of.  A transaction with an answer is the running  *)
(* one until its client ends it, unless the queue was closed; and with one *)
(* worker no client finds one in place where it has seen none.             *)

Owned ==
  ~closed => \A c \in Commands : promise[c] \in {"true", "false"} =>
                                   Over(Txn(c)) \/ running = Txn(c)

SurviveInv ==
  /\ closed => dtor # "alive"
  /\ Owned
  /\ fault = "insist" => dtor # "alive"
  /\ fault = "terminate" => Several \/ \E c \in Commands : outcome[c] = "throw"
  /\ fault = "start_time" => Several
  /\ Several \/ \A u \in Txns : worker[u] = "stamp" => start_time[Txn(cur[u])] = -1
  /\ dtor \in {"notify", "join"} => handle # None
  /\ dtor = "destroyed" => NobodyInside
  /\ dtor = "destroyed" => Several \/ \A u \in Txns : worker[u] \in {"none", "exited"}

(* SurviveInv holds before the first client comes. *)
LEMMA InitSurvive == Init => SurviveInv
<1> SUFFICES ASSUME Init PROVE SurviveInv
  OBVIOUS
<1>1. Owned
  BY DEF Init, Owned
<1> QED
  BY <1>1 DEF Init, SurviveInv

(* A client's stop_transaction() finds its own transaction running while   *)
(* the queue is open.                                                      *)
LEMMA StopOwned ==
  ASSUME TypeOK, Asked, Owned, ~closed, NEW t \in Txns, Answered(t)
  PROVE  running = t
<1> DEFINE c == <<t, 1>>
<1>1. c \in Commands /\ Txn(c) = t /\ promise[c] \in {"true", "false"}
  <2>1. 1 \in 1..NumCommands[t] /\ 1 \in 1..scheduled[t]
    BY TxnsAssumption DEF Answered, TypeOK
  <2> QED
    BY <2>1, CommandType DEF Answered, Txn
<1>2. ~Over(t)
  BY DEF Answered, Over
<1> QED
  BY <1>1, <1>2 DEF Owned

(* The promises and the running transaction change together.               *)
LEMMA OwnedStep ==
  ASSUME IInv, TypeOK', Owned, [Next]_vars
  PROVE  Owned'
<1> USE CommandType DEF IInv
<1>1. CASE Quiet
  BY <1>1 DEF Quiet, Owned, Txn
<1>2. ASSUME NEW t \in Txns, Push(t) PROVE Owned'
  <2>1. <<t, scheduled[t] + 1>> \in Commands
    BY <1>2, PushPlace
  <2>2. /\ closed' = closed /\ running' = running /\ \A u \in Txns : Over(u)' <=> Over(u)
        /\ ~closed => promise' = [promise EXCEPT ![<<t, scheduled[t] + 1>>] = "unset"]
    BY <1>2 DEF Push, MayPush, GoTo, Over, TypeOK
  <2> QED
    BY <2>1, <2>2 DEF Owned, TypeOK, Txn
<1>3. ASSUME NEW t \in Txns, Stop(t), running = t PROVE Owned'
  <2>1. closed' = closed /\ promise' = promise /\ \A u \in Txns : Over(u)' <=> Over(u) \/ u = t
    BY <1>3 DEF Stop, GoTo, Over, TypeOK
  <2> QED
    BY <1>3, <2>1 DEF Owned, Txn
<1>4. ASSUME NEW u \in Txns, Pop(u) PROVE Owned'
  <2>1. /\ closed' = closed /\ promise' = promise /\ \A t \in Txns : Over(t)' <=> Over(t)
        /\ running # None => running' = running
    BY <1>4 DEF Pop, clientVars, Over
  <2> QED
    BY <2>1, TxnsAssumption DEF Owned, Txn
<1>5. ASSUME NEW u \in Txns, ReadStartTime(u) \/ Stamp(u) \/ Reject(u) \/ Execute(u) PROVE Owned'
  BY <1>5 DEF ReadStartTime, Stamp, Reject, Execute, queueVars, clientVars, Owned, Over, Txn
<1>6. ASSUME NEW u \in Txns, Resolve(u) PROVE Owned'
  <2>1. cur[u] \in Commands /\ running = Txn(cur[u])
    BY <1>6 DEF Resolve, Living, TypeOK, Busy
  <2>2. \A d \in Commands : d # cur[u] => promise'[d] = promise[d]
    BY <1>6, <2>1 DEF Resolve, TypeOK
  <2> QED
    BY <1>6, <2>1, <2>2 DEF Resolve, queueVars, clientVars, Owned, Over, Txn
<1>7. CASE Close
  BY <1>7 DEF Close, Owned
<1> QED
  BY <1>1, <1>2, <1>3, <1>4, <1>5, <1>6, <1>7, StepCases

(* A worker that has been started stays so. *)
LEMMA WorkersStay ==
  ASSUME TypeOK, Created, [Next]_vars
  PROVE  /\ \A u \in Txns : worker[u] # "none" => worker'[u] # "none"
         /\ Several => Several'
<1>1. ASSUME NEW t \in Txns, Client(t), NEW u \in Txns, worker[u] # "none" PROVE worker'[u] # "none"
  BY <1>1 DEF Client, Push, PushFaults, NotifyPush, CheckThread, CreateThread, AssignThread,
     StoreThread, Stop, NotifyStop, WakeWorker, Asleep, Step, TypeOK
<1>2. ASSUME NEW v \in Txns, Worker(v) \/ SpuriousWakeup(v), NEW u \in Txns, worker[u] # "none"
      PROVE  worker'[u] # "none"
  BY <1>2 DEF Worker, TestClosed, Sleep, PopNothing, Pop, ReadStartTime, Stamp, Reject, Execute,
     Resolve, SpuriousWakeup, Step, TypeOK
<1>3. ASSUME DestroyUnused \/ Close \/ Destructor \/ UNCHANGED vars, NEW u \in Txns, worker[u] # "none"
      PROVE  worker'[u] # "none"
  BY <1>3 DEF DestroyUnused, Close, Destructor, NotifyClose, Join, WakeAll, Asleep, vars, TypeOK
<1>4. \A u \in Txns : worker[u] # "none" => worker'[u] # "none"
  BY <1>1, <1>2, <1>3 DEF Next
<1> QED
  BY <1>4 DEF Several

(* Two threads cannot be stored without two workers. *)
LEMMA TwoStored ==
  ASSUME TypeOK, Created, handle # None, NEW t \in Txns, pc[t] \in {"assign", "store"}
  PROVE  Several
BY DEF TypeOK, Created, Several

(* What the clients do to the state that SurviveInv is about. *)
LEMMA ClientSurvives ==
  ASSUME IInv, TypeOK', SurviveInv, NEW t \in Txns, Client(t)
  PROVE  /\ fault' \in {"none", "sentinel"} \/ (fault' = "terminate" /\ Several) \/ (fault' = "insist" /\ closed)
         /\ fault = "none" /\ UNCHANGED <<closed, dtor>>
         /\ handle # None => handle' # None
         /\ dtor = "destroyed" => pc' \in {pc, [pc EXCEPT ![t] = "done"]} /\ worker' \in {worker, [worker EXCEPT ![t] = "test"]}
<1> USE DEF IInv
<1>1. CASE Push(t) \/ PushFaults(t)
  BY <1>1 DEF Push, PushFaults, MayPush, Alive, Die, clientVars, queueVars
<1>2. CASE NotifyPush(t) \/ NotifyStop(t)
  BY <1>2 DEF NotifyPush, NotifyStop, Alive, queueVars, SurviveInv, NobodyInside
<1>3. CASE CheckThread(t) \/ CreateThread(t)
  BY <1>3 DEF CheckThread, CreateThread, Alive, queueVars, SurviveInv, NobodyInside
<1>4. CASE AssignThread(t)
  BY <1>4, TwoStored DEF AssignThread, Die, queueVars, SurviveInv, NobodyInside
<1>5. CASE StoreThread(t)
  BY <1>5, TwoStored, TxnsAssumption DEF StoreThread, Die, queueVars, SurviveInv, NobodyInside
<1>6. CASE Stop(t)
  <2>1. running # t => closed
    BY <1>6, StopOwned DEF Stop, SurviveInv
  <2> QED
    BY <1>6, <2>1 DEF Stop, Answered, Die
<1> QED
  BY <1>1, <1>2, <1>3, <1>4, <1>5, <1>6 DEF Client

(* What the workers do to it. *)
LEMMA WorkerSurvives ==
  ASSUME IInv, TypeOK', SurviveInv, NEW u \in Txns, Worker(u) \/ SpuriousWakeup(u)
  PROVE  /\ \/ fault' = "none"
            \/ fault' = "start_time" /\ Several
            \/ fault' = "terminate" /\ \E c \in Commands : outcome'[c] = "throw"
         /\ UNCHANGED <<closed, dtor, handle, pc>>
         /\ worker[u] \notin {"none", "exited"}
<1>1. CASE Execute(u)
  <2>1. cur[u] \in Commands
    BY <1>1 DEF Execute, IInv, TypeOK, Busy
  <2>2. fault' = "none" \/ (fault' = "terminate" /\ outcome'[cur[u]] = "throw")
    BY <1>1, <2>1, OutcomesAssumption DEF Execute, Die, IInv, TypeOK
  <2> QED
    BY <1>1, <2>1, <2>2 DEF Execute, queueVars, clientVars
<1>2. CASE Stamp(u)
  BY <1>2 DEF Stamp, Die, SurviveInv, queueVars, clientVars
<1>3. CASE \/ TestClosed(u) \/ Sleep(u) \/ PopNothing(u) \/ Pop(u) \/ ReadStartTime(u) \/ Reject(u)
           \/ Resolve(u) \/ SpuriousWakeup(u)
  BY <1>3 DEF TestClosed, Sleep, PopNothing, Pop, ReadStartTime, Reject, Resolve, SpuriousWakeup,
     Alive, queueVars, clientVars
<1> QED
  BY <1>1, <1>2, <1>3 DEF Worker

(* With one worker, the transaction to be stamped has no start time. *)
LEMMA StampFresh ==
  ASSUME IInv, TypeOK', SurviveInv, [Next]_vars, ~Several'
  PROVE  \A u \in Txns : worker'[u] = "stamp" => start_time'[Txn(cur'[u])] = -1
<1>0. ~Several
  BY WorkersStay DEF IInv
<1>1. SUFFICES ASSUME NEW v \in Txns, worker'[v] = "stamp" PROVE start_time'[Txn(cur'[v])] = -1
  OBVIOUS
<1>2. worker[v] = "stamp" => start_time[Txn(cur[v])] = -1
  BY <1>0 DEF SurviveInv
<1>3. CASE Quiet \/ Close \/ \E t \in Txns : Push(t) \/ Stop(t)
  BY <1>1, <1>2, <1>3 DEF Quiet, Close, Push, Stop, workerVars, Busy
<1>4. ASSUME NEW u \in Txns, Pop(u) PROVE start_time'[Txn(cur'[v])] = -1
  <2>1. v # u /\ worker[v] = "stamp" /\ cur'[v] = cur[v]
    BY <1>1, <1>4 DEF Pop, Step, IInv, TypeOK
  <2> QED
    BY <1>2, <1>4, <2>1 DEF Pop, Txn
<1>5. ASSUME NEW u \in Txns, ReadStartTime(u) PROVE start_time'[Txn(cur'[v])] = -1
  <2>1. worker[v] = "stamp" \/ (v = u /\ start_time[Txn(cur[u])] = -1)
    BY <1>1, <1>5 DEF ReadStartTime, Step, IInv, TypeOK
  <2> QED
    BY <1>2, <1>5, <2>1 DEF ReadStartTime, workerVars, Txn
<1>6. ASSUME NEW u \in Txns, Stamp(u) PROVE FALSE
  <2>1. start_time[Txn(cur[u])] = -1
    BY <1>0, <1>6 DEF Stamp, SurviveInv
  <2>2. worker' = [worker EXCEPT ![u] = "execute"] /\ worker[u] = "stamp"
    BY <1>6, <2>1 DEF Stamp, Step
  <2>3. v # u /\ worker[v] = "stamp"
    BY <1>1, <2>2 DEF IInv, TypeOK
  <2> QED
    BY <1>0, <2>2, <2>3 DEF Several
<1>7. ASSUME NEW u \in Txns, Reject(u) \/ Execute(u) \/ Resolve(u) PROVE start_time'[Txn(cur'[v])] = -1
  <2>1. v # u /\ worker[v] = "stamp" /\ cur'[v] = cur[v] /\ start_time' = start_time
    BY <1>1, <1>7 DEF Reject, Execute, Resolve, Step, IInv, TypeOK
  <2> QED
    BY <1>2, <2>1 DEF Txn
<1> QED
  BY <1>3, <1>4, <1>5, <1>6, <1>7, StepCases DEF IInv

(* Every step preserves SurviveInv. *)
LEMMA SurviveStep ==
  ASSUME IInv, IInv', SurviveInv, [Next]_vars
  PROVE  SurviveInv'
<1> USE DEF IInv
<1>1. Owned'
  BY OwnedStep DEF SurviveInv
<1>2. Several' \/ \A u \in Txns : worker'[u] = "stamp" => start_time'[Txn(cur'[u])] = -1
  BY StampFresh
<1>3. Several => Several'
  BY WorkersStay
<1>4. ASSUME NEW t \in Txns, Client(t) PROVE SurviveInv'
  <2>1. /\ fault' \in {"none", "sentinel"} \/ (fault' = "terminate" /\ Several) \/ (fault' = "insist" /\ closed)
        /\ UNCHANGED <<closed, dtor>> /\ (handle # None => handle' # None)
    BY <1>4, ClientSurvives
  <2>2. ASSUME dtor = "destroyed"
        PROVE  NobodyInside' /\ (Several' \/ \A u \in Txns : worker'[u] \in {"none", "exited"})
    <3>1. NobodyInside /\ (Several \/ \A u \in Txns : worker[u] \in {"none", "exited"})
      BY <2>2 DEF SurviveInv
    <3>2. pc' \in {pc, [pc EXCEPT ![t] = "done"]}
      BY <1>4, <2>2, ClientSurvives
    <3>3. ~CreateThread(t)
      BY <3>1 DEF CreateThread, NobodyInside
    <3>4. UNCHANGED worker \/ Asleep # {}
      BY <1>4, <3>3 DEF Client, Push, PushFaults, NotifyPush, CheckThread, AssignThread, StoreThread,
         Stop, NotifyStop, WakeWorker
    <3>5. Several \/ UNCHANGED worker
      BY <3>1, <3>4 DEF Asleep
    <3> QED
      BY <1>3, <3>1, <3>2, <3>5 DEF NobodyInside, TypeOK
  <2> QED
    BY <1>1, <1>2, <1>3, <2>1, <2>2 DEF SurviveInv
<1>5. ASSUME NEW u \in Txns, Worker(u) \/ SpuriousWakeup(u) PROVE SurviveInv'
  <2>1. /\ \/ fault' = "none"
           \/ fault' = "start_time" /\ Several
           \/ fault' = "terminate" /\ \E c \in Commands : outcome'[c] = "throw"
        /\ UNCHANGED <<closed, dtor, handle, pc>>
        /\ worker[u] \notin {"none", "exited"}
    BY <1>5, WorkerSurvives
  <2>2. dtor = "destroyed" => Several /\ NobodyInside
    BY <2>1 DEF SurviveInv
  <2> QED
    BY <1>1, <1>2, <1>3, <2>1, <2>2 DEF SurviveInv, NobodyInside
<1>6. CASE DestroyUnused
  <2>1. \A u \in Txns : worker[u] = "none"
    BY <1>6 DEF DestroyUnused, NobodyInside, Created
  <2>2. fault' = "none" /\ dtor' = "destroyed" /\ NobodyInside' /\ worker' = worker
    BY <1>6 DEF DestroyUnused, Alive, NobodyInside, clientVars
  <2> QED
    BY <1>1, <1>2, <2>1, <2>2 DEF SurviveInv
<1>7. CASE Close \/ NotifyClose
  <2>1. /\ fault' = "none" /\ dtor' \in {"notify", "join"} /\ handle' = handle /\ handle # None
    BY <1>7 DEF Close, NotifyClose, Alive, SurviveInv, clientVars
  <2> QED
    BY <1>1, <1>2, <2>1 DEF SurviveInv
<1>8. CASE Join
  <2>1. /\ handle \in Txns /\ worker[handle] = "exited" /\ worker' = worker
        /\ fault' = "none" /\ dtor' = "destroyed" /\ NobodyInside'
    BY <1>8 DEF Join, Alive, SurviveInv, NobodyInside, clientVars, TypeOK
  <2>2. Several \/ \A u \in Txns : worker[u] \in {"none", "exited"}
    BY <2>1 DEF Several
  <2> QED
    BY <1>1, <1>2, <1>3, <2>1, <2>2 DEF SurviveInv
<1>9. CASE UNCHANGED vars
  BY <1>9 DEF vars, SurviveInv, Owned, Over, NobodyInside, Several
<1> QED
  BY <1>4, <1>5, <1>6, <1>7, <1>8, <1>9 DEF Next, Destructor

(* What could go wrong in a process with one worker: nothing but a command *)
(* that throws ends it, no start time is set twice, and the destructor     *)
(* returns after the last command.  A second worker takes two clients that *)
(* have both found the first one missing.                                  *)
THEOREM OneWorkerIsSafe == Spec => []OneWorkerSuffices
<1>1. IInv /\ IInv' /\ SurviveInv /\ [Next]_vars => SurviveInv'
  BY SurviveStep
<1>2. SurviveInv => OneWorkerSuffices
  BY DEF SurviveInv, OneWorkerSuffices
<1> QED
  BY <1>1, <1>2, InitSurvive, Invariance, PTL DEF Spec

(* The assertion of stop_transaction() holds as long as nobody destroys    *)
(* the scheduler under its clients, whatever they do.                      *)
THEOREM StopsWhileOpen ==
  ASSUME Closing = "never"
  PROVE  Spec => []StopsRunningTransaction
<1>1. Init => dtor = "alive"
  BY DEF Init
<1>2. dtor = "alive" /\ [Next]_vars => (dtor = "alive")'
  BY DEF Next, Client, Worker, Push, PushFaults, NotifyPush, CheckThread, CreateThread, AssignThread,
     StoreThread, Stop, NotifyStop, TestClosed, Sleep, PopNothing, Pop, ReadStartTime, Stamp, Reject,
     Execute, Resolve, SpuriousWakeup, DestroyUnused, Close, Destructor, NotifyClose, Join, MayBegin, vars
<1>3. IInv /\ IInv' /\ SurviveInv /\ [Next]_vars => SurviveInv'
  BY SurviveStep
<1>4. SurviveInv /\ dtor = "alive" => StopsRunningTransaction
  BY DEF SurviveInv, StopsRunningTransaction
<1> QED
  BY <1>1, <1>2, <1>3, <1>4, InitSurvive, Invariance, PTL DEF Spec

-----------------------------------------------------------------------------
(* The commands of a transaction keep their order, unless the search of    *)
(* push() mistakes the sentinel for a command of the transaction: they are *)
(* queued and popped in the order in which they were scheduled, whoever    *)
(* pops them, and a worker that is alone executes them in this order.  Two *)
(* workers may hold two commands of the transaction, and the one with the  *)
(* later command may execute first.                                        *)

Earlier(c, d) == c[1] = d[1] => c[2] < d[2]

Ordered ==
  /\ \A j, k \in 1..Len(command_list) : j < k => Earlier(command_list[j], command_list[k])
  /\ \A u \in Txns, k \in 1..Len(command_list) : Earlier(cur[u], command_list[k])
  /\ \A j \in 1..Len(log), k \in 1..Len(command_list) : Earlier(log[j], command_list[k])
  /\ Several \/ \A u \in Txns : worker[u] \in Busy \ {"resolve"} =>
                                  \A j \in 1..Len(log) : Earlier(log[j], cur[u])
  /\ Several \/ \A j, k \in 1..Len(log) : j < k => Earlier(log[j], log[k])

(* The list and the log grow at the end, the list shrinks at the front. *)
LEMMA OrderedStep ==
  ASSUME "match" \notin SentinelReads, IInv, IInv', Ordered, [Next]_vars
  PROVE  Ordered'
<1> USE CommandType
<1>0. /\ command_list \in Seq(Commands) /\ log \in Seq(Commands) /\ Len(log) \in Nat
      /\ \A k \in 1..Len(command_list) : command_list[k] \in Commands
      /\ \A k \in 1..Len(log) : log[k] \in Commands
  BY ElementOfSeq DEF IInv, TypeOK
<1>s. Several => Several'
  BY WorkersStay DEF IInv
<1>1. CASE Quiet
  BY <1>1, <1>s DEF Quiet, Ordered, Earlier, workerVars, Busy
<1>2. ASSUME NEW t \in Txns, Push(t) PROVE Ordered'
  <2> DEFINE c == <<t, scheduled[t] + 1>>
  <2>1. UNCHANGED <<cur, log, worker>>
    BY <1>2 DEF Push, workerVars
  <2>2. CASE closed
    BY <1>2, <2>1, <2>2 DEF Push, Ordered, Earlier, Several
  <2>3. CASE ~closed
    <3>1. InsertedAt(command_list', command_list, c, Len(command_list) + 1) /\ c \in Commands
      BY <1>2, <2>3, PushPlace DEF IInv
    <3>2. /\ Len(command_list') = Len(command_list) + 1 /\ Len(command_list) \in Nat
          /\ command_list'[Len(command_list) + 1] = c
          /\ \A k \in 1..Len(command_list) : command_list'[k] = command_list[k]
      BY <1>0, <3>1, InsertedLast
    <3>3. \A d \in Commands : promise[d] # "none" => Earlier(d, c)
      <4> SUFFICES ASSUME NEW d \in Commands, promise[d] # "none", d[1] = t
                   PROVE  d[2] < scheduled[t] + 1
        BY DEF Earlier
      <4>1. d[2] \in 1..NumCommands[t] /\ d = <<t, d[2]>> /\ NumCommands[t] \in Nat /\ scheduled[t] \in Nat
        BY TxnsAssumption DEF IInv, TypeOK
      <4>2. ~(scheduled[t] < d[2])
        BY <4>1 DEF IInv, Asked
      <4> QED
        BY <4>1, <4>2
    <3> HIDE DEF c
    <3>4. \A k \in 1..Len(command_list) : Earlier(command_list[k], c)
      <4> SUFFICES ASSUME NEW k \in 1..Len(command_list) PROVE Earlier(command_list[k], c)
        OBVIOUS
      <4>1. promise[command_list[k]] = "unset"
        BY <1>0 DEF IInv, Waiting, Contains
      <4> QED
        BY <1>0, <3>3, <4>1
    <3>5. \A u \in Txns : Earlier(cur[u], c)
      <4> SUFFICES ASSUME NEW u \in Txns PROVE Earlier(cur[u], c)
        OBVIOUS
      <4>1. CASE cur[u] = NoCommand
        BY <3>1, <4>1, TxnsAssumption DEF Earlier, NoCommand
      <4>2. CASE cur[u] \in Commands
        BY <3>3, <4>2 DEF IInv, Waiting, Held
      <4> QED
        BY <4>1, <4>2 DEF IInv, TypeOK
    <3>6. \A j \in 1..Len(log) : Earlier(log[j], c)
      <4> SUFFICES ASSUME NEW j \in 1..Len(log) PROVE Earlier(log[j], c)
        OBVIOUS
      <4>1. Contains(log, log[j]) /\ log[j] \in Commands
        BY <1>0 DEF Contains
      <4>2. Executing(log[j]) => Held(log[j])
        BY DEF Executing, Held
      <4>3. promise[log[j]] # "none"
        BY <4>1, <4>2 DEF IInv, Executed, Waiting
      <4> QED
        BY <3>3, <4>1, <4>3
    <3>7. \A k \in 1..Len(command_list') : k \in 1..Len(command_list) \/ k = Len(command_list) + 1
      BY <3>2
    <3> QED
      BY <2>1, <3>2, <3>4, <3>5, <3>6, <3>7 DEF Ordered, Several
  <2> QED
    BY <2>2, <2>3 DEF IInv, TypeOK
<1>3. ASSUME NEW t \in Txns, Stop(t) PROVE Ordered'
  BY <1>3 DEF Stop, Ordered, Earlier, Several, workerVars
<1>4. ASSUME NEW u \in Txns, Pop(u) PROVE Ordered'
  <2>1. /\ command_list # <<>> /\ cur' = [cur EXCEPT ![u] = command_list[1]]
        /\ command_list' = Tail(command_list)
        /\ log' = log /\ worker' = [worker EXCEPT ![u] = "begin"]
    BY <1>0, <1>4, HeadTailProperties DEF Pop, Step
  <2>2. /\ Len(command_list') = Len(command_list) - 1 /\ Len(command_list) \in Nat \ {0}
        /\ \A k \in 1..Len(command_list') : command_list'[k] = command_list[k + 1]
    BY <1>0, <2>1, HeadTailProperties, EmptySeq
  <2>3. /\ cur'[u] = command_list[1] /\ \A v \in Txns \ {u} : cur'[v] = cur[v] /\ worker'[v] = worker[v]
    BY <2>1 DEF IInv, TypeOK
  <2>4. 1 \in 1..Len(command_list) /\ \A k \in 1..Len(command_list') : k + 1 \in 1..Len(command_list) /\ 1 < k + 1
    BY ONLY <2>2
  <2>5. \A j, k \in 1..Len(command_list') : j < k => Earlier(command_list'[j], command_list'[k])
    <3> SUFFICES ASSUME NEW j \in 1..Len(command_list'), NEW k \in 1..Len(command_list'), j < k
                 PROVE  Earlier(command_list'[j], command_list'[k])
      OBVIOUS
    <3>1. j + 1 < k + 1
      BY <2>2
    <3> QED
      BY <2>2, <2>4, <3>1 DEF Ordered
  <2>6. ASSUME NEW v \in Txns, NEW k \in 1..Len(command_list') PROVE Earlier(cur'[v], command_list'[k])
    <3>1. CASE v = u
      BY <2>2, <2>3, <2>4, <3>1 DEF Ordered
    <3>2. CASE v # u
      BY <2>2, <2>3, <2>4, <3>2 DEF Ordered
    <3> QED
      BY <3>1, <3>2
  <2>7. \A j \in 1..Len(log'), k \in 1..Len(command_list') : Earlier(log'[j], command_list'[k])
    BY <2>1, <2>2, <2>4 DEF Ordered
  <2>8. ASSUME NEW v \in Txns, worker'[v] \in Busy \ {"resolve"}, ~Several', NEW j \in 1..Len(log')
        PROVE  Earlier(log'[j], cur'[v])
    <3>1. CASE v = u
      BY <2>1, <2>3, <2>4, <3>1 DEF Ordered
    <3>2. CASE v # u
      BY <1>s, <2>1, <2>3, <2>8, <3>2 DEF Ordered
    <3> QED
      BY <3>1, <3>2
  <2>9. Several' \/ \A j, k \in 1..Len(log') : j < k => Earlier(log'[j], log'[k])
    BY <1>s, <2>1 DEF Ordered
  <2> QED
    BY <2>5, <2>6, <2>7, <2>8, <2>9 DEF Ordered
<1>5. ASSUME NEW u \in Txns, ReadStartTime(u) \/ Stamp(u) \/ Reject(u) PROVE Ordered'
  <2>1. /\ UNCHANGED <<command_list, cur, log>> /\ worker[u] \in Busy \ {"resolve"}
        /\ \A v \in Txns \ {u} : worker'[v] = worker[v]
    BY <1>5 DEF ReadStartTime, Stamp, Reject, Step, Busy, queueVars, workerVars, IInv, TypeOK
  <2> QED
    BY <1>s, <2>1 DEF Ordered, Earlier
<1>6. ASSUME NEW u \in Txns, Execute(u) PROVE Ordered'
  <2>1. /\ UNCHANGED <<command_list, cur>> /\ log' = Append(log, cur[u])
        /\ worker' = [worker EXCEPT ![u] = "resolve"] /\ worker[u] = "execute"
    BY <1>6 DEF Execute, Step, queueVars
  <2>2. /\ Len(log') = Len(log) + 1 /\ log'[Len(log) + 1] = cur[u]
        /\ \A k \in 1..Len(log) : log'[k] = log[k]
    BY <1>0, <2>1
  <2>3. \A k \in 1..Len(log') : k \in 1..Len(log) \/ k = Len(log) + 1
    <3>1. Len(log') = Len(log) + 1 /\ Len(log) \in Nat
      BY <1>0, <2>2
    <3> QED
      BY ONLY <3>1
  <2>4. ASSUME NEW j \in 1..Len(log'), NEW k \in 1..Len(command_list')
        PROVE  Earlier(log'[j], command_list'[k])
    <3>1. CASE j \in 1..Len(log)
      BY <2>1, <2>2, <3>1 DEF Ordered
    <3>2. CASE j = Len(log) + 1
      BY <2>1, <2>2, <3>2 DEF Ordered
    <3> QED
      BY <2>3, <3>1, <3>2
  <2>5. ASSUME ~Several'
        PROVE  /\ \A v \in Txns : worker'[v] \notin Busy \ {"resolve"}
               /\ \A j, k \in 1..Len(log') : j < k => Earlier(log'[j], log'[k])
    <3>1. ~Several /\ worker[u] # "none"
      BY <1>s, <2>1, <2>5
    <3>2. \A v \in Txns \ {u} : worker'[v] = "none"
      BY <2>1, <3>1 DEF Several, IInv, TypeOK
    <3>3. \A v \in Txns : worker'[v] \notin Busy \ {"resolve"}
      BY <2>1, <3>2 DEF Busy, IInv, TypeOK
    <3>4. \A j \in 1..Len(log) : Earlier(log[j], cur[u])
      BY <2>1, <3>1 DEF Ordered, Busy
    <3>5. ASSUME NEW j \in 1..Len(log'), NEW k \in 1..Len(log'), j < k PROVE Earlier(log'[j], log'[k])
      <4>1. j \in 1..Len(log)
        BY <1>0, <2>2, <3>5
      <4>2. CASE k \in 1..Len(log)
        BY <2>2, <3>1, <3>5, <4>1, <4>2 DEF Ordered
      <4>3. CASE k = Len(log) + 1
        BY <2>2, <3>4, <4>1, <4>3
      <4> QED
        BY <2>3, <4>2, <4>3
    <3> QED
      BY <3>3, <3>5
  <2> QED
    <3>1. \A j, k \in 1..Len(command_list') : j < k => Earlier(command_list'[j], command_list'[k])
      BY <2>1 DEF Ordered
    <3>2. \A v \in Txns, k \in 1..Len(command_list') : Earlier(cur'[v], command_list'[k])
      BY <2>1 DEF Ordered
    <3> QED
      BY <2>4, <2>5, <3>1, <3>2 DEF Ordered
<1>7. ASSUME NEW u \in Txns, Resolve(u) PROVE Ordered'
  <2>1. /\ UNCHANGED <<command_list, log>> /\ cur' = [cur EXCEPT ![u] = NoCommand]
        /\ worker' = [worker EXCEPT ![u] = "test"]
    BY <1>7 DEF Resolve, Step, queueVars
  <2>2. /\ cur'[u] = NoCommand /\ worker'[u] = "test"
        /\ \A v \in Txns \ {u} : cur'[v] = cur[v] /\ worker'[v] = worker[v]
    BY <2>1 DEF IInv, TypeOK
  <2>3. \A k \in 1..Len(command_list) : Earlier(NoCommand, command_list[k])
    BY <1>0, TxnsAssumption DEF Earlier, NoCommand
  <2> QED
    BY <1>s, <2>1, <2>2, <2>3 DEF Ordered, Earlier, Busy
<1>8. CASE Close
  BY <1>8 DEF Close, Ordered, Earlier, Several, workerVars
<1> QED
  BY <1>1, <1>2, <1>3, <1>4, <1>5, <1>6, <1>7, <1>8, StepCases DEF IInv

(* If the search of push() never finds a match behind the end of the       *)
(* list, commands of a transaction are queued and popped in the order in   *)
(* which their client scheduled them, and executed in this order as long   *)
(* as one worker has been started.                                         *)
THEOREM CommandsOrdered ==
  ASSUME "match" \notin SentinelReads
  PROVE  Spec => []Ordered
<1>1. Init => Ordered
  BY DEF Init, Ordered, Busy
<1>2. IInv /\ IInv' /\ Ordered /\ [Next]_vars => Ordered'
  BY OrderedStep
<1> QED
  BY <1>1, <1>2, Invariance, PTL DEF Spec

(* Transactions execute one after the other and none comes back, whatever  *)
(* the number of workers; no command executes twice; and until there are   *)
(* two workers, a transaction executes its commands in the order in which  *)
(* they were scheduled.                                                    *)
THEOREM SerialRefinement ==
  ASSUME "match" \notin SentinelReads
  PROVE  Spec => ImplementsSerialExecution
<1> DEFINE ended == {t \in Txns : pc[t] \in {"notifyStop", "done"}}
           sv == <<running, log, ended, Several>>
<1>1. Init => Serial!Init
  BY DEF Init, Serial!Init, Several
<1>2. ASSUME IInv, IInv', Ordered, [Next]_vars PROVE [Serial!Next]_sv
  <2>0. worker' = worker => Several' = Several
    BY DEF Several
  <2>1. CASE Quiet
    <3>1. running' = running /\ log' = log
      BY <2>1 DEF Quiet, workerVars
    <3>2. ended' = ended
      BY <2>1 DEF Quiet, Over
    <3>3. CASE Several' = Several
      BY <3>1, <3>2, <3>3
    <3>4. CASE Several' # Several
      <4>1. Several => Several'
        BY <1>2, WorkersStay DEF IInv
      <4>2. Several' = TRUE
        BY <3>4, <4>1 DEF Several
      <4>3. Serial!Overlap
        BY <3>1, <3>2, <4>2 DEF Serial!Overlap
      <4> QED
        BY <4>3 DEF Serial!Next
    <3> QED
      BY <3>3, <3>4
  <2>2. ASSUME NEW t \in Txns, Push(t) PROVE UNCHANGED sv
    <3>1. UNCHANGED <<running, log, worker>>
      BY <2>2 DEF Push, workerVars
    <3>2. ended' = ended
      BY <1>2, <2>2 DEF Push, MayPush, GoTo, IInv, TypeOK
    <3> QED
      BY <2>0, <3>1, <3>2
  <2>3. ASSUME NEW t \in Txns, Stop(t), running = t PROVE Serial!End
    <3>1. /\ running # None /\ running' = None /\ log' = log /\ pc' = [pc EXCEPT ![t] = "notifyStop"]
          /\ worker' = worker
      BY <2>3, TxnsAssumption DEF Stop, GoTo, workerVars
    <3>2. ended' = ended \cup {t}
      BY <1>2, <3>1 DEF IInv, TypeOK
    <3> QED
      BY <2>0, <2>3, <3>1, <3>2 DEF Serial!End
  <2>4. ASSUME NEW u \in Txns, Pop(u) PROVE [Serial!Next]_sv
    <3> DEFINE c == Head(command_list)
    <3>1. c \in Commands /\ log' = log /\ pc' = pc /\ promise[c] = "unset"
      <4>1. c = command_list[1] /\ 1 \in 1..Len(command_list) /\ command_list[1] \in Commands
        BY <1>2, <2>4, HeadTailProperties, EmptySeq DEF Pop, IInv, TypeOK
      <4>2. promise[command_list[1]] = "unset"
        BY <1>2, <4>1 DEF IInv, Waiting, Contains
      <4> QED
        BY <2>4, <4>1, <4>2 DEF Pop, clientVars
    <3>2. Several' = Several
      <4>1. worker[u] = "pop" /\ worker' = [worker EXCEPT ![u] = "begin"]
        BY <2>4 DEF Pop, Step
      <4>2. \A v \in Txns : worker'[v] # "none" <=> worker[v] # "none"
        BY <1>2, <4>1 DEF IInv, TypeOK
      <4> QED
        BY <4>2 DEF Several
    <3>3. running' = IF running = None THEN Txn(c) ELSE running
      BY <2>4 DEF Pop
    <3> HIDE DEF c
    <3>4. CASE running = None
      <4>1. running' = Txn(c) /\ Txn(c) \in Txns /\ Txn(c) \notin ended
        BY <1>2, <3>1, <3>3, <3>4, CommandType DEF Txn, IInv, Living, Over
      <4>2. Serial!Begin(Txn(c))
        BY <3>1, <3>2, <3>4, <4>1 DEF Serial!Begin
      <4> QED
        BY <4>1, <4>2 DEF Serial!Next
    <3>5. CASE running # None
      BY <3>1, <3>2, <3>3, <3>5
    <3> QED
      BY <3>4, <3>5
  <2>5. ASSUME NEW u \in Txns, ReadStartTime(u) \/ Stamp(u) \/ Reject(u) \/ Resolve(u) PROVE UNCHANGED sv
    <3>1. UNCHANGED <<running, log, pc>>
      BY <2>5 DEF ReadStartTime, Stamp, Reject, Resolve, queueVars, workerVars, clientVars
    <3>2. \A v \in Txns : worker'[v] # "none" <=> worker[v] # "none"
      BY <1>2, <2>5 DEF ReadStartTime, Stamp, Reject, Resolve, Step, IInv, TypeOK
    <3> QED
      BY <3>1, <3>2 DEF Several
  <2>6. CASE Close
    BY <2>0, <2>6 DEF Close, workerVars, clientVars
  <2>7. ASSUME NEW u \in Txns, Execute(u) PROVE [Serial!Next]_sv
    <3>1. /\ cur[u] \in Commands /\ running = cur[u][1] /\ cur[u] = <<running, cur[u][2]>>
          /\ running # None /\ cur[u][2] \in 1..NumCommands[running]
      <4>1. cur[u] \in Commands
        BY <1>2, <2>7 DEF Execute, IInv, TypeOK, Busy
      <4>2. running = cur[u][1]
        BY <1>2, <4>1, CommandType DEF IInv, Living, Txn
      <4> QED
        BY <4>1, <4>2, CommandType, TxnsAssumption
    <3>2. /\ log' = Append(log, <<running, cur[u][2]>>) /\ running' = running /\ pc' = pc
      BY <2>7, <3>1 DEF Execute, queueVars, clientVars
    <3>3. Several' = Several
      <4>1. worker[u] = "execute" /\ worker' = [worker EXCEPT ![u] = "resolve"]
        BY <2>7 DEF Execute, Step
      <4>2. \A v \in Txns : worker'[v] # "none" <=> worker[v] # "none"
        BY <1>2, <4>1 DEF IInv, TypeOK
      <4> QED
        BY <4>2 DEF Several
    <3>4. ASSUME NEW k \in DOMAIN log, log[k][1] = running
          PROVE  log[k][2] < cur[u][2] \/ (Several /\ log[k][2] # cur[u][2])
      <4>1. log \in Seq(Commands) /\ k \in 1..Len(log) /\ log[k] \in Commands
        BY <1>2, ElementOfSeq DEF IInv, TypeOK
      <4>2. CASE ~Several
        BY <1>2, <2>7, <3>1, <3>4, <4>1, <4>2 DEF Execute, Ordered, Earlier, Busy
      <4>3. CASE log[k][2] = cur[u][2]
        <5>1. log[k] = cur[u]
          BY <3>1, <3>4, <4>1, <4>3, CommandType
        <5>2. Contains(log, cur[u])
          BY <4>1, <5>1 DEF Contains
        <5>3. promise[cur[u]] = "unset" /\ ~Executing(cur[u])
          <6>1. \A v \in Txns : cur[v] = cur[u] => v = u
            BY <1>2, <3>1, CommandType DEF IInv, Waiting
          <6> QED
            BY <1>2, <2>7, <3>1, <6>1 DEF IInv, Waiting, Held, Executing, Execute
        <5> QED
          BY <1>2, <3>1, <5>2, <5>3 DEF IInv, Executed
      <4> QED
        BY <4>2, <4>3
    <3>5. Serial!Execute(cur[u][2])
      BY <3>1, <3>2, <3>3, <3>4 DEF Serial!Execute
    <3> QED
      BY <3>1, <3>5 DEF Serial!Next
  <2> QED
    BY <1>2, <2>1, <2>2, <2>3, <2>4, <2>5, <2>6, <2>7, StepCases DEF IInv, Serial!Next
<1>3. IInv /\ IInv' /\ Ordered /\ [Next]_vars => [Serial!Next]_sv
  BY <1>2
<1> QED
  BY <1>1, <1>3, Invariance, CommandsOrdered, PTL DEF Spec, ImplementsSerialExecution, Serial!Spec

=====
