---------------------------- MODULE SerialScheduler ----------------------------
(***************************************************************************)
(* The scheduler of src/catalog/SerialScheduler.cpp with its clients: each *)
(* begins a transaction, schedules its commands, waits for the futures and *)
(* commits or aborts; a worker thread executes the commands.  A client     *)
(* with one command is Scheduler::autocommit.                              *)
(*                                                                         *)
(* Meant is one worker.  The client that finds schedule_thread_ without a  *)
(* thread starts it, though, and nothing keeps a second client from doing  *)
(* the same: a worker is named after the client that has started it.       *)
(*                                                                         *)
(* Every critical section of CommandQueue::mutex_ is one action; the       *)
(* notification after it is another.  A failing M_insist ends the process, *)
(* as in a debug build.                                                    *)
(***************************************************************************)
EXTENDS Integers, Sequences, SequencesExt, FiniteSets

CONSTANTS
  Txns,             \* the transactions, one client each
  NumCommands,      \* NumCommands[t]: how many commands t has
  SentinelReads,    \* what push() may find behind the end of a non-empty list
  ExecuteOutcomes,  \* how DatabaseCommand::execute() may end
  Closing,          \* whether the scheduler may be destroyed
  None              \* no transaction: a null running_transaction_

(* push() searches from rend() to rbegin().  On a non-empty list this      *)
(* reads the sentinel node as if it held a command and then stops: the     *)
(* read faults, or what it finds equals the transaction looked for, or     *)
(* differs.                                                                *)
ASSUME SentinelAssumption ==
  SentinelReads \in (SUBSET {"fault", "match", "differ"}) \ {{}}
ASSUME OutcomesAssumption == ExecuteOutcomes \in (SUBSET {"ok", "throw"}) \ {{}}
ASSUME ClosingAssumption == Closing \in {"never", "any"}
ASSUME TxnsAssumption ==
  /\ None \notin Txns
  /\ NumCommands \in [Txns -> Nat \ {0}]

Commands == UNION {{<<t, i>> : i \in 1..NumCommands[t]} : t \in Txns}
NoCommand == <<None, 0>>

VARIABLES
  command_list,     \* command_list_
  running,          \* running_transaction_
  closed,           \* closed_
  promise,          \* promise[c]: the shared state behind the future of c
  handle,           \* schedule_thread_: the worker it refers to, None if not joinable
  worker,           \* worker[t]: where the worker is that t has started
  cur,              \* cur[t]: the command that this worker has popped
  start_time,       \* start_time[t]: start_time_
  next_start_time,
  pc,               \* where each client is
  scheduled,        \* scheduled[t]: how many commands t has scheduled
  dtor,             \* where ~SerialScheduler is
  log,              \* the commands executed so far (history variable)
  outcome,          \* outcome[c]: how c ended (history variable)
  fault             \* why the process died, or "none"

vars == <<command_list, running, closed, promise, handle, worker, cur, start_time,
          next_start_time, pc, scheduled, dtor, log, outcome, fault>>

queueVars  == <<command_list, running, closed>>
workerVars == <<cur, start_time, next_start_time, log, outcome>>
clientVars == <<handle, pc, scheduled>>

Txn(c) == c[1]

Init ==
  /\ command_list = <<>> /\ running = None /\ closed = FALSE
  /\ promise = [c \in Commands |-> "none"]
  /\ handle = None
  /\ worker = [t \in Txns |-> "none"] /\ cur = [t \in Txns |-> NoCommand]
  /\ start_time = [t \in Txns |-> -1] /\ next_start_time = 0
  /\ pc = [t \in Txns |-> "ready"]
  /\ scheduled = [t \in Txns |-> 0]
  /\ dtor = "alive"
  /\ log = <<>> /\ outcome = [c \in Commands |-> "none"]
  /\ fault = "none"

Die(f) == fault' = f
Alive  == fault = "none" /\ UNCHANGED fault

GoTo(t, l)  == pc' = [pc EXCEPT ![t] = l]
Step(u, l)  == worker' = [worker EXCEPT ![u] = l]

(* A definition named ...Mutant is a plausible bug in the definition that  *)
(* follows it: PROJECT.json names the property that each of them violates. *)
(* No action uses it.                                                      *)

(* has_element_: only workers wait on it. *)
Asleep == {u \in Txns : worker[u] = "asleep"}

WakeWorkerMutant == UNCHANGED worker
WakeWorker == IF Asleep = {} THEN UNCHANGED worker ELSE \E u \in Asleep : Step(u, "pop")

WakeAllMutant == WakeWorker
WakeAll == worker' = [u \in Txns |-> IF u \in Asleep THEN "pop" ELSE worker[u]]

-----------------------------------------------------------------------------
(* The clients.  The scheduler object outlives the calls made on it.       *)
(* Clients still run while the destructor does, which is what the test of  *)
(* closed_ in push() is for.                                               *)

(* Where push() puts a command: in the front if the search says that its   *)
(* transaction has no queued command and that transaction is running, else *)
(* behind the first element if the search "finds" one, else at the back.   *)
Insert(list, c, read) ==
  IF list = <<>> \/ read = "differ" THEN Append(list, c)
  ELSE IF running = Txn(c) THEN <<c>> \o list
  ELSE <<Head(list), c>> \o Tail(list)

(* The outcomes of the search; it reads nothing if the list is empty. *)
Reads == IF command_list = <<>> THEN {"differ"} ELSE SentinelReads

MayPush(t) ==
  /\ pc[t] = "ready" /\ scheduled[t] < NumCommands[t]
  /\ dtor = "alive" \/ (Closing = "any" /\ dtor # "destroyed")

(* schedule_command(), the critical section of push(). *)
Push(t) ==
  LET c == <<t, scheduled[t] + 1>> IN
  /\ Alive /\ MayPush(t)
  /\ \/ /\ closed
        /\ promise' = [promise EXCEPT ![c] = "false"]
        /\ GoTo(t, "check")
        /\ UNCHANGED command_list
     \/ /\ ~closed
        /\ promise' = [promise EXCEPT ![c] = "unset"]
        /\ \E read \in Reads \ {"fault"} : command_list' = Insert(command_list, c, read)
        /\ GoTo(t, "notify")
  /\ scheduled' = [scheduled EXCEPT ![t] = @ + 1]
  /\ UNCHANGED <<running, closed, handle, worker, workerVars, dtor>>

(* The same push() when reading the sentinel faults. *)
PushFaults(t) ==
  /\ fault = "none" /\ MayPush(t)
  /\ ~closed /\ "fault" \in Reads
  /\ Die("sentinel")
  /\ UNCHANGED <<queueVars, promise, worker, workerVars, clientVars, dtor>>

NotifyPush(t) ==
  /\ Alive /\ pc[t] = "notify"
  /\ WakeWorker
  /\ GoTo(t, "check")
  /\ UNCHANGED <<queueVars, promise, handle, workerVars, scheduled, dtor>>

(* schedule_thread_.joinable() is read without any lock. *)
CheckThreadMutant(t) ==
  /\ Alive /\ pc[t] = "check"
  /\ GoTo(t, "create")
  /\ UNCHANGED <<queueVars, promise, handle, worker, workerVars, scheduled, dtor>>

CheckThread(t) ==
  /\ Alive /\ pc[t] = "check"
  /\ GoTo(t, IF handle = None THEN "create" ELSE "ready")
  /\ UNCHANGED <<queueVars, promise, handle, worker, workerVars, scheduled, dtor>>

(* The temporary std::thread(schedule_thread): the worker runs from now on,*)
(* whatever becomes of the assignment.                                     *)
CreateThread(t) ==
  /\ Alive /\ pc[t] = "create"
  /\ Step(t, "test")
  /\ GoTo(t, "assign")
  /\ UNCHANGED <<queueVars, promise, handle, workerVars, scheduled, dtor>>

(* Assigning to a thread that is joinable calls std::terminate().          *)
AssignThread(t) ==
  /\ fault = "none" /\ pc[t] = "assign"
  /\ IF handle = None THEN GoTo(t, "store") /\ UNCHANGED fault
                      ELSE Die("terminate") /\ UNCHANGED pc
  /\ UNCHANGED <<queueVars, promise, handle, worker, workerVars, scheduled, dtor>>

(* The assignment swaps schedule_thread_ and the temporary, which is then  *)
(* destroyed.  If another client has stored its worker since the test, the *)
(* temporary gets that one, and destroying a joinable thread terminates,   *)
(* too; or, as none of this is synchronised, the swap has read the old     *)
(* value before: then the other worker runs on, and nothing refers to it.  *)
StoreThread(t) ==
  /\ fault = "none" /\ pc[t] = "store"
  /\ \/ handle' = t /\ GoTo(t, "ready") /\ UNCHANGED fault
     \/ handle # None /\ Die("terminate") /\ UNCHANGED <<handle, pc>>
  /\ UNCHANGED <<queueVars, promise, worker, workerVars, scheduled, dtor>>

(* The client has waited for all its futures. *)
Answered(t) ==
  /\ pc[t] = "ready" /\ scheduled[t] > 0 /\ dtor # "destroyed"
  /\ \A i \in 1..scheduled[t] : promise[<<t, i>>] \in {"true", "false"}

(* commit() or abort(): stop_transaction(). *)
Stop(t) ==
  /\ fault = "none" /\ Answered(t)
  /\ IF running = t
       THEN running' = None /\ GoTo(t, "notifyStop") /\ UNCHANGED fault
       ELSE Die("insist") /\ UNCHANGED <<running, pc>>
  /\ UNCHANGED <<command_list, closed, promise, handle, worker, workerVars, scheduled, dtor>>

NotifyStop(t) ==
  /\ Alive /\ pc[t] = "notifyStop"
  /\ WakeWorker
  /\ GoTo(t, "done")
  /\ UNCHANGED <<queueVars, promise, handle, workerVars, scheduled, dtor>>

-----------------------------------------------------------------------------
(* The worker that u has started: schedule_thread() *)

(* The loop condition is_closed(). *)
TestClosed(u) ==
  /\ Alive /\ worker[u] = "test"
  /\ Step(u, IF closed THEN "exited" ELSE "pop")
  /\ UNCHANGED <<queueVars, promise, workerVars, clientVars, dtor>>

MayPopMutant == closed \/ command_list # <<>>
MayPop ==
  \/ closed
  \/ command_list # <<>> /\ (running = None \/ Txn(Head(command_list)) = running)

(* pop(): wait for the predicate, then take the first command if there is  *)
(* one.  Its transaction runs from now on.                                 *)
Sleep(u) ==
  /\ Alive /\ worker[u] = "pop" /\ ~MayPop
  /\ Step(u, "asleep")
  /\ UNCHANGED <<queueVars, promise, workerVars, clientVars, dtor>>

PopNothing(u) ==
  /\ Alive /\ worker[u] = "pop" /\ MayPop /\ command_list = <<>>
  /\ Step(u, "test")
  /\ UNCHANGED <<queueVars, promise, workerVars, clientVars, dtor>>

Pop(u) ==
  /\ Alive /\ worker[u] = "pop" /\ MayPop /\ command_list # <<>>
  /\ cur' = [cur EXCEPT ![u] = Head(command_list)]
  /\ command_list' = Tail(command_list)
  /\ running' = IF running = None THEN Txn(Head(command_list)) ELSE running
  /\ Step(u, "begin")
  /\ UNCHANGED <<closed, promise, start_time, next_start_time, log, outcome, clientVars, dtor>>

SpuriousWakeup(u) ==
  /\ Alive /\ worker[u] = "asleep"
  /\ Step(u, "pop")
  /\ UNCHANGED <<queueVars, promise, workerVars, clientVars, dtor>>

(* A transaction gets its start time with its first command.  Neither this *)
(* test nor the one in Transaction::start_time() is synchronised: of two   *)
(* workers with commands of one transaction the second fails the           *)
(* assertion, or has read the -1 before the first has written; the write   *)
(* of either may be the last one.  next_start_time is atomic.              *)
ReadStartTime(u) ==
  /\ Alive /\ worker[u] = "begin"
  /\ Step(u, IF start_time[Txn(cur[u])] = -1 THEN "stamp" ELSE "execute")
  /\ UNCHANGED <<queueVars, promise, workerVars, clientVars, dtor>>

NextStartTimeMutant == next_start_time - 1
NextStartTime == next_start_time + 1

Stamp(u) ==
  /\ fault = "none" /\ worker[u] = "stamp"
  /\ next_start_time' = NextStartTime
  /\ \/ /\ \/ start_time' = [start_time EXCEPT ![Txn(cur[u])] = next_start_time]
           \/ start_time[Txn(cur[u])] # -1 /\ UNCHANGED start_time
        /\ Step(u, "execute")
        /\ UNCHANGED fault
     \/ /\ start_time[Txn(cur[u])] # -1
        /\ Die("start_time")
        /\ UNCHANGED <<start_time, worker>>
  /\ UNCHANGED <<queueVars, promise, cur, log, outcome, clientVars, dtor>>

(* Errors of the parser or of Sema: the command does not execute. *)
Reject(u) ==
  /\ Alive /\ worker[u] = "execute"
  /\ outcome' = [outcome EXCEPT ![cur[u]] = "rejected"]
  /\ Step(u, "resolve")
  /\ UNCHANGED <<queueVars, promise, cur, start_time, next_start_time, log, clientVars, dtor>>

(* cmd->execute(diag): what it reports to diag is ignored, an exception is *)
(* caught by nobody.                                                       *)
Execute(u) ==
  /\ fault = "none" /\ worker[u] = "execute"
  /\ \E o \in ExecuteOutcomes :
       /\ outcome' = [outcome EXCEPT ![cur[u]] = o]
       /\ IF o = "throw" THEN Die("terminate") ELSE UNCHANGED fault
  /\ log' = Append(log, cur[u])
  /\ Step(u, "resolve")
  /\ UNCHANGED <<queueVars, promise, cur, start_time, next_start_time, clientVars, dtor>>

AnswerMutant(u) == "true"
Answer(u) == IF outcome[cur[u]] = "rejected" THEN "false" ELSE "true"

Resolve(u) ==
  /\ Alive /\ worker[u] = "resolve"
  /\ promise' = [promise EXCEPT ![cur[u]] = Answer(u)]
  /\ Step(u, "test") /\ cur' = [cur EXCEPT ![u] = NoCommand]
  /\ UNCHANGED <<queueVars, start_time, next_start_time, log, outcome, clientVars, dtor>>

-----------------------------------------------------------------------------
(* ~SerialScheduler() *)

NobodyInside == \A t \in Txns : pc[t] \in {"ready", "done"}
MayBegin     == Closing = "any"

(* The destructor of a scheduler that never started its worker. *)
DestroyUnused ==
  /\ Alive /\ dtor = "alive" /\ handle = None /\ MayBegin /\ NobodyInside
  /\ dtor' = "destroyed"
  /\ UNCHANGED <<queueVars, promise, worker, workerVars, clientVars>>

(* close(): no queued command will execute. *)
AnswerQueuedMutant == UNCHANGED promise
AnswerQueued ==
  promise' = [c \in Commands |-> IF Contains(command_list, c) THEN "false" ELSE promise[c]]

CloseMutant ==
  /\ Alive /\ dtor = "alive" /\ handle # None /\ MayBegin
  /\ closed' = TRUE /\ dtor' = "notify"
  /\ UNCHANGED <<command_list, promise, running, worker, workerVars, clientVars>>

Close ==
  /\ Alive /\ dtor = "alive" /\ handle # None /\ MayBegin
  /\ closed' = TRUE
  /\ AnswerQueued
  /\ command_list' = <<>>
  /\ dtor' = "notify"
  /\ UNCHANGED <<running, worker, workerVars, clientVars>>

NotifyClose ==
  /\ Alive /\ dtor = "notify"
  /\ WakeAll
  /\ dtor' = "join"
  /\ UNCHANGED <<queueVars, promise, workerVars, clientVars>>

(* Only the worker that schedule_thread_ refers to is joined. *)
Join ==
  /\ Alive /\ dtor = "join" /\ worker[handle] = "exited" /\ NobodyInside
  /\ dtor' = "destroyed"
  /\ UNCHANGED <<queueVars, promise, worker, workerVars, clientVars>>

-----------------------------------------------------------------------------

Client(t) ==
  \/ Push(t) \/ PushFaults(t) \/ NotifyPush(t)
  \/ CheckThread(t) \/ CreateThread(t) \/ AssignThread(t) \/ StoreThread(t)
  \/ Stop(t) \/ NotifyStop(t)

Worker(u) ==
  \/ TestClosed(u) \/ Sleep(u) \/ PopNothing(u) \/ Pop(u)
  \/ ReadStartTime(u) \/ Stamp(u) \/ Reject(u) \/ Execute(u) \/ Resolve(u)

Destructor == NotifyClose \/ Join

Next ==
  \/ \E t \in Txns : Client(t) \/ Worker(t) \/ SpuriousWakeup(t)
  \/ DestroyUnused \/ Close \/ Destructor

Spec == Init /\ [][Next]_vars

(* Threads are scheduled; nobody has to destroy the scheduler. *)
FairSpec ==
  /\ Spec /\ WF_vars(Destructor)
  /\ \A t \in Txns : WF_vars(Client(t)) /\ WF_vars(Worker(t))

-----------------------------------------------------------------------------
(* Properties *)

Labels       == {"ready", "notify", "check", "create", "assign", "store", "notifyStop", "done"}
Busy         == {"begin", "stamp", "execute", "resolve"}
WorkerLabels == {"none", "test", "pop", "asleep", "exited"} \cup Busy

(* The type of the state; a worker holds a command exactly while it        *)
(* processes one.                                                          *)
TypeOK ==
  /\ command_list \in Seq(Commands)
  /\ running \in Txns \cup {None} /\ closed \in BOOLEAN
  /\ promise \in [Commands -> {"none", "unset", "true", "false"}]
  /\ handle \in Txns \cup {None}
  /\ worker \in [Txns -> WorkerLabels]
  /\ cur \in [Txns -> Commands \cup {NoCommand}]
  /\ \A u \in Txns : cur[u] # NoCommand <=> worker[u] \in Busy
  /\ start_time \in [Txns -> Nat \cup {-1}] /\ next_start_time \in Nat
  /\ pc \in [Txns -> Labels]
  /\ scheduled \in [Txns -> Nat]
  /\ dtor \in {"alive", "notify", "join", "destroyed"}
  /\ log \in Seq(Commands)
  /\ outcome \in [Commands -> {"none", "rejected", "ok", "throw"}]
  /\ fault \in {"none", "sentinel", "terminate", "insist", "start_time"}

(* A client waits for an answer exactly as long as its command is queued   *)
(* or in the hands of a worker, and it is there once: no command gets      *)
(* lost or is queued or executed twice, however many workers there are.    *)
PromiseExact ==
  \A c \in Commands :
    LET places  == {k \in 1..Len(command_list) : command_list[k] = c}
        holders == {u \in Txns : cur[u] = c}
    IN
    /\ promise[c] = "unset" <=> places \cup holders # {}
    /\ \A k, l \in places : k = l
    /\ \A u, v \in holders : u = v
    /\ holders # {} => places = {}
    /\ \A k, l \in 1..Len(log) : log[k] = c /\ log[l] = c => k = l

(* An answer is final (a second set_value() would throw) and tells whether *)
(* the command executed: after "false" it never did and never will.        *)
AnswersFinal ==
  [][\A c \in Commands :
       /\ promise[c] \in {"true", "false"} => promise'[c] = promise[c]
       /\ promise'[c] = "true" => Contains(log', c)
       /\ promise'[c] = "false" => ~Contains(log', c)]_vars

(* The queue and the workers hold references to transactions, not copies:  *)
(* none of them is over, and none is stopped while its command runs.  Two  *)
(* workers never have commands of different transactions.                  *)
TransactionsAlive ==
  /\ running # None => pc[running] \notin {"notifyStop", "done"}
  /\ \A u \in Txns : cur[u] # NoCommand => running = Txn(cur[u])
  /\ \A k \in 1..Len(command_list) : pc[Txn(command_list[k])] \notin {"notifyStop", "done"}

(* Start times follow the order of execution, one for all the commands of  *)
(* a transaction: what a later transaction reads is never in its future.   *)
TimestampOrder ==
  \A k, l \in 1..Len(log) :
    /\ start_time[Txn(log[k])] # -1
    /\ k < l /\ Txn(log[k]) # Txn(log[l]) => start_time[Txn(log[k])] < start_time[Txn(log[l])]

(* SerialScheduler.hpp:62: the command that is being executed completes,   *)
(* queued ones are not executed once the queue is closed.                  *)
NothingPoppedAfterClose ==
  [][closed => \A u \in Txns : cur'[u] \in {cur[u], NoCommand}]_vars

(* Two workers have been started: two clients have found schedule_thread_  *)
(* without a thread before either of them had assigned its own.            *)
Several == \E u, v \in Txns : u # v /\ worker[u] # "none" /\ worker[v] # "none"

(* The transactions execute serially, and each in its order as long as     *)
(* there is one worker: see SerialExecution.                               *)
Serial == INSTANCE SerialExecution WITH
            current <- running, history <- log, overlapping <- Several,
            ended <- {t \in Txns : pc[t] \in {"notifyStop", "done"}}
ImplementsSerialExecution == Serial!Spec

(* The workers sleep on a head that it must not take while the running     *)
(* transaction, which its client cannot end before it has its answers, has *)
(* a command further back.  Insert() gets there if the search "differs".   *)
Starved ==
  /\ command_list # <<>> /\ running \notin {None, Txn(Head(command_list))}
  /\ \E k \in 1..Len(command_list) : Txn(command_list[k]) = running

(* Every future becomes ready, or the process dies, or the queue is        *)
(* starved by a misplaced command: no other wait is for ever.              *)
FuturesReady ==
  \A c \in Commands : promise[c] = "unset" ~> promise[c] # "unset" \/ fault # "none" \/ Starved

(* Once the destructor has begun it returns: its worker is woken up and    *)
(* leaves its loop, whatever it and a second worker were doing.            *)
DestructorReturns == dtor = "notify" ~> dtor = "destroyed" \/ fault # "none"

(* One worker is enough for all that could go wrong with two: unless two   *)
(* clients have started one each, no assignment terminates the process, a  *)
(* start time is set once, and the destructor returns after the last       *)
(* command.  An assertion of stop fails only under the destructor.         *)
OneWorkerSuffices ==
  /\ ~Several =>
       /\ fault = "terminate" => \E c \in Commands : outcome[c] = "throw"
       /\ fault # "start_time"
       /\ dtor = "destroyed" => \A u \in Txns : worker[u] \in {"none", "exited"}
  /\ fault = "insist" => dtor # "alive"

(* SerialScheduler.hpp:18: the command queue is "thread-safe".             *)
QueueIsThreadSafe == fault # "sentinel"

(* SerialScheduler.cpp:85: M_insist(&t == running_transaction_).           *)
StopsRunningTransaction == fault # "insist"

=============================================================================
