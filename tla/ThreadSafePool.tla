----------------------------- MODULE ThreadSafePool ----------------------------
(***************************************************************************)
(* PODPool<..., ThreadSafe = true> of include/mutable/util/Pool.hpp: a set *)
(* of interned entities that threads look up and extend concurrently.  A   *)
(* lookup holds a read lock; on a miss the same lock is upgraded and the   *)
(* entity is inserted at the iterator that find() returned before.         *)
(* ReaderWriterMutex provides the lock, taken through reader_writer_lock.  *)
(***************************************************************************)
EXTENDS Integers, FiniteSets

CONSTANTS
  Threads,
  Entities,    \* the values that are pooled
  NoEntity,    \* not an entity
  MaxProxies   \* bound: how many proxies of one entity a thread holds

ASSUME NoEntityAssumption == NoEntity \notin Entities
ASSUME MaxProxiesAssumption == MaxProxies \in Nat \ {0}

VARIABLES
  rw, phase, owns, refused,   \* table_mutex_ and the handles of the callers
  table,     \* the keys of table_
  count,     \* the reference counters of the entries
  pc,        \* where each caller is in operator()
  arg,       \* the argument of the call, NoEntity between calls
  missed,    \* the table as the find() of this iteration saw it: the hint
  proxies    \* proxies[t][e]: the Pooled instances of e that t holds

lockVars == <<rw, phase, owns, refused>>
vars == <<rw, phase, owns, refused, table, count, pc, arg, missed, proxies>>

M == INSTANCE ReaderWriterMutex WITH
       MayCall <- [t \in Threads |-> {"lock_read", "upgrade"}],
       Handle <- "reader_writer_lock"

(* The threads fit the counters of the lock. *)
ASSUME ThreadsAssumption == IsFiniteSet(Threads) /\ Cardinality(Threads) <= M!MaxU16

Init ==
  /\ M!Init
  /\ table = {}
  /\ count = [e \in Entities |-> 0]
  /\ pc = [t \in Threads |-> "idle"]
  /\ arg = [t \in Threads |-> NoEntity]
  /\ missed = [t \in Threads |-> {}]
  /\ proxies = [t \in Threads |-> [e \in Entities |-> 0]]

GoTo(t, l) == pc' = [pc EXCEPT ![t] = l]

(* The iterator lives for one iteration, the argument for one call. *)
ForgetHint(t) == missed' = [missed EXCEPT ![t] = {}]

(* Outside operator(), the notification of its unlock included. *)
Idle(t) == pc[t] = "idle" /\ phase[t] = "ready"

(* A definition named ...Mutant is a plausible bug in the definition that  *)
(* follows it: PROJECT.json names the property that each of them violates. *)
(* No action uses it.                                                      *)

(* A Pooled is constructed on an entry: its counter is incremented. *)
NewProxyMutant(t, e) ==
  /\ proxies' = [proxies EXCEPT ![t][e] = @ + 1]
  /\ UNCHANGED count

NewProxy(t, e) ==
  /\ proxies' = [proxies EXCEPT ![t][e] = @ + 1]
  /\ count' = [count EXCEPT ![e] = @ + 1]

-----------------------------------------------------------------------------
(* operator()(u) *)

Call(t, e) ==
  /\ Idle(t)
  /\ proxies[t][e] < MaxProxies
  /\ arg' = [arg EXCEPT ![t] = e]
  /\ GoTo(t, "lock")
  /\ UNCHANGED <<lockVars, table, count, missed, proxies>>

Lock(t) ==
  /\ pc[t] = "lock"
  /\ M!LockRead(t)
  /\ GoTo(t, "find")
  /\ UNCHANGED <<table, count, arg, missed, proxies>>

Find(t) ==
  /\ pc[t] = "find"
  /\ phase[t] = "ready"
  /\ IF arg[t] \in table
       THEN /\ NewProxy(t, arg[t])
            /\ GoTo(t, "unlock")
            /\ UNCHANGED missed
       ELSE /\ missed' = [missed EXCEPT ![t] = table]
            /\ GoTo(t, "upgrade")
            /\ UNCHANGED <<count, proxies>>
  /\ UNCHANGED <<lockVars, table, arg>>

(* The loop condition: on success go on to insert, otherwise the handle    *)
(* gives up its read lock and the loop starts over.                        *)
Upgrade(t) ==
  /\ pc[t] = "upgrade"
  /\ \/ M!Upgrade(t) /\ GoTo(t, "insert")
     \/ M!UpgradeRefused(t) /\ GoTo(t, "giveUp")
  /\ UNCHANGED <<table, count, arg, missed, proxies>>

GiveUp(t) ==
  /\ pc[t] = "giveUp"
  /\ M!UnlockRead(t)
  /\ GoTo(t, "lock")
  /\ ForgetHint(t)
  /\ UNCHANGED <<table, count, arg, proxies>>

(* emplace_hint(it, u, 0), then the proxy of the new entry.  An entry that *)
(* is there already is left alone.                                         *)
Insert(t) ==
  /\ pc[t] = "insert"
  /\ phase[t] = "ready"
  /\ table' = table \cup {arg[t]}
  /\ NewProxy(t, arg[t])
  /\ GoTo(t, "unlock")
  /\ UNCHANGED <<lockVars, arg, missed>>

(* The destructor of the handle, after the proxy was constructed. *)
Unlock(t) ==
  /\ pc[t] = "unlock"
  /\ M!UnlockRead(t) \/ M!UnlockWrite(t)
  /\ GoTo(t, "idle")
  /\ arg' = [arg EXCEPT ![t] = NoEntity]
  /\ ForgetHint(t)
  /\ UNCHANGED <<table, count, proxies>>

(* The rest of a lock call of t: tests after a wakeup, and notifications. *)
LockStep(t) ==
  /\ M!Retest(t) \/ M!NotifyWriter(t) \/ M!NotifyReaders(t)
  /\ UNCHANGED <<table, count, pc, arg, missed, proxies>>

SpuriousWakeup(t) ==
  /\ M!SpuriousWakeup(t)
  /\ UNCHANGED <<table, count, pc, arg, missed, proxies>>

(* A thread copies one of its Pooled for itself or for another thread,     *)
(* without any lock: the counter is atomic.                                *)
Copy(t, u, e) ==
  /\ Idle(t) /\ Idle(u)
  /\ proxies[t][e] > 0 /\ proxies[u][e] < MaxProxies
  /\ NewProxy(u, e)
  /\ UNCHANGED <<lockVars, table, pc, arg, missed>>

(* ~Pooled, without any lock.  The entry stays. *)
DropMutant(t, e) ==
  /\ Idle(t)
  /\ proxies' = [proxies EXCEPT ![t][e] = @ - 1]
  /\ count' = [count EXCEPT ![e] = @ - 1]
  /\ UNCHANGED <<lockVars, table, pc, arg, missed>>

Drop(t, e) ==
  /\ Idle(t)
  /\ proxies[t][e] > 0
  /\ proxies' = [proxies EXCEPT ![t][e] = @ - 1]
  /\ count' = [count EXCEPT ![e] = @ - 1]
  /\ UNCHANGED <<lockVars, table, pc, arg, missed>>

Proceed(t) ==
  \/ Lock(t) \/ Find(t) \/ Upgrade(t) \/ GiveUp(t) \/ Insert(t) \/ Unlock(t) \/ LockStep(t)

Next ==
  \E t \in Threads :
    \/ Proceed(t)
    \/ SpuriousWakeup(t)
    \/ \E e \in Entities :
         \/ Call(t, e) \/ Drop(t, e)
         \/ \E u \in Threads : Copy(t, u, e)

Spec == Init /\ [][Next]_vars

(* Callers that have entered operator() are scheduled; whether a thread    *)
(* calls again or drops a proxy is its own business.                       *)
FairSpec == Spec /\ \A t \in Threads : WF_vars(Proceed(t))

-----------------------------------------------------------------------------
(* Properties *)

Labels == {"idle", "lock", "find", "upgrade", "giveUp", "insert", "unlock"}

TypeOK ==
  /\ M!TypeOK
  /\ table \subseteq Entities
  /\ count \in [Entities -> Nat]
  /\ pc \in [Threads -> Labels]
  /\ arg \in [Threads -> Entities \cup {NoEntity}]
  /\ missed \in [Threads -> SUBSET Entities]
  /\ proxies \in [Threads -> [Entities -> 0..MaxProxies]]

(* The hint is still valid when it is used: from the find() that missed to *)
(* the emplace_hint() of the same call no other thread changes table_,     *)
(* although the caller sleeps in between.  The insertion then really adds  *)
(* a new entry, under the write lock (M_insist, Pool.hpp:344).             *)
HintValid ==
  \A t \in Threads :
    /\ pc[t] \in {"upgrade", "insert"} => missed[t] = table /\ arg[t] \notin table
    /\ pc[t] = "insert" /\ phase[t] = "ready" => owns[t] = "write"

(* find() and emplace_hint() never run concurrently on table_. *)
NoRace ==
  \A t, u \in Threads :
    t # u /\ pc[t] = "insert" /\ phase[t] = "ready" =>
      ~(pc[u] \in {"find", "insert"} /\ phase[u] = "ready")

(* The Pooled instances of e, numbered for each thread. *)
Pooled(e) == {p \in Threads \X (1..MaxProxies) : p[2] <= proxies[p[1]][e]}

(* Every proxy references an entry of the table, which counts its proxies: *)
(* no entry is dangling, none leaks.                                       *)
CountExact ==
  \A e \in Entities :
    /\ count[e] = Cardinality(Pooled(e))
    /\ count[e] > 0 => e \in table

(* The wakeups that unlock_read() and unlock_write() owe the sleepers of   *)
(* table_mutex_ are not lost, also if handles give up after a refusal.     *)
NoLostWakeup == M!NoLostWakeup

(* Every call of operator() returns, whatever others pool meanwhile: a     *)
(* refused upgrade retries only finitely often, and no wakeup is lost.     *)
CallsReturn == \A t \in Threads : ~Idle(t) ~> Idle(t)

=============================================================================
