--------------------------- MODULE ReaderWriterMutex ---------------------------
(***************************************************************************)
(* The reader-writer mutex of include/mutable/util/reader_writer_lock.hpp: *)
(* the counters of reader_writer_mutex_internal, the blocking calls of     *)
(* reader_writer_mutex with their two condition variables, and the lock    *)
(* handles (reader_writer_lock, read_lock, write_lock, upgrade_lock) the   *)
(* clients hold.                                                           *)
(*                                                                         *)
(* Every critical section of mutex_ is one action.  A wait on a condition  *)
(* variable tests its predicate and goes to sleep in one action, because   *)
(* the C++ wait releases mutex_ and enters the wait set atomically.  The   *)
(* notification follows the release of mutex_ and is an action of its own. *)
(***************************************************************************)
EXTENDS Integers, FiniteSets

CONSTANTS
  Threads,   \* the threads that share the mutex
  MayCall,   \* MayCall[t]: the blocking and non-blocking calls t makes
  Handle     \* the handle that forwards upgrade(): see Handles

Calls == {"lock_read", "lock_write", "try_lock_read", "try_lock_write", "upgrade"}

(* reader_writer_lock gives its read lock up when upgrade() is refused,    *)
(* upgrade_lock returns an empty write_lock and keeps it.                  *)
Handles == {"reader_writer_lock", "upgrade_lock"}

MaxU16 == 65535   \* the counters are uint16_t

ASSUME ThreadsAssumption ==
  /\ IsFiniteSet(Threads)
  /\ Cardinality(Threads) <= MaxU16
ASSUME MayCallAssumption == MayCall \in [Threads -> SUBSET Calls]
ASSUME HandleAssumption == Handle \in Handles

VARIABLES
  rw,        \* rw_: the counters and flags guarded by mutex_
  phase,     \* where each thread is inside a call
  owns,      \* state_ / owns_lock_ of the thread's handle
  refused    \* the threads whose last call was an upgrade() that failed

vars == <<rw, phase, owns, refused>>

(* "sleep*" is membership in a wait set: sleepR in cv_readers_, sleepW and *)
(* sleepU both in cv_writers_.  "awake*" has left it and contends for      *)
(* mutex_.  "giveUp" is reader_writer_lock::upgrade() before its unlock(). *)
(* "notify*" is an unlock that released mutex_ and has yet to notify.      *)
Phases == {"ready", "sleepR", "awakeR", "sleepW", "awakeW", "sleepU", "awakeU",
           "giveUp", "notifyR", "notifyW"}

In(ps) == {t \in Threads : phase[t] \in ps}

-----------------------------------------------------------------------------
(* reader_writer_mutex_internal.  A definition named ...Mutant is a        *)
(* plausible bug in the definition that follows it: PROJECT.json names the *)
(* property that each of them violates.  No action uses it.                *)

Inc(n) == IF n = MaxU16 THEN 0 ELSE n + 1
Dec(n) == IF n = 0 THEN MaxU16 ELSE n - 1

RequestRead(r)  == [r EXCEPT !.readersWaiting = Inc(@)]
RequestWrite(r) == [r EXCEPT !.writersWaiting = Inc(@)]
RequestUpgradeMutant(r) == [r EXCEPT !.wantsUpgrade = TRUE]
RequestUpgrade(r) == [RequestWrite(r) EXCEPT !.wantsUpgrade = TRUE]

CanAcquireReadMutant(r)  == ~r.writerActive
CanAcquireWriteMutant(r) == ~r.writerActive
CanUpgradeMutant(r)      == ~r.writerActive /\ r.readersActive >= 1

CanAcquireRead(r)  == ~r.wantsUpgrade /\ ~r.writerActive /\ r.writersWaiting = 0
CanAcquireWrite(r) == ~r.writerActive /\ r.readersActive = 0
CanUpgrade(r)      == ~r.writerActive /\ r.readersActive = 1

AcquireRead(r)  == [r EXCEPT !.readersWaiting = Dec(@), !.readersActive = Inc(@)]
AcquireWrite(r) == [r EXCEPT !.writersWaiting = Dec(@), !.writerActive = TRUE]
ReleaseRead(r)  == [r EXCEPT !.readersActive = Dec(@)]
ReleaseWrite(r) == [r EXCEPT !.writerActive = FALSE]
UpgradeLockMutant(r) == AcquireWrite(ReleaseRead(r))
UpgradeLock(r)  == AcquireWrite(ReleaseRead([r EXCEPT !.wantsUpgrade = FALSE]))

-----------------------------------------------------------------------------
(* reader_writer_mutex, called through a handle *)

Init ==
  /\ rw = [readersWaiting |-> 0, writersWaiting |-> 0, readersActive |-> 0,
           writerActive |-> FALSE, wantsUpgrade |-> FALSE]
  /\ phase = [t \in Threads |-> "ready"]
  /\ owns = [t \in Threads |-> "none"]
  /\ refused = {}

(* A new call of t through a handle that owns h. *)
Call(t, c, h) ==
  /\ c \in MayCall[t]
  /\ phase[t] = "ready" /\ owns[t] = h
  /\ refused' = refused \ {t}

Become(t, p) == phase' = [phase EXCEPT ![t] = p]
Own(t, h)    == owns' = [owns EXCEPT ![t] = h]

(* The end of cv_readers_.wait(): claim the read lock, or sleep (again). *)
ClaimRead(t, r) ==
  \/ /\ CanAcquireRead(r)
     /\ rw' = AcquireRead(r) /\ Become(t, "ready") /\ Own(t, "read")
  \/ /\ ~CanAcquireRead(r)
     /\ rw' = r /\ Become(t, "sleepR") /\ UNCHANGED owns

ClaimWrite(t, r) ==
  \/ /\ CanAcquireWrite(r)
     /\ rw' = AcquireWrite(r) /\ Become(t, "ready") /\ Own(t, "write")
  \/ /\ ~CanAcquireWrite(r)
     /\ rw' = r /\ Become(t, "sleepW") /\ UNCHANGED owns

ClaimUpgrade(t, r) ==
  \/ /\ CanUpgrade(r)
     /\ rw' = UpgradeLock(r) /\ Become(t, "ready") /\ Own(t, "write")
  \/ /\ ~CanUpgrade(r)
     /\ rw' = r /\ Become(t, "sleepU") /\ UNCHANGED owns

LockRead(t)  == Call(t, "lock_read", "none") /\ ClaimRead(t, RequestRead(rw))
LockWrite(t) == Call(t, "lock_write", "none") /\ ClaimWrite(t, RequestWrite(rw))

(* A try_lock_* that returns false changes nothing. *)
TryLockRead(t) ==
  /\ Call(t, "try_lock_read", "none")
  /\ CanAcquireRead(rw)
  /\ rw' = AcquireRead(RequestRead(rw))
  /\ Own(t, "read") /\ UNCHANGED phase

TryLockWrite(t) ==
  /\ Call(t, "try_lock_write", "none")
  /\ CanAcquireWrite(rw)
  /\ rw' = AcquireWrite(RequestWrite(rw))
  /\ Own(t, "write") /\ UNCHANGED phase

Upgrade(t) ==
  /\ Call(t, "upgrade", "read")
  /\ ~rw.wantsUpgrade
  /\ ClaimUpgrade(t, RequestUpgrade(rw))

(* try_request_upgrade() refuses; the handle decides what happens next. *)
RefusalMutant == "ready"
Refusal == IF Handle = "reader_writer_lock" THEN "giveUp" ELSE "ready"

UpgradeRefused(t) ==
  /\ "upgrade" \in MayCall[t]
  /\ phase[t] = "ready" /\ owns[t] = "read"
  /\ rw.wantsUpgrade
  /\ Become(t, Refusal)
  /\ refused' = refused \cup {t}
  /\ UNCHANGED <<rw, owns>>

(* The woken thread has mutex_ again and tests the predicate of its wait. *)
Retest(t) ==
  /\ \/ phase[t] = "awakeR" /\ ClaimRead(t, rw)
     \/ phase[t] = "awakeW" /\ ClaimWrite(t, rw)
     \/ phase[t] = "awakeU" /\ ClaimUpgrade(t, rw)
  /\ UNCHANGED refused

(* An upgrader is waiting and is the last reader, or a writer is waiting   *)
(* and no reader is left.                                                  *)
LastReaderMutantU(r) == r.readersActive = 0 /\ r.writersWaiting # 0
LastReaderMutantW(r) == r.wantsUpgrade /\ r.readersActive = 1
LastReaderNotifies(r) ==
  \/ r.wantsUpgrade /\ r.readersActive = 1
  \/ r.readersActive = 0 /\ r.writersWaiting # 0

UnlockRead(t) ==
  /\ phase[t] \in {"ready", "giveUp"} /\ owns[t] = "read"
  /\ rw' = ReleaseRead(rw)
  /\ Own(t, "none")
  /\ Become(t, IF LastReaderNotifies(rw') THEN "notifyW" ELSE "ready")
  /\ UNCHANGED refused

(* The writer that leaves prefers writers. *)
WriterNotifiesMutant(r) == IF r.writersWaiting # 0 THEN "notifyW" ELSE "ready"
WriterNotifies(r) ==
  IF r.writersWaiting # 0 THEN "notifyW"
  ELSE IF r.readersWaiting # 0 THEN "notifyR" ELSE "ready"

UnlockWrite(t) ==
  /\ phase[t] = "ready" /\ owns[t] = "write"
  /\ rw' = ReleaseWrite(rw)
  /\ Own(t, "none")
  /\ Become(t, WriterNotifies(rw'))
  /\ UNCHANGED refused

AwakeMutant(p) == IF p = "sleepR" THEN "awakeR" ELSE "awakeW"
Awake(p) == CASE p = "sleepR" -> "awakeR"
              [] p = "sleepW" -> "awakeW"
              [] p = "sleepU" -> "awakeU"
              [] OTHER -> p

(* notify_writer(): notify_one on cv_writers_, no effect on an empty wait  *)
(* set.  Which sleeper wakes is not specified.                             *)
NotifyWriter(t) ==
  /\ phase[t] = "notifyW"
  /\ \/ /\ In({"sleepW", "sleepU"}) = {}
        /\ Become(t, "ready")
     \/ \E u \in In({"sleepW", "sleepU"}) :
          phase' = [phase EXCEPT ![t] = "ready", ![u] = Awake(@)]
  /\ UNCHANGED <<rw, owns, refused>>

(* notify_readers(): notify_all on cv_readers_. *)
NotifyReaders(t) ==
  /\ phase[t] = "notifyR"
  /\ phase' = [u \in Threads |-> IF u = t THEN "ready"
                                 ELSE IF phase[u] = "sleepR" THEN "awakeR"
                                 ELSE phase[u]]
  /\ UNCHANGED <<rw, owns, refused>>

(* std::condition_variable may wake a waiter without a notification. *)
SpuriousWakeup(t) ==
  /\ phase[t] \in {"sleepR", "sleepW", "sleepU"}
  /\ Become(t, Awake(phase[t]))
  /\ UNCHANGED <<rw, owns, refused>>

(* What a thread must do next once it is inside a call or a critical       *)
(* section of its own: these steps are fair.                               *)
Finish(t) ==
  \/ Retest(t)
  \/ UnlockRead(t)
  \/ UnlockWrite(t)
  \/ NotifyWriter(t)
  \/ NotifyReaders(t)

Next ==
  \E t \in Threads :
    \/ LockRead(t) \/ LockWrite(t) \/ TryLockRead(t) \/ TryLockWrite(t)
    \/ Upgrade(t) \/ UpgradeRefused(t)
    \/ Finish(t)
    \/ SpuriousWakeup(t)

Spec == Init /\ [][Next]_vars

FairSpec == Spec /\ \A t \in Threads : WF_vars(Finish(t))

-----------------------------------------------------------------------------
(* Properties *)

WaitRead    == {"sleepR", "awakeR"}
WaitWrite   == {"sleepW", "awakeW"}
WaitUpgrade == {"sleepU", "awakeU"}

Holding(h) == {t \in Threads : owns[t] = h}

(* The type of the state, and which handle states each phase of a call     *)
(* allows: an upgrader and a reader about to give up still own their read  *)
(* lock, a thread that waits for its first lock or notifies owns nothing.  *)
TypeOK ==
  /\ rw \in [readersWaiting : 0..MaxU16, writersWaiting : 0..MaxU16,
             readersActive : 0..MaxU16, writerActive : BOOLEAN, wantsUpgrade : BOOLEAN]
  /\ phase \in [Threads -> Phases]
  /\ owns \in [Threads -> {"none", "read", "write"}]
  /\ refused \subseteq Threads
  /\ \A t \in Threads :
       /\ phase[t] \in WaitUpgrade \cup {"giveUp"} => owns[t] = "read"
       /\ phase[t] \in WaitRead \cup WaitWrite \cup {"notifyR", "notifyW"} => owns[t] = "none"

(* A thread that owns the write lock owns it alone: no second writer and   *)
(* no reader, however calls, upgrades and wakeups interleave.              *)
MutualExclusion ==
  \A t, u \in Threads : t # u /\ owns[t] = "write" => owns[u] = "none"

(* The five fields of reader_writer_mutex_internal say exactly how many    *)
(* threads are in which situation.  Every predicate and every decision     *)
(* whom to notify reads these fields, never the threads.                   *)
CountersExact ==
  /\ rw.readersWaiting = Cardinality(In(WaitRead))
  /\ rw.writersWaiting = Cardinality(In(WaitWrite \cup WaitUpgrade))
  /\ rw.readersActive = Cardinality(Holding("read"))
  /\ rw.writerActive <=> Holding("write") # {}
  /\ rw.wantsUpgrade <=> In(WaitUpgrade) # {}
  /\ \A t, u \in In(WaitUpgrade) : t = u

(* The M_insist of the calls a thread can be about to finish: can_upgrade_ *)
(* lock, acquire_*_lock, release_*_lock, unlock_read and unlock_write.     *)
InsistsHold ==
  \A t \in Threads :
    /\ phase[t] \in WaitRead => rw.readersWaiting > 0
    /\ phase[t] \in WaitWrite => rw.writersWaiting > 0
    /\ phase[t] \in WaitUpgrade => rw.wantsUpgrade /\ rw.writersWaiting > 0
    /\ owns[t] = "read" =>
         /\ rw.readersActive > 0 /\ ~rw.writerActive
         /\ rw.wantsUpgrade => rw.writersWaiting > 0
    /\ owns[t] = "write" => rw.writerActive /\ rw.readersActive = 0

(* No lost wakeup: whenever a thread sleeps, someone still owns the lock   *)
(* or is on the way to wake it.  This is what the conditions under which   *)
(* unlock_read and unlock_write notify must guarantee.                     *)
NoLostWakeup ==
  /\ In({"sleepW"}) # {} =>
       rw.writerActive \/ rw.readersActive > 0 \/ In({"notifyW", "awakeW"}) # {}
  /\ In({"sleepU"}) # {} =>
       rw.readersActive > 1 \/ In({"notifyW", "awakeU"}) # {}
  /\ In({"sleepR"}) # {} =>
       rw.writerActive \/ rw.writersWaiting > 0 \/ In({"notifyR"}) # {}

(* It holds when cv_writers_ has one kind of sleeper: see UpgradeTerminates. *)
WritersOrUpgraders ==
  \/ \A t \in Threads : "upgrade" \notin MayCall[t]
  \/ \A t \in Threads : "lock_write" \notin MayCall[t]

(* While a writer waits no thread newly acquires a read lock: later        *)
(* readers queue behind it (unittest: "second writer was prioritized over  *)
(* second reader").                                                        *)
WritersFirst ==
  [][In(WaitWrite) # {} => \A t \in Threads : owns[t] = "none" => owns'[t] # "read"]_vars

(* While an upgrade is requested no thread at all newly acquires the lock  *)
(* before the upgrader: what it read stays current until it writes.        *)
UpgraderFirst ==
  [][In(WaitUpgrade) # {} => \A t \in Threads : owns[t] = "none" => owns'[t] = "none"]_vars

(* The promise of the mutex to its clients: see RWLock. *)
Lock == INSTANCE RWLock WITH holds <- owns
ImplementsRWLock == Lock!Spec

(* A waiting writer does not wait for nothing: some writer gets the lock.  *)
(* Which one is up to notify_one and to barging callers.  Without the      *)
(* premise a wakeup goes to the wrong sleeper: see UpgradeTerminates.      *)
WriterProgress ==
  [](In(WaitWrite) = {} \/ In(WaitUpgrade) = {})
    => In(WaitWrite) # {} ~> Holding("write") # {}

(* If writers and upgraders eventually stay away, every waiting reader is  *)
(* eventually let in.  Without the premise readers may starve.             *)
ReaderProgress ==
  <>[](Holding("write") = {} /\ In(WaitWrite \cup WaitUpgrade) = {})
    => \A t \in Threads : phase[t] \in WaitRead ~> owns[t] = "read"

(* reader_writer_lock.hpp:47, on try_request_upgrade(): "When request      *)
(* succeeds, upgrading afterwards is guaranteed to terminate eventually."  *)
UpgradeTerminates ==
  \A t \in Threads : phase[t] \in WaitUpgrade ~> owns[t] = "write"

(* reader_writer_lock.hpp:386 on upgrade_lock::upgrade(), and :285 on      *)
(* reader_writer_lock::upgrade(): on failure the held read lock is         *)
(* unlocked, so the caller of a refused upgrade() owns nothing.            *)
RefusedOwnsNothing ==
  \A t \in refused : phase[t] # "giveUp" => owns[t] = "none"

=============================================================================
