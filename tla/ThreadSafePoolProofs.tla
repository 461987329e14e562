-------------------------- MODULE ThreadSafePoolProofs --------------------------
(***************************************************************************)
(* Proofs about ThreadSafePool for any threads that fit the counters of    *)
(* the lock, any entities and any bound on proxies.  What is known of the  *)
(* lock comes from ReaderWriterMutexProofs, instantiated for the pool.     *)
(***************************************************************************)
EXTENDS ThreadSafePool, FiniteSetTheorems, TLAPS

P == INSTANCE ReaderWriterMutexProofs WITH
       MayCall <- [t \in Threads |-> {"lock_read", "upgrade"}],
       Handle <- "reader_writer_lock"

WaitRead    == {"sleepR", "awakeR"}
WaitUpgrade == {"sleepU", "awakeU"}
Notifying   == {"notifyR", "notifyW"}

(* The inductive invariant.  HintValid alone is not inductive: that nobody *)
(* else inserts between find() and emplace_hint() follows from exclusion   *)
(* and from what a caller owns at each point of operator().                *)
PoolType ==
  /\ table \subseteq Entities
  /\ count \in [Entities -> Nat]
  /\ pc \in [Threads -> Labels]
  /\ arg \in [Threads -> Entities \cup {NoEntity}]
  /\ missed \in [Threads -> SUBSET Entities]
  /\ proxies \in [Threads -> [Entities -> 0..MaxProxies]]

(* What a caller owns at each point of operator(). *)
LockOwned(t) ==
  /\ pc[t] \in {"idle", "lock"} => owns[t] = "none" /\ phase[t] \in {"ready"} \cup Notifying
  /\ pc[t] = "find" =>
       \/ owns[t] = "none" /\ phase[t] \in WaitRead
       \/ owns[t] = "read" /\ phase[t] = "ready"
  /\ pc[t] = "upgrade" => owns[t] = "read" /\ phase[t] = "ready"
  /\ pc[t] = "insert" =>
       \/ owns[t] = "read" /\ phase[t] \in WaitUpgrade
       \/ owns[t] = "write" /\ phase[t] = "ready"
  /\ pc[t] = "giveUp" => owns[t] = "read" /\ phase[t] = "giveUp"
  /\ pc[t] = "unlock" => owns[t] \in {"read", "write"} /\ phase[t] = "ready"

(* What a call knows: its argument, room for its proxy, and the hint. *)
CallKnows(t) ==
  /\ pc[t] # "idle" => arg[t] \in Entities
  /\ pc[t] \notin {"idle", "unlock"} => proxies[t][arg[t]] < MaxProxies
  /\ pc[t] \in {"upgrade", "insert"} => missed[t] = table /\ arg[t] \notin table

Counted ==
  \A e \in Entities :
    /\ count[e] = Cardinality(Pooled(e))
    /\ \A t \in Threads : proxies[t][e] > 0 => e \in table

PInv ==
  /\ P!IInv
  /\ PoolType
  /\ \A t \in Threads : LockOwned(t) /\ CallKnows(t)
  /\ Counted

-----------------------------------------------------------------------------
(* The lock of the pool is the lock that the theorems are about. *)

(* The pool satisfies the assumptions of the lock. *)
LEMMA LockAssumptions == P!ThreadsAssumption /\ P!MayCallAssumption /\ P!HandleAssumption
BY ThreadsAssumption
   DEF IsFiniteSet, Cardinality, P!IsFiniteSet, P!Cardinality, M!MaxU16, P!MaxU16, P!Handles,
       P!Calls, P!ThreadsAssumption, P!MayCallAssumption, P!HandleAssumption

(* Every action of the pool's lock is one of the instantiated theory. *)
LEMMA SameCalls ==
  ASSUME NEW t \in Threads
  PROVE  /\ M!LockRead(t) => P!LockRead(t)
         /\ M!Upgrade(t) => P!Upgrade(t)
         /\ M!UpgradeRefused(t) => P!UpgradeRefused(t)
         /\ M!UnlockRead(t) => P!UnlockRead(t)
         /\ M!UnlockWrite(t) => P!UnlockWrite(t)
<1>1. M!LockRead(t) => P!LockRead(t)
  BY DEF M!LockRead, P!LockRead, M!Call, P!Call, M!ClaimRead, P!ClaimRead, M!RequestRead,
         P!RequestRead, M!CanAcquireRead, P!CanAcquireRead, M!AcquireRead, P!AcquireRead,
         M!Become, P!Become, M!Own, P!Own, M!Inc, P!Inc, M!Dec, P!Dec, M!MaxU16, P!MaxU16
<1>2. M!Upgrade(t) => P!Upgrade(t)
  BY DEF M!Upgrade, P!Upgrade, M!Call, P!Call, M!ClaimUpgrade, P!ClaimUpgrade,
         M!RequestUpgrade, P!RequestUpgrade, M!RequestWrite, P!RequestWrite, M!CanUpgrade,
         P!CanUpgrade, M!UpgradeLock, P!UpgradeLock, M!AcquireWrite, P!AcquireWrite,
         M!ReleaseRead, P!ReleaseRead,
         M!Become, P!Become, M!Own, P!Own, M!Inc, P!Inc, M!Dec, P!Dec, M!MaxU16, P!MaxU16
<1>3. M!UpgradeRefused(t) => P!UpgradeRefused(t)
  BY DEF M!UpgradeRefused, P!UpgradeRefused, M!Become, P!Become, M!Refusal, P!Refusal
<1>4. M!UnlockRead(t) => P!UnlockRead(t)
  BY DEF M!UnlockRead, P!UnlockRead, M!ReleaseRead, P!ReleaseRead, M!Become, P!Become, M!Own,
         P!Own, M!LastReaderNotifies, P!LastReaderNotifies, M!Dec, P!Dec, M!MaxU16, P!MaxU16
<1>5. M!UnlockWrite(t) => P!UnlockWrite(t)
  BY DEF M!UnlockWrite, P!UnlockWrite, M!ReleaseWrite, P!ReleaseWrite, M!Become, P!Become,
         M!Own, P!Own, M!WriterNotifies, P!WriterNotifies
<1> QED BY <1>1, <1>2, <1>3, <1>4, <1>5

(* So is every step inside a call, and every wakeup. *)
LEMMA SameSteps ==
  ASSUME NEW t \in Threads
  PROVE  /\ M!Retest(t) => P!Retest(t)
         /\ M!NotifyWriter(t) => P!NotifyWriter(t)
         /\ M!NotifyReaders(t) => P!NotifyReaders(t)
         /\ M!SpuriousWakeup(t) => P!SpuriousWakeup(t)
<1>1. M!Retest(t) => P!Retest(t)
  BY DEF M!Retest, P!Retest, M!ClaimRead, P!ClaimRead, M!ClaimWrite, P!ClaimWrite,
         M!ClaimUpgrade, P!ClaimUpgrade, M!CanAcquireRead, P!CanAcquireRead,
         M!CanAcquireWrite, P!CanAcquireWrite, M!CanUpgrade, P!CanUpgrade, M!AcquireRead,
         P!AcquireRead, M!AcquireWrite, P!AcquireWrite, M!UpgradeLock, P!UpgradeLock,
         M!ReleaseRead, P!ReleaseRead,
         M!Become, P!Become, M!Own, P!Own, M!Inc, P!Inc, M!Dec, P!Dec, M!MaxU16, P!MaxU16
<1>2. M!NotifyWriter(t) => P!NotifyWriter(t)
  BY DEF M!NotifyWriter, P!NotifyWriter, M!In, P!In, M!Become, P!Become, M!Awake, P!Awake
<1>3. M!NotifyReaders(t) => P!NotifyReaders(t)
  BY DEF M!NotifyReaders, P!NotifyReaders
<1>4. M!SpuriousWakeup(t) => P!SpuriousWakeup(t)
  BY DEF M!SpuriousWakeup, P!SpuriousWakeup, M!Become, P!Become, M!Awake, P!Awake
<1> QED BY <1>1, <1>2, <1>3, <1>4

(* A step of the pool is a step of its lock, or leaves the lock alone. *)
LEMMA StepOfLock == [Next]_vars => [P!Next]_lockVars
<1> SUFFICES ASSUME NEW t \in Threads,
                    \/ Proceed(t) \/ SpuriousWakeup(t)
                    \/ \E e \in Entities :
                         Call(t, e) \/ Drop(t, e) \/ \E u \in Threads : Copy(t, u, e)
             PROVE  [P!Next]_lockVars
  BY DEF Next, vars, lockVars
<1>1. CASE Proceed(t)
  BY <1>1, SameCalls, SameSteps
     DEF Proceed, Lock, Find, Upgrade, GiveUp, Insert, Unlock, LockStep, P!Next, P!Finish, lockVars
<1>2. CASE SpuriousWakeup(t)
  BY <1>2, SameSteps DEF SpuriousWakeup, P!Next
<1>3. CASE \E e \in Entities :
              Call(t, e) \/ Drop(t, e) \/ \E u \in Threads : Copy(t, u, e)
  BY <1>3 DEF Call, Drop, Copy
<1> QED BY <1>1, <1>2, <1>3

(* Hence the lock keeps its invariant. *)
LEMMA LockKept == P!IInv /\ [Next]_vars => P!IInv'
BY StepOfLock, P!StepPreservesIInv, LockAssumptions DEF lockVars, P!vars

(* The lock starts as the theory says. *)
LEMMA SameInit == M!Init => P!Init
BY DEF M!Init, P!Init

-----------------------------------------------------------------------------
(* What calls of the lock do to the phase and the handle of their caller. *)

Moves(t, p, h) ==
  /\ phase' = [phase EXCEPT ![t] = p]
  /\ owns' = [owns EXCEPT ![t] = h]

(* The handles and phases of the lock are what its theory says. *)
LEMMA LockType ==
  ASSUME PInv
  PROVE  /\ phase \in [Threads -> P!Phases]
         /\ owns \in [Threads -> {"none", "read", "write"}]
BY DEF PInv, P!IInv, P!TypeOK

(* A caller gets its lock at once, or sleeps. *)
LEMMA LockCalls ==
  ASSUME PInv, NEW t \in Threads
  PROVE  /\ M!LockRead(t) => Moves(t, "ready", "read") \/ Moves(t, "sleepR", "none")
         /\ M!Upgrade(t) => Moves(t, "ready", "write") \/ Moves(t, "sleepU", "read")
         /\ M!UpgradeRefused(t) => Moves(t, "giveUp", "read")
BY LockType
   DEF M!LockRead, M!ClaimRead, M!Upgrade, M!ClaimUpgrade, M!UpgradeRefused, M!Refusal,
       M!Call, M!Become, M!Own, Moves

(* A caller that unlocks owns nothing, and may have to notify. *)
LEMMA UnlockCalls ==
  ASSUME PInv, NEW t \in Threads, M!UnlockRead(t) \/ M!UnlockWrite(t)
  PROVE  \E p \in {"ready"} \cup Notifying : Moves(t, p, "none")
BY DEF M!UnlockRead, M!UnlockWrite, M!WriterNotifies, M!Become, M!Own, Moves, Notifying

(* A step inside a call of the lock, of t or by others: t has notified,    *)
(* goes on waiting, or gets what it waits for.                             *)
Progresses(t) ==
  \/ phase'[t] = phase[t] /\ owns'[t] = owns[t]
  \/ phase[t] \in Notifying /\ phase'[t] = "ready" /\ owns'[t] = owns[t]
  \/ phase[t] \in WaitRead /\ phase'[t] \in WaitRead /\ owns'[t] = owns[t]
  \/ phase[t] \in WaitRead /\ phase'[t] = "ready" /\ owns'[t] = "read"
  \/ phase[t] \in WaitUpgrade /\ phase'[t] \in WaitUpgrade /\ owns'[t] = owns[t]
  \/ phase[t] \in WaitUpgrade /\ phase'[t] = "ready" /\ owns'[t] = "write"

(* No caller of the pool waits for a plain write lock. *)
LEMMA NoPlainWriter ==
  ASSUME PInv, NEW t \in Threads
  PROVE  phase[t] \notin {"sleepW", "awakeW"}
BY DEF PInv, PoolType, Labels, LockOwned, WaitRead, WaitUpgrade, Notifying

LEMMA LockProgresses ==
  ASSUME PInv, NEW t \in Threads, NEW u \in Threads,
         M!Retest(t) \/ M!NotifyWriter(t) \/ M!NotifyReaders(t) \/ M!SpuriousWakeup(t)
  PROVE  Progresses(u)
<1> USE LockType DEF Progresses, WaitRead, WaitUpgrade, Notifying, M!Become, M!Own
<1>1. CASE M!Retest(t)
  BY <1>1, NoPlainWriter DEF M!Retest, M!ClaimRead, M!ClaimUpgrade
<1>2. CASE M!NotifyWriter(t)
  BY <1>2, NoPlainWriter DEF M!NotifyWriter, M!In, M!Awake
<1>3. CASE M!NotifyReaders(t)
  BY <1>3 DEF M!NotifyReaders
<1>4. CASE M!SpuriousWakeup(t)
  BY <1>4, NoPlainWriter DEF M!SpuriousWakeup, M!Awake
<1> QED BY <1>1, <1>2, <1>3, <1>4

-----------------------------------------------------------------------------
(* Counting proxies. *)

(* The proxies of an entity are finitely many. *)
LEMMA PooledFinite ==
  ASSUME NEW e
  PROVE  IsFiniteSet(Pooled(e)) /\ Cardinality(Pooled(e)) \in Nat
<1>1. IsFiniteSet(Threads \X (1..MaxProxies))
  <2>1. 1 \in Int /\ MaxProxies \in Int
    BY MaxProxiesAssumption
  <2>2. IsFiniteSet(1..MaxProxies)
    BY <2>1, FS_Interval
  <2> QED BY <2>2, ThreadsAssumption, FS_Product
<1>2. IsFiniteSet(Pooled(e))
  BY <1>1, FS_Subset DEF Pooled
<1> QED BY <1>2, FS_CardinalityType

(* A new proxy of t on e is one more in the set, and is counted. *)
LEMMA NewProxyCounted ==
  ASSUME PoolType, Counted, NEW t \in Threads, NEW e \in Entities,
         proxies[t][e] < MaxProxies, NewProxy(t, e), e \in table', table \subseteq table'
  PROVE  /\ count' \in [Entities -> Nat]
         /\ proxies' \in [Threads -> [Entities -> 0..MaxProxies]]
         /\ Counted'
<1> DEFINE n == proxies[t][e]
<1>1. n \in 0..MaxProxies /\ n + 1 \in 1..MaxProxies /\ MaxProxies \in Nat
  BY MaxProxiesAssumption DEF PoolType
<1>2. /\ proxies' \in [Threads -> [Entities -> 0..MaxProxies]]
      /\ proxies'[t][e] = n + 1
      /\ \A u \in Threads, x \in Entities : <<u, x>> # <<t, e>> => proxies'[u][x] = proxies[u][x]
  BY <1>1 DEF PoolType, NewProxy
<1>3. count' \in [Entities -> Nat] /\ count'[e] = count[e] + 1
      /\ \A x \in Entities \ {e} : count'[x] = count[x]
  BY DEF PoolType, NewProxy
<1>4. Pooled(e)' = Pooled(e) \cup {<<t, n + 1>>} /\ <<t, n + 1>> \notin Pooled(e)
  <2>1. ASSUME NEW u \in Threads, NEW i \in 1..MaxProxies
        PROVE  i <= proxies'[u][e] <=> i <= proxies[u][e] \/ (u = t /\ i = n + 1)
    <3>1. proxies[u][e] \in 0..MaxProxies
      BY DEF PoolType
    <3> QED BY <1>1, <1>2, <3>1
  <2>2. ~(n + 1 <= n)
    BY <1>1
  <2> QED BY <1>1, <2>1, <2>2 DEF Pooled
<1>5. ASSUME NEW x \in Entities \ {e} PROVE Pooled(x)' = Pooled(x)
  BY <1>2 DEF Pooled
<1>6. Cardinality(Pooled(e)') = Cardinality(Pooled(e)) + 1
  BY <1>4, PooledFinite, FS_AddElement
<1> QED BY <1>1, <1>2, <1>3, <1>5, <1>6 DEF Counted

(* A proxy that is dropped is one less. *)
LEMMA DropCounted ==
  ASSUME PoolType, Counted, NEW t \in Threads, NEW e \in Entities, Drop(t, e)
  PROVE  /\ count' \in [Entities -> Nat]
         /\ proxies' \in [Threads -> [Entities -> 0..MaxProxies]]
         /\ Counted'
<1> DEFINE n == proxies[t][e]
<1>1. n \in 1..MaxProxies /\ n - 1 \in 0..MaxProxies /\ MaxProxies \in Nat
  BY MaxProxiesAssumption DEF PoolType, Drop
<1>2. /\ proxies' \in [Threads -> [Entities -> 0..MaxProxies]]
      /\ proxies'[t][e] = n - 1
      /\ \A u \in Threads, x \in Entities : <<u, x>> # <<t, e>> => proxies'[u][x] = proxies[u][x]
  BY <1>1 DEF PoolType, Drop
<1>3. Pooled(e)' = Pooled(e) \ {<<t, n>>} /\ <<t, n>> \in Pooled(e)
  <2>1. ASSUME NEW u \in Threads, NEW i \in 1..MaxProxies
        PROVE  i <= proxies'[u][e] <=> i <= proxies[u][e] /\ ~(u = t /\ i = n)
    <3>1. proxies[u][e] \in 0..MaxProxies
      BY DEF PoolType
    <3> QED BY <1>1, <1>2, <3>1
  <2> QED BY <1>1, <2>1 DEF Pooled
<1>4. ASSUME NEW x \in Entities \ {e} PROVE Pooled(x)' = Pooled(x)
  BY <1>2 DEF Pooled
<1>5. LET rest == Pooled(e) \ {<<t, n>>}
      IN  IsFiniteSet(rest) /\ Cardinality(rest) = Cardinality(Pooled(e)) - 1
  BY <1>3, PooledFinite, FS_RemoveElement
<1>6. /\ Cardinality(Pooled(e)') = Cardinality(Pooled(e)) - 1
      /\ Cardinality(Pooled(e)') \in Nat
  BY <1>3, <1>5, FS_CardinalityType
<1>7. count' \in [Entities -> Nat] /\ count'[e] = count[e] - 1
      /\ \A x \in Entities \ {e} : count'[x] = count[x]
  BY <1>6 DEF PoolType, Drop, Counted
<1> QED BY <1>1, <1>2, <1>4, <1>6, <1>7 DEF Counted, Drop
-----------------------------------------------------------------------------
(* Every step preserves the inductive invariant. *)

Kept == PoolType /\ Counted /\ \A t \in Threads : LockOwned(t) /\ CallKnows(t)

(* What a caller knows survives steps of others that leave the table alone. *)
LEMMA OthersKept ==
  ASSUME PInv, NEW u \in Threads, table' = table, pc'[u] = pc[u], arg'[u] = arg[u],
         missed'[u] = missed[u], proxies'[u] = proxies[u], Progresses(u)
  PROVE  LockOwned(u)' /\ CallKnows(u)'
<1>1. LockOwned(u) /\ CallKnows(u) /\ pc[u] \in Labels
  BY DEF PInv, PoolType
<1>2. CallKnows(u)'
  BY <1>1 DEF CallKnows
<1>3. LockOwned(u)'
  BY <1>1 DEF LockOwned, Progresses, WaitRead, WaitUpgrade, Notifying, Labels
<1> QED BY <1>2, <1>3

(* A step of t that leaves the table and the proxies alone. *)
LEMMA CallerKept ==
  ASSUME PInv, NEW t \in Threads, NEW l \in Labels, GoTo(t, l),
         NEW p, NEW h, Moves(t, p, h) \/ UNCHANGED <<phase, owns>>,
         UNCHANGED <<table, count, proxies>>,
         arg' \in [Threads -> Entities \cup {NoEntity}],
         missed' \in [Threads -> SUBSET Entities],
         \A u \in Threads \ {t} : arg'[u] = arg[u] /\ missed'[u] = missed[u],
         LockOwned(t)', CallKnows(t)'
  PROVE  Kept'
<1>1. PoolType'
  BY DEF PInv, PoolType, GoTo
<1>2. Counted'
  BY DEF PInv, Counted, Pooled
<1>3. ASSUME NEW u \in Threads \ {t} PROVE LockOwned(u)' /\ CallKnows(u)'
  <2>1. phase'[u] = phase[u] /\ owns'[u] = owns[u]
    BY LockType DEF Moves
  <2>2. pc'[u] = pc[u]
    BY DEF PInv, PoolType, GoTo
  <2> QED BY <2>1, <2>2, OthersKept DEF Progresses
<1> QED BY <1>1, <1>2, <1>3 DEF Kept

(* A step that makes a proxy for t, and goes on to l. *)
LEMMA ProxyKept ==
  ASSUME PInv, NEW t \in Threads, NEW e \in Entities, proxies[t][e] < MaxProxies,
         NewProxy(t, e), table' = table, e \in table, UNCHANGED <<lockVars, arg, missed>>,
         \/ UNCHANGED pc /\ pc[t] = "idle"
         \/ GoTo(t, "unlock") /\ phase[t] = "ready" /\ owns[t] \in {"read", "write"}
             /\ arg[t] \in Entities
  PROVE  Kept'
<1>1. PoolType' /\ Counted'
  <2>1. pc' \in [Threads -> Labels]
    BY DEF PInv, PoolType, GoTo, Labels
  <2> QED BY <2>1, NewProxyCounted DEF PInv, PoolType
<1>2. ASSUME NEW u \in Threads \ {t} PROVE LockOwned(u)' /\ CallKnows(u)'
  <2>1. pc'[u] = pc[u] /\ proxies'[u] = proxies[u]
    BY DEF PInv, PoolType, GoTo, NewProxy
  <2> QED BY <2>1, OthersKept DEF Progresses, lockVars
<1>3. LockOwned(t)' /\ CallKnows(t)'
  BY DEF PInv, PoolType, GoTo, LockOwned, CallKnows, lockVars
<1> QED BY <1>1, <1>2, <1>3 DEF Kept

(* Nobody else knows anything of the table when t may write. *)
LEMMA WriterAlone ==
  ASSUME PInv, NEW t \in Threads, owns[t] = "write", NEW u \in Threads \ {t}
  PROVE  /\ owns[u] = "none"
         /\ pc[u] \notin {"upgrade", "insert"}
         /\ pc[u] = "find" => phase[u] # "ready"
<1>1. owns[u] = "none"
  BY DEF PInv, P!IInv, P!MutualExclusion
<1> QED BY <1>1 DEF PInv, LockOwned, WaitRead

LEMMA InsertKept ==
  ASSUME PInv, NEW t \in Threads, Insert(t)
  PROVE  Kept'
<1>1. /\ pc[t] = "insert" /\ phase[t] = "ready" /\ owns[t] = "write"
      /\ arg[t] \in Entities /\ proxies[t][arg[t]] < MaxProxies
  BY DEF PInv, LockOwned, CallKnows, Insert, WaitUpgrade
<1>2. PoolType' /\ Counted'
  <2>1. pc' \in [Threads -> Labels] /\ table' \subseteq Entities
    BY <1>1 DEF PInv, PoolType, Insert, GoTo, Labels
  <2> QED BY <1>1, <2>1, NewProxyCounted DEF PInv, PoolType, Insert
<1>3. ASSUME NEW u \in Threads \ {t} PROVE LockOwned(u)' /\ CallKnows(u)'
  <2>1. /\ pc'[u] = pc[u] /\ proxies'[u] = proxies[u] /\ arg'[u] = arg[u]
        /\ phase'[u] = phase[u] /\ owns'[u] = owns[u]
    BY DEF PInv, PoolType, Insert, GoTo, NewProxy, lockVars
  <2>2. pc[u] \notin {"upgrade", "insert"}
    BY <1>1, WriterAlone
  <2> QED BY <2>1, <2>2 DEF PInv, LockOwned, CallKnows
<1>4. LockOwned(t)' /\ CallKnows(t)'
  BY <1>1 DEF PInv, PoolType, Insert, GoTo, LockOwned, CallKnows, lockVars
<1> QED BY <1>2, <1>3, <1>4 DEF Kept

LEMMA StepKept ==
  ASSUME PInv, NEW t \in Threads
  PROVE  /\ Proceed(t) \/ SpuriousWakeup(t) => Kept'
         /\ \A e \in Entities :
              /\ Call(t, e) \/ Drop(t, e) => Kept'
              /\ \A u \in Threads : Copy(t, u, e) => Kept'
<1> USE DEF Labels
<1>0. PoolType /\ LockOwned(t) /\ CallKnows(t)
  BY DEF PInv
<1>1. ASSUME NEW e \in Entities, Call(t, e) PROVE Kept'
  <2>1. LockOwned(t)' /\ CallKnows(t)'
    BY <1>0, <1>1 DEF Call, Idle, GoTo, LockOwned, CallKnows, lockVars, PoolType
  <2> QED BY <1>0, <1>1, <2>1, CallerKept DEF Call, lockVars, PoolType
<1>2. ASSUME Lock(t) PROVE Kept'
  <2>1. PICK p \in {"ready", "sleepR"}, h \in {"read", "none"} :
               Moves(t, p, h) /\ (p = "ready" <=> h = "read")
    BY <1>2, LockCalls DEF Lock
  <2>2. LockOwned(t)' /\ CallKnows(t)'
    BY <1>0, <1>2, <2>1, LockType
       DEF Lock, Moves, GoTo, LockOwned, CallKnows, PoolType, WaitRead
  <2> QED BY <1>0, <1>2, <2>1, <2>2, CallerKept DEF Lock, PoolType
<1>3. ASSUME Find(t) PROVE Kept'
  <2>1. owns[t] = "read" /\ phase[t] = "ready" /\ arg[t] \in Entities
        /\ proxies[t][arg[t]] < MaxProxies
    BY <1>0, <1>3 DEF Find, LockOwned, CallKnows, WaitRead
  <2>2. CASE arg[t] \in table
    BY <1>3, <2>1, <2>2, ProxyKept DEF Find
  <2>3. CASE arg[t] \notin table
    <3>1. LockOwned(t)' /\ CallKnows(t)'
      BY <1>0, <1>3, <2>1, <2>3 DEF Find, GoTo, LockOwned, CallKnows, lockVars, PoolType
    <3> QED BY <1>0, <1>3, <2>3, <3>1, CallerKept DEF Find, lockVars, PoolType
  <2> QED BY <2>2, <2>3
<1>4. ASSUME Upgrade(t) PROVE Kept'
  <2>1. CASE M!Upgrade(t) /\ GoTo(t, "insert")
    <3>1. PICK p \in {"ready", "sleepU"}, h \in {"read", "write"} :
                 Moves(t, p, h) /\ (p = "ready" <=> h = "write")
      BY <2>1, LockCalls
    <3>2. LockOwned(t)' /\ CallKnows(t)'
      BY <1>0, <1>4, <2>1, <3>1, LockType
         DEF Upgrade, Moves, GoTo, LockOwned, CallKnows, PoolType, WaitUpgrade
    <3> QED BY <1>0, <1>4, <2>1, <3>1, <3>2, CallerKept DEF Upgrade, PoolType
  <2>2. CASE M!UpgradeRefused(t) /\ GoTo(t, "giveUp")
    <3>1. Moves(t, "giveUp", "read")
      BY <2>2, LockCalls
    <3>2. LockOwned(t)' /\ CallKnows(t)'
      BY <1>0, <1>4, <2>2, <3>1, LockType
         DEF Upgrade, Moves, GoTo, LockOwned, CallKnows, PoolType
    <3> QED BY <1>0, <1>4, <2>2, <3>1, <3>2, CallerKept DEF Upgrade, PoolType
  <2> QED BY <1>4, <2>1, <2>2 DEF Upgrade
<1>5. ASSUME GiveUp(t) PROVE Kept'
  <2>1. PICK p \in {"ready"} \cup Notifying : Moves(t, p, "none")
    BY <1>5, UnlockCalls DEF GiveUp
  <2>2. missed' \in [Threads -> SUBSET Entities]
        /\ \A u \in Threads \ {t} : missed'[u] = missed[u]
    BY <1>0, <1>5 DEF GiveUp, ForgetHint, PoolType
  <2>3. LockOwned(t)' /\ CallKnows(t)'
    BY <1>0, <1>5, <2>1, LockType
       DEF GiveUp, Moves, GoTo, LockOwned, CallKnows, PoolType, Notifying
  <2> QED BY <1>0, <1>5, <2>1, <2>2, <2>3, CallerKept DEF GiveUp, PoolType
<1>6. ASSUME Insert(t) PROVE Kept'
  BY <1>6, InsertKept
<1>7. ASSUME Unlock(t) PROVE Kept'
  <2>1. PICK p \in {"ready"} \cup Notifying : Moves(t, p, "none")
    BY <1>7, UnlockCalls DEF Unlock
  <2>2. /\ missed' \in [Threads -> SUBSET Entities]
        /\ arg' \in [Threads -> Entities \cup {NoEntity}]
        /\ \A u \in Threads \ {t} : missed'[u] = missed[u] /\ arg'[u] = arg[u]
    BY <1>0, <1>7 DEF Unlock, ForgetHint, PoolType
  <2>3. LockOwned(t)' /\ CallKnows(t)'
    BY <1>0, <1>7, <2>1, LockType
       DEF Unlock, Moves, GoTo, LockOwned, CallKnows, PoolType, Notifying
  <2> QED BY <1>7, <2>1, <2>2, <2>3, CallerKept DEF Unlock
<1>8. ASSUME LockStep(t) \/ SpuriousWakeup(t) PROVE Kept'
  <2>1. \A u \in Threads : LockOwned(u)' /\ CallKnows(u)'
    BY <1>8, LockProgresses, OthersKept DEF LockStep, SpuriousWakeup
  <2> QED BY <1>0, <1>8, <2>1 DEF LockStep, SpuriousWakeup, Kept, PInv, PoolType, Counted, Pooled
<1>9. ASSUME NEW e \in Entities, Drop(t, e) PROVE Kept'
  <2>1. PoolType' /\ Counted'
    BY <1>9, DropCounted DEF PInv, PoolType, Drop
  <2>2. ASSUME NEW u \in Threads \ {t} PROVE LockOwned(u)' /\ CallKnows(u)'
    <3>1. proxies'[u] = proxies[u]
      BY <1>0, <1>9 DEF Drop, PoolType
    <3> QED BY <1>9, <3>1, OthersKept DEF Drop, Progresses, lockVars
  <2>3. LockOwned(t)' /\ CallKnows(t)'
    BY <1>0, <1>9 DEF Drop, Idle, LockOwned, CallKnows, lockVars
  <2> QED BY <2>1, <2>2, <2>3 DEF Kept
<1>10. ASSUME NEW e \in Entities, NEW u \in Threads, Copy(t, u, e) PROVE Kept'
  <2>1. e \in table
    BY <1>10 DEF Copy, PInv, Counted
  <2> QED BY <1>10, <2>1, ProxyKept DEF Copy, Idle
<1> QED
  BY <1>1, <1>2, <1>3, <1>4, <1>5, <1>6, <1>7, <1>8, <1>9, <1>10 DEF Proceed

(* The inductive invariant is inductive. *)
LEMMA StepPreservesPInv == PInv /\ [Next]_vars => PInv'
<1> SUFFICES ASSUME PInv, [Next]_vars PROVE PInv'
  OBVIOUS
<1>1. P!IInv'
  BY LockKept DEF PInv
<1>2. Kept'
  <2>1. CASE Next
    <3>1. PICK t \in Threads :
            \/ Proceed(t) \/ SpuriousWakeup(t)
            \/ \E e \in Entities :
                 Call(t, e) \/ Drop(t, e) \/ \E u \in Threads : Copy(t, u, e)
      BY <2>1 DEF Next
    <3>2. CASE Proceed(t) \/ SpuriousWakeup(t)
      BY <3>2, StepKept
    <3>3. ASSUME NEW e \in Entities,
                 Call(t, e) \/ Drop(t, e) \/ \E u \in Threads : Copy(t, u, e)
          PROVE  Kept'
      BY <3>3, StepKept
    <3> QED BY <3>1, <3>2, <3>3
  <2>2. CASE UNCHANGED vars
    <3>1. PoolType' /\ \A e : Pooled(e)' = Pooled(e)
      BY <2>2 DEF vars, PInv, PoolType, Pooled
    <3>2. Counted'
      BY <2>2, <3>1 DEF vars, PInv, Counted
    <3>3. ASSUME NEW t \in Threads PROVE LockOwned(t)' /\ CallKnows(t)'
      BY <2>2, OthersKept DEF vars, Progresses
    <3> QED BY <3>1, <3>2, <3>3 DEF Kept
  <2> QED BY <2>1, <2>2
<1> QED BY <1>1, <1>2 DEF Kept, PInv

(* An empty pool satisfies it. *)
LEMMA InitPInv == Init => PInv
<1> SUFFICES ASSUME Init PROVE PInv
  OBVIOUS
<1>1. P!IInv
  BY SameInit, P!InitIInv, LockAssumptions DEF Init
<1>2. PoolType
  BY MaxProxiesAssumption DEF Init, PoolType, Labels
<1>3. Counted
  <2>1. ASSUME NEW e \in Entities PROVE Pooled(e) = {}
    BY DEF Init, Pooled
  <2> QED BY <2>1, FS_EmptySet DEF Init, Counted
<1>4. \A t \in Threads : LockOwned(t) /\ CallKnows(t)
  BY DEF Init, M!Init, LockOwned, CallKnows
<1> QED BY <1>1, <1>2, <1>3, <1>4 DEF PInv

-----------------------------------------------------------------------------
(* Theorems of the specification *)

(* PInv holds in every reachable state of the pool. *)
THEOREM PoolInvariance == Spec => []PInv
BY InitPInv, StepPreservesPInv, PTL DEF Spec

(* Lock, table, counters and hints stay well typed for any number of       *)
(* callers; no reference counter is ever decremented below zero.           *)
THEOREM PoolTyped == Spec => []TypeOK
<1>1. PInv => TypeOK
  <2>1. /\ M!MaxU16 = P!MaxU16 /\ M!Phases = P!Phases /\ M!WaitRead = P!WaitRead
        /\ M!WaitWrite = P!WaitWrite /\ M!WaitUpgrade = P!WaitUpgrade
    BY DEF M!MaxU16, P!MaxU16, M!Phases, P!Phases, M!WaitRead, P!WaitRead,
           M!WaitWrite, P!WaitWrite, M!WaitUpgrade, P!WaitUpgrade
  <2>2. P!TypeOK => M!TypeOK
    BY <2>1 DEF M!TypeOK, P!TypeOK
  <2> QED BY <2>2 DEF PInv, P!IInv, PoolType, TypeOK
<1> QED BY <1>1, PoolInvariance, PTL

(* The iterator that find() returned is valid when emplace_hint() uses it, *)
(* however long the caller waits for its upgrade.                          *)
THEOREM HintStaysValid == Spec => []HintValid
<1>1. PInv => HintValid
  BY DEF PInv, LockOwned, CallKnows, HintValid, WaitUpgrade
<1> QED BY <1>1, PoolInvariance, PTL

(* No two callers touch table_ at once when one of them changes it. *)
THEOREM TableNotRaced == Spec => []NoRace
<1>1. PInv => NoRace
  <2> SUFFICES ASSUME PInv, NEW t \in Threads, NEW u \in Threads \ {t},
                      pc[t] = "insert", phase[t] = "ready"
               PROVE  ~(pc[u] \in {"find", "insert"} /\ phase[u] = "ready")
    BY DEF NoRace
  <2>1. owns[t] = "write"
    BY DEF PInv, LockOwned, WaitUpgrade
  <2> QED BY <2>1, WriterAlone
<1> QED BY <1>1, PoolInvariance, PTL

(* Every reference counter is the number of proxies, and no proxy refers   *)
(* to an entry that is not in the table.                                   *)
THEOREM ReferencesCounted == Spec => []CountExact
<1>1. PInv => CountExact
  <2> SUFFICES ASSUME PInv, NEW e \in Entities, count[e] > 0, e \notin table PROVE FALSE
    BY DEF PInv, Counted, CountExact
  <2>1. Pooled(e) = {}
    <3>1. ASSUME NEW t \in Threads, NEW i \in 1..MaxProxies PROVE ~(i <= proxies[t][e])
      <4>1. proxies[t][e] \in 0..MaxProxies /\ ~(proxies[t][e] > 0)
        BY DEF PInv, PoolType, Counted
      <4> QED BY <4>1, MaxProxiesAssumption
    <3> QED BY <3>1 DEF Pooled
  <2>2. Cardinality(Pooled(e)) = 0
    BY <2>1, FS_EmptySet
  <2> QED BY <2>2 DEF PInv, Counted
<1> QED BY <1>1, PoolInvariance, PTL

(* The calls of operator() use the lock as its specification says, so that *)
(* all of its theorems hold for the pool.                                  *)
THEOREM LockUsed == Spec => P!Spec
<1>1. Init => P!Init
  BY SameInit DEF Init
<1>2. [Next]_vars => [P!Next]_(P!vars)
  BY StepOfLock DEF lockVars, P!vars
<1> QED BY <1>1, <1>2, PTL DEF Spec, P!Spec

(* No wakeup is lost: a pool has upgraders, and no plain writers next to   *)
(* them.                                                                   *)
THEOREM PoolWakeupsArrive == Spec => []NoLostWakeup
<1>1. P!WritersOrUpgraders
  BY DEF P!WritersOrUpgraders
<1>2. P!Spec => []P!NoLostWakeup
  BY <1>1, P!WakeupsArrive, LockAssumptions
<1>3. P!NoLostWakeup => NoLostWakeup
  BY DEF NoLostWakeup, M!NoLostWakeup, P!NoLostWakeup, M!In, P!In
<1> QED BY <1>2, <1>3, LockUsed, PTL
=============================================================================
