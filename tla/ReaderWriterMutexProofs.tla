------------------------ MODULE ReaderWriterMutexProofs ------------------------
(***************************************************************************)
(* Proofs about ReaderWriterMutex for every set of threads that fits the   *)
(* uint16_t counters, every choice of calls and both handles.              *)
(***************************************************************************)
EXTENDS ReaderWriterMutex, FiniteSetTheorems, TLAPS

(* The inductive invariant.  Mutual exclusion is not inductive by itself:  *)
(* the code decides on counters, so these must count the threads exactly.  *)
IInv == TypeOK /\ CountersExact /\ MutualExclusion

-----------------------------------------------------------------------------
(* Counting threads: the counters never wrap, because they count subsets   *)
(* of Threads.                                                             *)

(* MaxU16 stays folded below: only its being a positive number matters. *)
LEMMA MaxU16Type == MaxU16 \in Nat /\ MaxU16 > 0
BY SMT DEF MaxU16

(* The sizes the counters stand for are natural numbers that fit           *)
(* uint16_t.                                                               *)
LEMMA CardType ==
  ASSUME NEW S \in SUBSET Threads
  PROVE  /\ IsFiniteSet(S)
         /\ Cardinality(S) \in 0..MaxU16
         /\ Cardinality(S) = 0 <=> S = {}
<1>1. IsFiniteSet(S) /\ Cardinality(S) <= Cardinality(Threads)
  BY FS_Subset, ThreadsAssumption
<1>2. Cardinality(S) \in Nat /\ Cardinality(Threads) \in Nat
  BY <1>1, FS_CardinalityType, ThreadsAssumption
<1>3. Cardinality(S) = 0 <=> S = {}
  BY <1>1, FS_EmptySet
<1> QED BY <1>1, <1>2, <1>3, MaxU16Type, ThreadsAssumption, SMT

(* Adding a thread to a set of threads adds one to its size. *)
LEMMA CardAdd ==
  ASSUME NEW S \in SUBSET Threads, NEW t \in Threads, t \notin S
  PROVE  Cardinality(S \cup {t}) = Inc(Cardinality(S))
<1>1. Cardinality(S \cup {t}) = Cardinality(S) + 1
  BY CardType, FS_AddElement
<1>2. S \cup {t} \in SUBSET Threads
  OBVIOUS
<1>3. Cardinality(S \cup {t}) \in 0..MaxU16 /\ Cardinality(S) \in 0..MaxU16
  BY <1>2, CardType
<1> QED BY <1>1, <1>3, MaxU16Type, SMT DEF Inc

(* Removing a thread from a set of threads takes one from its size. *)
LEMMA CardRemove ==
  ASSUME NEW S \in SUBSET Threads, NEW t \in S
  PROVE  Cardinality(S \ {t}) = Dec(Cardinality(S)) /\ Cardinality(S) > 0
<1>1. Cardinality(S \ {t}) = Cardinality(S) - 1
  BY CardType, FS_RemoveElement
<1>2. S \ {t} \in SUBSET Threads
  OBVIOUS
<1>3. Cardinality(S \ {t}) \in 0..MaxU16 /\ Cardinality(S) \in 0..MaxU16
  BY <1>2, CardType
<1> QED BY <1>1, <1>3, MaxU16Type, SMT DEF Dec

(* A set of threads with one member has size one. *)
LEMMA CardOne ==
  ASSUME NEW S \in SUBSET Threads, NEW t \in S
  PROVE  Cardinality(S) = 1 <=> S = {t}
<1>1. Cardinality(S) = 1 <=> \E x : S = {x}
  BY CardType, FS_Singleton
<1> QED BY <1>1

(* Within their bounds the counters count without wrapping around. *)
LEMMA IncDec ==
  ASSUME NEW n \in 0..MaxU16
  PROVE  Dec(Inc(n)) = n /\ Inc(n) \in 0..MaxU16 /\ Dec(n) \in 0..MaxU16
BY MaxU16Type, SMT DEF Inc, Dec

-----------------------------------------------------------------------------
(* How a step of one thread moves the sets the counters count. *)

(* How In changes if one thread moves to another phase. *)
LEMMA PhaseMove ==
  ASSUME TypeOK, NEW t \in Threads, NEW p \in Phases, Become(t, p), NEW CONSTANT ps
  PROVE  /\ In(ps)' = IF p \in ps THEN In(ps) \cup {t} ELSE In(ps) \ {t}
         /\ phase' \in [Threads -> Phases]
         /\ phase'[t] = p
         /\ \A u \in Threads \ {t} : phase'[u] = phase[u]
BY DEF TypeOK, Become, In

(* How Holding changes if the handle of one thread changes. *)
LEMMA OwnMove ==
  ASSUME TypeOK, NEW t \in Threads, NEW h \in {"none", "read", "write"}, Own(t, h),
         NEW CONSTANT g
  PROVE  /\ Holding(g)' = IF h = g THEN Holding(g) \cup {t} ELSE Holding(g) \ {t}
         /\ owns' \in [Threads -> {"none", "read", "write"}]
         /\ owns'[t] = h
         /\ \A u \in Threads \ {t} : owns'[u] = owns[u]
BY DEF TypeOK, Own, Holding

(* In and Holding are sets of threads. *)
LEMMA Subsets ==
  /\ \A ps : In(ps) \in SUBSET Threads
  /\ \A h : Holding(h) \in SUBSET Threads
BY DEF In, Holding

-----------------------------------------------------------------------------
(* The kinds of step that change the counters.  Each lemma takes the part  *)
(* of the action that matters to the counters and preserves IInv.          *)

(* A thread gets a read lock, at once or after waiting for it. *)
LEMMA GrantRead ==
  ASSUME IInv, NEW t \in Threads, owns[t] = "none", phase[t] \in {"ready", "awakeR"},
         CanAcquireRead(rw),
         rw' = [readersWaiting |-> IF phase[t] = "awakeR" THEN Dec(rw.readersWaiting)
                                   ELSE rw.readersWaiting,
                writersWaiting |-> rw.writersWaiting,
                readersActive |-> Inc(rw.readersActive),
                writerActive |-> rw.writerActive,
                wantsUpgrade |-> rw.wantsUpgrade],
         Become(t, "ready"), Own(t, "read"), refused' \subseteq Threads
  PROVE  IInv'
<1> USE DEF IInv
<1>1. /\ Holding("read")' = Holding("read") \cup {t} /\ t \notin Holding("read")
      /\ Holding("write")' = Holding("write")
  BY OwnMove DEF Holding
<1>2. /\ In(WaitRead)' = IF phase[t] = "awakeR" THEN In(WaitRead) \ {t} ELSE In(WaitRead)
      /\ phase[t] = "awakeR" => t \in In(WaitRead)
      /\ In(WaitWrite \cup WaitUpgrade)' = In(WaitWrite \cup WaitUpgrade)
      /\ In(WaitUpgrade)' = In(WaitUpgrade)
  <2>1. "ready" \in Phases
    BY DEF Phases
  <2> QED BY <2>1, PhaseMove DEF In, WaitRead, WaitWrite, WaitUpgrade
<1>3. Cardinality(Holding("read")') = Inc(Cardinality(Holding("read")))
  BY <1>1, CardAdd, Subsets
<1>4. phase[t] = "awakeR" => Cardinality(In(WaitRead)') = Dec(Cardinality(In(WaitRead)))
  BY <1>2, CardRemove, Subsets
<1>5. rw' \in [readersWaiting : 0..MaxU16, writersWaiting : 0..MaxU16,
              readersActive : 0..MaxU16, writerActive : BOOLEAN, wantsUpgrade : BOOLEAN]
  BY IncDec DEF TypeOK
<1>6. CountersExact'
  BY <1>1, <1>2, <1>3, <1>4, <1>5 DEF CountersExact
<1>7. TypeOK'
  BY <1>5 DEF TypeOK, Become, Own, Phases, WaitRead, WaitWrite, WaitUpgrade
<1>8. Holding("write") = {}
  BY DEF CanAcquireRead, CountersExact
<1>9. MutualExclusion'
  BY <1>8, OwnMove DEF MutualExclusion, Holding
<1> QED BY <1>6, <1>7, <1>9
(* A thread gets the write lock, at once or after waiting for it. *)
LEMMA GrantWrite ==
  ASSUME IInv, NEW t \in Threads, owns[t] = "none", phase[t] \in {"ready", "awakeW"},
         CanAcquireWrite(rw),
         rw' = [readersWaiting |-> rw.readersWaiting,
                writersWaiting |-> IF phase[t] = "awakeW" THEN Dec(rw.writersWaiting)
                                   ELSE rw.writersWaiting,
                readersActive |-> rw.readersActive,
                writerActive |-> TRUE,
                wantsUpgrade |-> rw.wantsUpgrade],
         Become(t, "ready"), Own(t, "write"), refused' \subseteq Threads
  PROVE  IInv'
<1> USE DEF IInv
<1>1. /\ Holding("read")' = Holding("read")
      /\ Holding("write")' = Holding("write") \cup {t}
  BY OwnMove DEF Holding
<1>2. /\ In(WaitRead)' = In(WaitRead)
      /\ In(WaitWrite \cup WaitUpgrade)' = IF phase[t] = "awakeW"
                                           THEN In(WaitWrite \cup WaitUpgrade) \ {t}
                                           ELSE In(WaitWrite \cup WaitUpgrade)
      /\ phase[t] = "awakeW" => t \in In(WaitWrite \cup WaitUpgrade)
      /\ In(WaitUpgrade)' = In(WaitUpgrade)
  <2>1. "ready" \in Phases
    BY DEF Phases
  <2> QED BY <2>1, PhaseMove DEF In, WaitRead, WaitWrite, WaitUpgrade
<1>3. phase[t] = "awakeW" => Cardinality(In(WaitWrite \cup WaitUpgrade)')
                               = Dec(Cardinality(In(WaitWrite \cup WaitUpgrade)))
  BY <1>2, CardRemove, Subsets
<1>4. rw' \in [readersWaiting : 0..MaxU16, writersWaiting : 0..MaxU16,
              readersActive : 0..MaxU16, writerActive : BOOLEAN, wantsUpgrade : BOOLEAN]
  BY IncDec DEF TypeOK
<1>5. CountersExact'
  BY <1>1, <1>2, <1>3 DEF CountersExact
<1>6. TypeOK'
  BY <1>4 DEF TypeOK, Become, Own, Phases, WaitRead, WaitWrite, WaitUpgrade
<1>7. Holding("write") = {} /\ Holding("read") = {}
  BY CardType, Subsets DEF CanAcquireWrite, CountersExact
<1>8. MutualExclusion'
  BY <1>7, OwnMove DEF MutualExclusion, Holding, TypeOK
<1> QED BY <1>5, <1>6, <1>8

(* The last reader turns its read lock into the write lock. *)
LEMMA GrantUpgrade ==
  ASSUME IInv, NEW t \in Threads, owns[t] = "read", phase[t] \in {"ready", "awakeU"},
         phase[t] = "ready" => ~rw.wantsUpgrade,
         CanUpgrade(rw),
         rw' = [readersWaiting |-> rw.readersWaiting,
                writersWaiting |-> IF phase[t] = "awakeU" THEN Dec(rw.writersWaiting)
                                   ELSE rw.writersWaiting,
                readersActive |-> Dec(rw.readersActive),
                writerActive |-> TRUE,
                wantsUpgrade |-> FALSE],
         Become(t, "ready"), Own(t, "write"), refused' \subseteq Threads
  PROVE  IInv'
<1> USE DEF IInv
<1>1. /\ Holding("read")' = Holding("read") \ {t} /\ t \in Holding("read")
      /\ Holding("write")' = Holding("write") \cup {t}
  BY OwnMove DEF Holding
<1>2. /\ In(WaitRead)' = In(WaitRead)
      /\ In(WaitWrite \cup WaitUpgrade)' = IF phase[t] = "awakeU"
                                           THEN In(WaitWrite \cup WaitUpgrade) \ {t}
                                           ELSE In(WaitWrite \cup WaitUpgrade)
      /\ phase[t] = "awakeU" => t \in In(WaitWrite \cup WaitUpgrade)
      /\ In(WaitUpgrade)' = In(WaitUpgrade) \ {t}
      /\ phase[t] = "awakeU" => t \in In(WaitUpgrade)
  <2>1. "ready" \in Phases
    BY DEF Phases
  <2> QED BY <2>1, PhaseMove DEF In, WaitRead, WaitWrite, WaitUpgrade
<1>3. /\ Cardinality(Holding("read")') = Dec(Cardinality(Holding("read")))
      /\ phase[t] = "awakeU" => Cardinality(In(WaitWrite \cup WaitUpgrade)')
                                  = Dec(Cardinality(In(WaitWrite \cup WaitUpgrade)))
  BY <1>1, <1>2, CardRemove, Subsets
<1>4. rw' \in [readersWaiting : 0..MaxU16, writersWaiting : 0..MaxU16,
              readersActive : 0..MaxU16, writerActive : BOOLEAN, wantsUpgrade : BOOLEAN]
  BY IncDec DEF TypeOK
<1>5. In(WaitUpgrade)' = {}
  BY <1>2 DEF CountersExact
<1>6. CountersExact'
  BY <1>1, <1>2, <1>3, <1>5 DEF CountersExact
<1>7. TypeOK'
  BY <1>4 DEF TypeOK, Become, Own, Phases, WaitRead, WaitWrite, WaitUpgrade
<1>8. Holding("write") = {} /\ Holding("read") = {t}
  BY <1>1, CardOne, Subsets DEF CanUpgrade, CountersExact
<1>9. MutualExclusion'
  BY <1>8, OwnMove DEF MutualExclusion, Holding, TypeOK
<1> QED BY <1>6, <1>7, <1>9
(* A fresh request goes to sleep: the waiting counters grow. *)
LEMMA FallAsleep ==
  ASSUME IInv, NEW t \in Threads, phase[t] = "ready",
         NEW p \in {"sleepR", "sleepW", "sleepU"},
         p = "sleepU" => owns[t] = "read" /\ ~rw.wantsUpgrade,
         p # "sleepU" => owns[t] = "none",
         rw' = [readersWaiting |-> IF p = "sleepR" THEN Inc(rw.readersWaiting)
                                   ELSE rw.readersWaiting,
                writersWaiting |-> IF p = "sleepR" THEN rw.writersWaiting
                                   ELSE Inc(rw.writersWaiting),
                readersActive |-> rw.readersActive,
                writerActive |-> rw.writerActive,
                wantsUpgrade |-> p = "sleepU" \/ rw.wantsUpgrade],
         Become(t, p), owns' = owns, refused' \subseteq Threads
  PROVE  IInv'
<1> USE DEF IInv
<1>1. Holding("read")' = Holding("read") /\ Holding("write")' = Holding("write")
  BY DEF Holding
<1>2. /\ In(WaitRead)' = IF p = "sleepR" THEN In(WaitRead) \cup {t} ELSE In(WaitRead)
      /\ In(WaitWrite \cup WaitUpgrade)' = IF p = "sleepR" THEN In(WaitWrite \cup WaitUpgrade)
                                           ELSE In(WaitWrite \cup WaitUpgrade) \cup {t}
      /\ In(WaitUpgrade)' = IF p = "sleepU" THEN In(WaitUpgrade) \cup {t} ELSE In(WaitUpgrade)
      /\ t \notin In(WaitRead) /\ t \notin In(WaitWrite \cup WaitUpgrade)
  <2>1. p \in Phases
    BY DEF Phases
  <2> QED BY <2>1, PhaseMove DEF In, WaitRead, WaitWrite, WaitUpgrade
<1>3. /\ p = "sleepR" => Cardinality(In(WaitRead)') = Inc(Cardinality(In(WaitRead)))
      /\ p # "sleepR" => Cardinality(In(WaitWrite \cup WaitUpgrade)')
                           = Inc(Cardinality(In(WaitWrite \cup WaitUpgrade)))
  BY <1>2, CardAdd, Subsets
<1>4. rw' \in [readersWaiting : 0..MaxU16, writersWaiting : 0..MaxU16,
              readersActive : 0..MaxU16, writerActive : BOOLEAN, wantsUpgrade : BOOLEAN]
  BY IncDec DEF TypeOK
<1>5. CountersExact'
  BY <1>1, <1>2, <1>3 DEF CountersExact
<1>6. TypeOK'
  BY <1>4 DEF TypeOK, Become, Phases, WaitRead, WaitWrite, WaitUpgrade
<1>7. MutualExclusion'
  BY DEF MutualExclusion
<1> QED BY <1>5, <1>6, <1>7

(* A reader leaves, whatever it does next outside the waiting phases. *)
LEMMA LeaveRead ==
  ASSUME IInv, NEW t \in Threads, owns[t] = "read", phase[t] \in {"ready", "giveUp"},
         NEW p \in {"ready", "notifyW"},
         rw' = [readersWaiting |-> rw.readersWaiting,
                writersWaiting |-> rw.writersWaiting,
                readersActive |-> Dec(rw.readersActive),
                writerActive |-> rw.writerActive,
                wantsUpgrade |-> rw.wantsUpgrade],
         Become(t, p), Own(t, "none"), refused' \subseteq Threads
  PROVE  IInv'
<1> USE DEF IInv
<1>1. /\ Holding("read")' = Holding("read") \ {t} /\ t \in Holding("read")
      /\ Holding("write")' = Holding("write")
  BY OwnMove DEF Holding
<1>2. /\ In(WaitRead)' = In(WaitRead)
      /\ In(WaitWrite \cup WaitUpgrade)' = In(WaitWrite \cup WaitUpgrade)
      /\ In(WaitUpgrade)' = In(WaitUpgrade)
  <2>1. p \in Phases
    BY DEF Phases
  <2> QED BY <2>1, PhaseMove DEF In, WaitRead, WaitWrite, WaitUpgrade
<1>3. Cardinality(Holding("read")') = Dec(Cardinality(Holding("read")))
  BY <1>1, CardRemove, Subsets
<1>4. rw' \in [readersWaiting : 0..MaxU16, writersWaiting : 0..MaxU16,
              readersActive : 0..MaxU16, writerActive : BOOLEAN, wantsUpgrade : BOOLEAN]
  BY IncDec DEF TypeOK
<1>5. CountersExact'
  BY <1>1, <1>2, <1>3 DEF CountersExact
<1>6. TypeOK'
  BY <1>4 DEF TypeOK, Become, Own, Phases, WaitRead, WaitWrite, WaitUpgrade
<1>7. MutualExclusion'
  BY OwnMove DEF MutualExclusion, TypeOK
<1> QED BY <1>5, <1>6, <1>7

(* Releasing the write lock keeps the counters exact. *)
LEMMA LeaveWrite ==
  ASSUME IInv, NEW t \in Threads, owns[t] = "write", phase[t] = "ready",
         NEW p \in {"ready", "notifyW", "notifyR"},
         rw' = [readersWaiting |-> rw.readersWaiting,
                writersWaiting |-> rw.writersWaiting,
                readersActive |-> rw.readersActive,
                writerActive |-> FALSE,
                wantsUpgrade |-> rw.wantsUpgrade],
         Become(t, p), Own(t, "none"), refused' \subseteq Threads
  PROVE  IInv'
<1> USE DEF IInv
<1>1. /\ Holding("read")' = Holding("read")
      /\ Holding("write")' = Holding("write") \ {t}
  BY OwnMove DEF Holding
<1>2. /\ In(WaitRead)' = In(WaitRead)
      /\ In(WaitWrite \cup WaitUpgrade)' = In(WaitWrite \cup WaitUpgrade)
      /\ In(WaitUpgrade)' = In(WaitUpgrade)
  <2>1. p \in Phases
    BY DEF Phases
  <2> QED BY <2>1, PhaseMove DEF In, WaitRead, WaitWrite, WaitUpgrade
<1>3. Holding("write")' = {}
  BY <1>1 DEF MutualExclusion, Holding
<1>4. rw' \in [readersWaiting : 0..MaxU16, writersWaiting : 0..MaxU16,
              readersActive : 0..MaxU16, writerActive : BOOLEAN, wantsUpgrade : BOOLEAN]
  BY DEF TypeOK
<1>5. CountersExact'
  BY <1>1, <1>2, <1>3 DEF CountersExact
<1>6. TypeOK'
  BY <1>4 DEF TypeOK, Become, Own, Phases, WaitRead, WaitWrite, WaitUpgrade
<1>7. MutualExclusion'
  BY OwnMove DEF MutualExclusion, TypeOK
<1> QED BY <1>5, <1>6, <1>7

(* Falling asleep again, waking, notifying and a refused upgrade move      *)
(* threads between phases that count alike.                                *)
LEMMA SameCounts ==
  ASSUME IInv, rw' = rw, owns' = owns, refused' \subseteq Threads,
         phase' \in [Threads -> Phases],
         In(WaitRead)' = In(WaitRead), In(WaitWrite)' = In(WaitWrite),
         In(WaitUpgrade)' = In(WaitUpgrade),
         \A u \in Threads : phase'[u] \in {"notifyR", "notifyW"} => phase'[u] = phase[u],
         \A u \in Threads : phase'[u] = "giveUp" => owns[u] = "read"
  PROVE  IInv'
<1> USE DEF IInv
<1>1. In(WaitWrite \cup WaitUpgrade)' = In(WaitWrite \cup WaitUpgrade)
  BY DEF In
<1>2. CountersExact'
  BY <1>1 DEF CountersExact, Holding
<1>3. TypeOK'
  BY DEF TypeOK, In, Phases, WaitRead, WaitWrite, WaitUpgrade
<1>4. MutualExclusion'
  BY DEF MutualExclusion
<1> QED BY <1>2, <1>3, <1>4
(* A thread that moves within one of the counted groups changes no         *)
(* counter.                                                                *)
LEMMA SameCountsMove ==
  ASSUME IInv, rw' = rw, owns' = owns, refused' \subseteq Threads,
         NEW t \in Threads, NEW p \in Phases, Become(t, p),
         phase[t] \in WaitRead <=> p \in WaitRead,
         phase[t] \in WaitWrite <=> p \in WaitWrite,
         phase[t] \in WaitUpgrade <=> p \in WaitUpgrade,
         p \notin {"notifyR", "notifyW"},
         p = "giveUp" => owns[t] = "read"
  PROVE  IInv'
<1>1. In(WaitRead)' = In(WaitRead)
  BY PhaseMove DEF In, IInv
<1>2. In(WaitWrite)' = In(WaitWrite)
  BY PhaseMove DEF In, IInv
<1>3. In(WaitUpgrade)' = In(WaitUpgrade)
  BY PhaseMove DEF In, IInv
<1>4. phase' \in [Threads -> Phases]
  BY DEF IInv, TypeOK, Become
<1>5. /\ \A u \in Threads : phase'[u] \in {"notifyR", "notifyW"} => phase'[u] = phase[u]
      /\ \A u \in Threads : phase'[u] = "giveUp" => owns[u] = "read"
  BY DEF IInv, TypeOK, Become
<1> QED BY <1>1, <1>2, <1>3, <1>4, <1>5, SameCounts

-----------------------------------------------------------------------------
(* Every action is one of those kinds of step. *)

(* Claiming a read lock, or sleeping for it, preserves the invariant. *)
LEMMA ClaimReadStep ==
  ASSUME IInv, NEW t \in Threads, refused' \subseteq Threads, owns[t] = "none",
         \/ phase[t] = "ready" /\ ClaimRead(t, RequestRead(rw))
         \/ phase[t] = "awakeR" /\ ClaimRead(t, rw)
  PROVE  IInv'
<1>0. rw \in [readersWaiting : 0..MaxU16, writersWaiting : 0..MaxU16,
              readersActive : 0..MaxU16, writerActive : BOOLEAN, wantsUpgrade : BOOLEAN]
  BY DEF IInv, TypeOK
<1>1. CASE phase[t] = "ready" /\ CanAcquireRead(RequestRead(rw))
               /\ ClaimRead(t, RequestRead(rw))
  BY <1>0, <1>1, IncDec, GrantRead DEF ClaimRead, RequestRead, AcquireRead, CanAcquireRead
<1>2. CASE phase[t] = "ready" /\ ~CanAcquireRead(RequestRead(rw))
               /\ ClaimRead(t, RequestRead(rw))
  BY <1>0, <1>2, FallAsleep DEF ClaimRead, RequestRead
<1>3. CASE phase[t] = "awakeR" /\ CanAcquireRead(rw) /\ ClaimRead(t, rw)
  BY <1>0, <1>3, GrantRead DEF ClaimRead, AcquireRead
<1>4. CASE phase[t] = "awakeR" /\ ~CanAcquireRead(rw) /\ ClaimRead(t, rw)
  <2>1. rw' = rw /\ owns' = owns /\ Become(t, "sleepR")
    BY <1>4 DEF ClaimRead
  <2>2. "sleepR" \in Phases
    BY DEF Phases
  <2> QED
    BY <1>4, <2>1, <2>2, SameCountsMove DEF WaitRead, WaitWrite, WaitUpgrade
<1> QED BY <1>1, <1>2, <1>3, <1>4

(* Claiming the write lock, or sleeping for it, preserves the invariant. *)
LEMMA ClaimWriteStep ==
  ASSUME IInv, NEW t \in Threads, refused' \subseteq Threads, owns[t] = "none",
         \/ phase[t] = "ready" /\ ClaimWrite(t, RequestWrite(rw))
         \/ phase[t] = "awakeW" /\ ClaimWrite(t, rw)
  PROVE  IInv'
<1>0. rw \in [readersWaiting : 0..MaxU16, writersWaiting : 0..MaxU16,
              readersActive : 0..MaxU16, writerActive : BOOLEAN, wantsUpgrade : BOOLEAN]
  BY DEF IInv, TypeOK
<1>1. CASE phase[t] = "ready" /\ CanAcquireWrite(RequestWrite(rw))
               /\ ClaimWrite(t, RequestWrite(rw))
  BY <1>0, <1>1, IncDec, GrantWrite DEF ClaimWrite, RequestWrite, AcquireWrite, CanAcquireWrite
<1>2. CASE phase[t] = "ready" /\ ~CanAcquireWrite(RequestWrite(rw))
               /\ ClaimWrite(t, RequestWrite(rw))
  BY <1>0, <1>2, FallAsleep DEF ClaimWrite, RequestWrite
<1>3. CASE phase[t] = "awakeW" /\ CanAcquireWrite(rw) /\ ClaimWrite(t, rw)
  BY <1>0, <1>3, GrantWrite DEF ClaimWrite, AcquireWrite
<1>4. CASE phase[t] = "awakeW" /\ ~CanAcquireWrite(rw) /\ ClaimWrite(t, rw)
  <2>1. rw' = rw /\ owns' = owns /\ Become(t, "sleepW")
    BY <1>4 DEF ClaimWrite
  <2>2. "sleepW" \in Phases
    BY DEF Phases
  <2> QED
    BY <1>4, <2>1, <2>2, SameCountsMove DEF WaitRead, WaitWrite, WaitUpgrade
<1> QED BY <1>1, <1>2, <1>3, <1>4

(* Claiming the upgrade, or sleeping for it, preserves the invariant. *)
LEMMA ClaimUpgradeStep ==
  ASSUME IInv, NEW t \in Threads, refused' \subseteq Threads, owns[t] = "read",
         \/ phase[t] = "ready" /\ ~rw.wantsUpgrade /\ ClaimUpgrade(t, RequestUpgrade(rw))
         \/ phase[t] = "awakeU" /\ ClaimUpgrade(t, rw)
  PROVE  IInv'
<1>0. rw \in [readersWaiting : 0..MaxU16, writersWaiting : 0..MaxU16,
              readersActive : 0..MaxU16, writerActive : BOOLEAN, wantsUpgrade : BOOLEAN]
  BY DEF IInv, TypeOK
<1>1. CASE phase[t] = "ready" /\ ~rw.wantsUpgrade /\ CanUpgrade(RequestUpgrade(rw))
               /\ ClaimUpgrade(t, RequestUpgrade(rw))
  BY <1>0, <1>1, IncDec, GrantUpgrade
     DEF ClaimUpgrade, RequestUpgrade, RequestWrite, UpgradeLock, ReleaseRead, AcquireWrite,
         CanUpgrade
<1>2. CASE phase[t] = "ready" /\ ~rw.wantsUpgrade /\ ~CanUpgrade(RequestUpgrade(rw))
               /\ ClaimUpgrade(t, RequestUpgrade(rw))
  BY <1>0, <1>2, FallAsleep DEF ClaimUpgrade, RequestUpgrade, RequestWrite
<1>3. CASE phase[t] = "awakeU" /\ CanUpgrade(rw) /\ ClaimUpgrade(t, rw)
  BY <1>0, <1>3, GrantUpgrade DEF ClaimUpgrade, UpgradeLock, ReleaseRead, AcquireWrite
<1>4. CASE phase[t] = "awakeU" /\ ~CanUpgrade(rw) /\ ClaimUpgrade(t, rw)
  <2>1. rw' = rw /\ owns' = owns /\ Become(t, "sleepU")
    BY <1>4 DEF ClaimUpgrade
  <2>2. "sleepU" \in Phases
    BY DEF Phases
  <2> QED
    BY <1>4, <2>1, <2>2, SameCountsMove DEF WaitRead, WaitWrite, WaitUpgrade
<1> QED BY <1>1, <1>2, <1>3, <1>4
(* One step per action of Next. *)
LEMMA StepPreservesIInv ==
  IInv /\ [Next]_vars => IInv'
<1> SUFFICES ASSUME IInv, [Next]_vars PROVE IInv'
  OBVIOUS
<1> USE DEF Call
<1>0. /\ TypeOK
      /\ rw \in [readersWaiting : 0..MaxU16, writersWaiting : 0..MaxU16,
                 readersActive : 0..MaxU16, writerActive : BOOLEAN, wantsUpgrade : BOOLEAN]
      /\ refused \subseteq Threads
  BY DEF IInv, TypeOK
<1>1. ASSUME NEW t \in Threads, LockRead(t) PROVE IInv'
  BY <1>0, <1>1, ClaimReadStep DEF LockRead
<1>2. ASSUME NEW t \in Threads, LockWrite(t) PROVE IInv'
  BY <1>0, <1>2, ClaimWriteStep DEF LockWrite
<1>3. ASSUME NEW t \in Threads, TryLockRead(t) PROVE IInv'
  <2>1. Become(t, "ready")
    BY <1>0, <1>3 DEF TryLockRead, TypeOK, Become
  <2> QED
    BY <1>0, <1>3, <2>1, IncDec, GrantRead
       DEF TryLockRead, RequestRead, AcquireRead
<1>4. ASSUME NEW t \in Threads, TryLockWrite(t) PROVE IInv'
  <2>1. Become(t, "ready")
    BY <1>0, <1>4 DEF TryLockWrite, TypeOK, Become
  <2> QED
    BY <1>0, <1>4, <2>1, IncDec, GrantWrite
       DEF TryLockWrite, RequestWrite, AcquireWrite
<1>5. ASSUME NEW t \in Threads, Upgrade(t) PROVE IInv'
  BY <1>0, <1>5, ClaimUpgradeStep DEF Upgrade
<1>6. ASSUME NEW t \in Threads, UpgradeRefused(t) PROVE IInv'
  <2>1. PICK p \in {"ready", "giveUp"} : Become(t, p)
    BY <1>0, <1>6 DEF UpgradeRefused, Refusal, TypeOK, Become
  <2> QED
    BY <1>0, <1>6, <2>1, SameCountsMove
       DEF UpgradeRefused, Phases, WaitRead, WaitWrite, WaitUpgrade
<1>7. ASSUME NEW t \in Threads, Retest(t) PROVE IInv'
  BY <1>0, <1>7, ClaimReadStep, ClaimWriteStep, ClaimUpgradeStep
     DEF Retest, TypeOK, WaitRead, WaitWrite, WaitUpgrade
<1>8. ASSUME NEW t \in Threads, UnlockRead(t) PROVE IInv'
  <2>1. PICK p \in {"ready", "notifyW"} : Become(t, p)
    BY <1>8 DEF UnlockRead
  <2> QED
    BY <1>0, <1>8, <2>1, LeaveRead DEF UnlockRead, ReleaseRead
<1>9. ASSUME NEW t \in Threads, UnlockWrite(t) PROVE IInv'
  <2>1. PICK p \in {"ready", "notifyW", "notifyR"} : Become(t, p)
    BY <1>9 DEF UnlockWrite, WriterNotifies
  <2> QED
    BY <1>0, <1>9, <2>1, LeaveWrite DEF UnlockWrite, ReleaseWrite
<1>10. ASSUME NEW t \in Threads, NotifyWriter(t) PROVE IInv'
  <2>1. CASE Become(t, "ready")
    BY <1>0, <1>10, <2>1, SameCountsMove
       DEF NotifyWriter, Phases, WaitRead, WaitWrite, WaitUpgrade
  <2>2. CASE \E u \in In({"sleepW", "sleepU"}) :
               phase' = [phase EXCEPT ![t] = "ready", ![u] = Awake(@)]
    <3>1. PICK u \in In({"sleepW", "sleepU"}) :
                 phase' = [phase EXCEPT ![t] = "ready", ![u] = Awake(@)]
      BY <2>2
    <3>2. /\ u \in Threads /\ u # t
          /\ \/ phase[u] = "sleepW" /\ phase'[u] = "awakeW"
             \/ phase[u] = "sleepU" /\ phase'[u] = "awakeU"
          /\ phase[t] = "notifyW" /\ phase'[t] = "ready"
          /\ \A v \in Threads \ {t, u} : phase'[v] = phase[v]
          /\ phase' \in [Threads -> Phases]
          /\ \A v \in Threads : phase[v] = "giveUp" => owns[v] = "read"
      BY <1>0, <1>10, <3>1 DEF NotifyWriter, In, Awake, TypeOK, Phases
    <3>3. In(WaitRead)' = In(WaitRead)
      BY <3>2 DEF In, WaitRead
    <3>4. In(WaitWrite)' = In(WaitWrite)
      BY <3>2 DEF In, WaitWrite
    <3>5. In(WaitUpgrade)' = In(WaitUpgrade)
      BY <3>2 DEF In, WaitUpgrade
    <3> QED
      BY <1>0, <1>10, <3>2, <3>3, <3>4, <3>5, SameCounts DEF NotifyWriter
  <2> QED BY <1>10, <2>1, <2>2 DEF NotifyWriter
<1>11. ASSUME NEW t \in Threads, NotifyReaders(t) PROVE IInv'
  <2>1. /\ phase' \in [Threads -> Phases]
        /\ phase[t] = "notifyR" /\ phase'[t] = "ready"
        /\ \A u \in Threads \ {t} :
             phase'[u] = IF phase[u] = "sleepR" THEN "awakeR" ELSE phase[u]
        /\ \A u \in Threads : phase[u] = "giveUp" => owns[u] = "read"
    BY <1>0, <1>11 DEF NotifyReaders, TypeOK, Phases
  <2>2. In(WaitRead)' = In(WaitRead)
    BY <2>1 DEF In, WaitRead
  <2>3. In(WaitWrite)' = In(WaitWrite)
    BY <2>1 DEF In, WaitWrite
  <2>4. In(WaitUpgrade)' = In(WaitUpgrade)
    BY <2>1 DEF In, WaitUpgrade
  <2> QED
    BY <1>0, <1>11, <2>1, <2>2, <2>3, <2>4, SameCounts DEF NotifyReaders
<1>12. ASSUME NEW t \in Threads, SpuriousWakeup(t) PROVE IInv'
  BY <1>0, <1>12, SameCountsMove
     DEF SpuriousWakeup, Awake, Phases, WaitRead, WaitWrite, WaitUpgrade
<1>13. CASE UNCHANGED vars
  BY <1>13 DEF vars, IInv, TypeOK, CountersExact, MutualExclusion, In, Holding
<1> QED
  BY <1>1, <1>2, <1>3, <1>4, <1>5, <1>6, <1>7, <1>8, <1>9, <1>10, <1>11, <1>12, <1>13
     DEF Next, Finish

(* The mutex is constructed with the inductive invariant. *)
LEMMA InitIInv == Init => IInv
<1> SUFFICES ASSUME Init PROVE IInv
  OBVIOUS
<1>1. \A ps : "ready" \notin ps => In(ps) = {}
  BY DEF Init, In
<1>2. Holding("read") = {} /\ Holding("write") = {}
  BY DEF Init, Holding
<1>3. In(WaitRead) = {} /\ In(WaitWrite \cup WaitUpgrade) = {} /\ In(WaitUpgrade) = {}
  BY <1>1 DEF WaitRead, WaitWrite, WaitUpgrade
<1>4. CountersExact
  BY <1>2, <1>3, FS_EmptySet DEF CountersExact, Init
<1>5. TypeOK /\ MutualExclusion
  BY MaxU16Type DEF Init, TypeOK, MutualExclusion, Phases, WaitRead, WaitWrite, WaitUpgrade
<1> QED BY <1>4, <1>5 DEF IInv
-----------------------------------------------------------------------------
(* Theorems of the specification *)

(* IInv holds in every reachable state of the mutex. *)
THEOREM Invariance == Spec => []IInv
BY InitIInv, StepPreservesIInv, PTL DEF Spec

(* The handles and phases always fit together, and no counter ever leaves  *)
(* the range of its uint16_t.                                              *)
THEOREM TypeCorrect == Spec => []TypeOK
<1>1. IInv => TypeOK
  BY DEF IInv
<1> QED BY <1>1, Invariance, PTL

(* The write lock excludes every other lock, for any number of threads. *)
THEOREM Exclusion == Spec => []MutualExclusion
<1>1. IInv => MutualExclusion
  BY DEF IInv
<1> QED BY <1>1, Invariance, PTL

(* The counters of reader_writer_mutex_internal count exactly the threads  *)
(* that wait, read and write.                                              *)
THEOREM Counting == Spec => []CountersExact
<1>1. IInv => CountersExact
  BY DEF IInv
<1> QED BY <1>1, Invariance, PTL

(* A thread in a counted situation makes its counter positive. *)
LEMMA Counted ==
  ASSUME IInv, NEW t \in Threads
  PROVE  /\ phase[t] \in WaitRead => rw.readersWaiting > 0
         /\ phase[t] \in WaitWrite \cup WaitUpgrade => rw.writersWaiting > 0
         /\ owns[t] = "read" => rw.readersActive > 0
<1>1. ASSUME phase[t] \in WaitRead PROVE rw.readersWaiting > 0
  <2>1. t \in In(WaitRead)
    BY <1>1 DEF In
  <2>2. Cardinality(In(WaitRead)) > 0
    BY <2>1, CardRemove, Subsets
  <2> QED BY <2>2 DEF IInv, CountersExact
<1>2. ASSUME phase[t] \in WaitWrite \cup WaitUpgrade PROVE rw.writersWaiting > 0
  <2>1. t \in In(WaitWrite \cup WaitUpgrade)
    BY <1>2 DEF In
  <2>2. Cardinality(In(WaitWrite \cup WaitUpgrade)) > 0
    BY <2>1, CardRemove, Subsets
  <2> QED BY <2>2 DEF IInv, CountersExact
<1>3. ASSUME owns[t] = "read" PROVE rw.readersActive > 0
  <2>1. t \in Holding("read")
    BY <1>3 DEF Holding
  <2>2. Cardinality(Holding("read")) > 0
    BY <2>1, CardRemove, Subsets
  <2> QED BY <2>2 DEF IInv, CountersExact
<1> QED BY <1>1, <1>2, <1>3

(* No M_insist of the mutex can fail. *)
THEOREM Insists == Spec => []InsistsHold
<1>1. IInv => InsistsHold
  <2> SUFFICES ASSUME IInv, NEW t \in Threads
               PROVE  /\ phase[t] \in WaitRead => rw.readersWaiting > 0
                      /\ phase[t] \in WaitWrite => rw.writersWaiting > 0
                      /\ phase[t] \in WaitUpgrade => rw.wantsUpgrade /\ rw.writersWaiting > 0
                      /\ owns[t] = "read" =>
                           /\ rw.readersActive > 0 /\ ~rw.writerActive
                           /\ rw.wantsUpgrade => rw.writersWaiting > 0
                      /\ owns[t] = "write" => rw.writerActive /\ rw.readersActive = 0
    BY DEF InsistsHold
  <2>3. phase[t] \in WaitUpgrade => rw.wantsUpgrade
    BY DEF IInv, CountersExact, In
  <2>4. rw.wantsUpgrade => rw.writersWaiting > 0
    BY Counted DEF IInv, CountersExact, In
  <2>6. owns[t] = "read" => ~rw.writerActive
    BY DEF IInv, CountersExact, MutualExclusion, Holding
  <2>7. owns[t] = "write" => rw.writerActive
    BY DEF IInv, CountersExact, Holding
  <2>8. owns[t] = "write" => Holding("read") = {}
    BY DEF IInv, MutualExclusion, Holding
  <2>9. owns[t] = "write" => rw.readersActive = 0
    BY <2>8, FS_EmptySet DEF IInv, CountersExact
  <2> QED BY <2>3, <2>4, <2>6, <2>7, <2>9, Counted
<1> QED BY <1>1, Invariance, PTL

(* What a step does to the locks the threads own, and on which counters.   *)
OwnChange(u) ==
  \/ /\ owns[u] = "none" /\ rw.writersWaiting = 0 /\ ~rw.writerActive
     /\ owns' = [owns EXCEPT ![u] = "read"]
  \/ /\ owns[u] = "none" /\ rw.readersActive = 0 /\ ~rw.writerActive
     /\ owns' = [owns EXCEPT ![u] = "write"]
  \/ /\ owns[u] = "read" /\ rw.readersActive = 1 /\ ~rw.writerActive
     /\ owns' = [owns EXCEPT ![u] = "write"]
  \/ /\ owns[u] # "none"
     /\ owns' = [owns EXCEPT ![u] = "none"]

(* In every step at most one handle changes, in one of five ways. *)
LEMMA OwnStep ==
  ASSUME IInv, [Next]_vars
  PROVE  owns' = owns \/ \E u \in Threads : OwnChange(u)
<1> USE DEF Call, Own, Become, OwnChange
<1>0. TypeOK
  BY DEF IInv
<1>1. ASSUME NEW u \in Threads, LockRead(u) \/ TryLockRead(u)
      PROVE  owns' = owns \/ OwnChange(u)
  BY <1>0, <1>1
     DEF TypeOK, LockRead, TryLockRead, ClaimRead, CanAcquireRead, RequestRead
<1>2. ASSUME NEW u \in Threads, LockWrite(u) \/ TryLockWrite(u)
      PROVE  owns' = owns \/ OwnChange(u)
  BY <1>0, <1>2
     DEF TypeOK, LockWrite, TryLockWrite, ClaimWrite, CanAcquireWrite, RequestWrite
<1>3. ASSUME NEW u \in Threads, Upgrade(u)
      PROVE  owns' = owns \/ OwnChange(u)
  BY <1>0, <1>3
     DEF TypeOK, Upgrade, ClaimUpgrade, CanUpgrade, RequestUpgrade, RequestWrite
<1>4. ASSUME NEW u \in Threads, Retest(u)
      PROVE  owns' = owns \/ OwnChange(u)
  BY <1>0, <1>4
     DEF Retest, ClaimRead, ClaimWrite, ClaimUpgrade, CanAcquireRead, CanAcquireWrite,
         CanUpgrade, TypeOK, WaitRead, WaitWrite, WaitUpgrade
<1>5. ASSUME NEW u \in Threads, UnlockRead(u) \/ UnlockWrite(u)
      PROVE  OwnChange(u)
  BY <1>5 DEF UnlockRead, UnlockWrite
<1>6. ASSUME NEW u \in Threads,
             \/ UpgradeRefused(u) \/ NotifyWriter(u) \/ NotifyReaders(u) \/ SpuriousWakeup(u)
             \/ UNCHANGED vars
      PROVE  owns' = owns
  BY <1>6 DEF UpgradeRefused, NotifyWriter, NotifyReaders, SpuriousWakeup, vars
<1> QED
  BY <1>1, <1>2, <1>3, <1>4, <1>5, <1>6 DEF Next, Finish, vars

(* A lock is granted only if its predicate holds. *)
LEMMA GrantOnlyIf ==
  ASSUME IInv, [Next]_vars, NEW t \in Threads, owns[t] = "none"
  PROVE  /\ owns'[t] = "read" => rw.writersWaiting = 0 /\ ~rw.writerActive
         /\ owns'[t] = "write" => rw.readersActive = 0 /\ ~rw.writerActive
         /\ owns'[t] \in {"none", "read", "write"}
<1>1. owns \in [Threads -> {"none", "read", "write"}]
  BY DEF IInv, TypeOK
<1> QED BY <1>1, OwnStep DEF OwnChange

(* A reader that arrives while a writer waits is not let in before it. *)
THEOREM WritersGoFirst == Spec => WritersFirst
<1>1. ASSUME IInv, [Next]_vars, In(WaitWrite) # {}, NEW t \in Threads, owns[t] = "none"
      PROVE  owns'[t] # "read"
  <2>1. PICK u \in Threads : phase[u] \in WaitWrite
    BY <1>1 DEF In
  <2>2. rw.writersWaiting > 0
    BY <1>1, <2>1, Counted
  <2> QED BY <1>1, <2>2, GrantOnlyIf
<1>2. IInv /\ [Next]_vars
        => [In(WaitWrite) # {} => \A t \in Threads : owns[t] = "none" => owns'[t] # "read"]_vars
  BY <1>1
<1> QED BY <1>2, Invariance, PTL DEF Spec, WritersFirst

(* Between the request and the grant of an upgrade nobody gets the lock:   *)
(* an upgrader writes on the state it has read.                            *)
THEOREM UpgraderGoesFirst == Spec => UpgraderFirst
<1>1. ASSUME IInv, [Next]_vars, In(WaitUpgrade) # {}, NEW t \in Threads, owns[t] = "none"
      PROVE  owns'[t] = "none"
  <2>1. PICK u \in Threads : phase[u] \in WaitUpgrade
    BY <1>1 DEF In
  <2>2. owns[u] = "read"
    BY <1>1, <2>1 DEF IInv, TypeOK
  <2>3. rw.writersWaiting > 0 /\ rw.readersActive > 0
    BY <1>1, <2>1, <2>2, Counted
  <2> QED BY <1>1, <2>3, GrantOnlyIf
<1>2. IInv /\ [Next]_vars
        => [In(WaitUpgrade) # {} => \A t \in Threads : owns[t] = "none" => owns'[t] = "none"]_vars
  BY <1>1
<1> QED BY <1>2, Invariance, PTL DEF Spec, UpgraderFirst

(* With reader_writer_lock a refused upgrade() returns without the lock.   *)
(* A refused thread stays out of every waiting phase until its next call.  *)
Refused(t) ==
  t \in refused => \/ phase[t] = "giveUp"
                   \/ phase[t] \in {"ready", "notifyW"} /\ owns[t] = "none"

RInv == TypeOK /\ \A t \in Threads : Refused(t)

(* With reader_writer_lock the caller of a refused upgrade() owns          *)
(* nothing when the call has returned (reader_writer_lock.hpp:285).        *)
THEOREM RefusedGivesUp ==
  ASSUME Handle = "reader_writer_lock"
  PROVE  Spec => []RefusedOwnsNothing
<1>1. Init => RInv
  BY InitIInv DEF Init, RInv, Refused, IInv
<1>2. ASSUME IInv, IInv', RInv, [Next]_vars PROVE RInv'
  <2> SUFFICES ASSUME NEW u \in Threads PROVE Refused(u)'
    BY <1>2 DEF RInv, IInv
  <2>0. TypeOK /\ Refused(u)
    BY <1>2 DEF RInv
  <2> USE DEF Refused, Become, Own, TypeOK
  <2>1. ASSUME NEW t \in Threads,
               LockRead(t) \/ LockWrite(t) \/ TryLockRead(t) \/ TryLockWrite(t) \/ Upgrade(t)
        PROVE  Refused(u)'
    BY <2>0, <2>1 DEF LockRead, LockWrite, TryLockRead, TryLockWrite, Upgrade, Call,
          ClaimRead, ClaimWrite, ClaimUpgrade
  <2>2. ASSUME NEW t \in Threads, UpgradeRefused(t) PROVE Refused(u)'
    BY <2>0, <2>2, Handle = "reader_writer_lock" DEF UpgradeRefused, Refusal
  <2>3. ASSUME NEW t \in Threads, Retest(t) PROVE Refused(u)'
    BY <2>0, <2>3 DEF Retest, ClaimRead, ClaimWrite, ClaimUpgrade
  <2>4. ASSUME NEW t \in Threads, UnlockRead(t) PROVE Refused(u)'
    BY <2>0, <2>4 DEF UnlockRead
  <2>5. ASSUME NEW t \in Threads, UnlockWrite(t) PROVE Refused(u)'
    BY <2>0, <2>5 DEF UnlockWrite
  <2>6. ASSUME NEW t \in Threads, NotifyWriter(t) PROVE Refused(u)'
    BY <2>0, <2>6 DEF NotifyWriter, In, Awake
  <2>7. ASSUME NEW t \in Threads, NotifyReaders(t) PROVE Refused(u)'
    BY <2>0, <2>7 DEF NotifyReaders
  <2>8. ASSUME NEW t \in Threads, SpuriousWakeup(t) PROVE Refused(u)'
    BY <2>0, <2>8 DEF SpuriousWakeup, Awake
  <2>9. CASE UNCHANGED vars
    BY <2>0, <2>9 DEF vars
  <2> QED
    BY <1>2, <2>1, <2>2, <2>3, <2>4, <2>5, <2>6, <2>7, <2>8, <2>9 DEF Next, Finish
<1>3. RInv => RefusedOwnsNothing
  BY DEF RInv, Refused, RefusedOwnsNothing, TypeOK
<1> QED BY <1>1, <1>2, <1>3, Invariance, PTL DEF Spec
(* The mutex implements RWLock: every step of the code is one of its four  *)
(* steps, or changes nothing its clients can see.                          *)
THEOREM Refinement == Spec => ImplementsRWLock
<1>1. Init => Lock!Init
  BY DEF Init, Lock!Init
<1>2. ASSUME IInv, IInv', [Next]_vars PROVE [Lock!Next]_owns
  <2>0. /\ owns \in [Threads -> {"none", "read", "write"}]
        /\ MutualExclusion /\ MutualExclusion'
    BY <1>2 DEF IInv, TypeOK
  <2>1. ASSUME NEW u \in Threads, OwnChange(u) PROVE Lock!Next
    <3>1. CASE owns[u] = "none" /\ owns' = [owns EXCEPT ![u] = "read"]
      <4>1. \A v \in Threads \ {u} : owns[v] # "write"
        BY <2>0, <3>1 DEF MutualExclusion
      <4> QED BY <3>1, <4>1 DEF Lock!Next, Lock!AcquireRead, Lock!Others
    <3>2. CASE owns[u] = "none" /\ owns' = [owns EXCEPT ![u] = "write"]
      <4>1. \A v \in Threads \ {u} : owns[v] = "none"
        BY <2>0, <3>2 DEF MutualExclusion
      <4> QED BY <3>2, <4>1 DEF Lock!Next, Lock!AcquireWrite, Lock!Others
    <3>3. CASE owns[u] = "read" /\ owns' = [owns EXCEPT ![u] = "write"]
      <4>1. \A v \in Threads \ {u} : owns[v] = "none"
        BY <2>0, <3>3 DEF MutualExclusion
      <4> QED BY <3>3, <4>1 DEF Lock!Next, Lock!Upgrade, Lock!Others
    <3>4. CASE owns[u] # "none" /\ owns' = [owns EXCEPT ![u] = "none"]
      BY <3>4 DEF Lock!Next, Lock!Release
    <3> QED BY <2>1, <3>1, <3>2, <3>3, <3>4 DEF OwnChange
  <2> QED BY <1>2, <2>1, OwnStep
<1> QED BY <1>1, <1>2, Invariance, PTL DEF Spec, ImplementsRWLock, Lock!Spec

-----------------------------------------------------------------------------
(* No lost wakeup, when all sleepers of cv_writers_ are of one kind.       *)

(* A thread waits only for what its calls allow. *)
CallsMade ==
  \A t \in Threads :
    /\ phase[t] \in WaitWrite => "lock_write" \in MayCall[t]
    /\ phase[t] \in WaitUpgrade => "upgrade" \in MayCall[t]

CallsPreserved(t) ==
  /\ phase[t] \in WaitWrite => "lock_write" \in MayCall[t]
  /\ phase[t] \in WaitUpgrade => "upgrade" \in MayCall[t]

(* Only threads that may call upgrade() or lock_write() ever wait in it. *)
LEMMA StepCallsMade ==
  ASSUME TypeOK, CallsMade, [Next]_vars
  PROVE  CallsMade'
<1> SUFFICES ASSUME NEW u \in Threads PROVE CallsPreserved(u)'
  BY DEF CallsMade, CallsPreserved
<1>0. CallsPreserved(u)
  BY DEF CallsMade, CallsPreserved
<1> USE <1>0 DEF CallsPreserved, TypeOK, Become, WaitRead, WaitWrite, WaitUpgrade
<1>1. ASSUME NEW t \in Threads,
             \/ LockRead(t) \/ LockWrite(t) \/ TryLockRead(t) \/ TryLockWrite(t)
             \/ Upgrade(t) \/ UpgradeRefused(t) \/ Retest(t)
      PROVE  CallsPreserved(u)'
  BY <1>1 DEF LockRead, LockWrite, TryLockRead, TryLockWrite, Upgrade, UpgradeRefused, Refusal, Retest,
        Call, ClaimRead, ClaimWrite, ClaimUpgrade
<1>2. ASSUME NEW t \in Threads, UnlockRead(t) \/ UnlockWrite(t) PROVE CallsPreserved(u)'
  BY <1>2 DEF UnlockRead, UnlockWrite, WriterNotifies
<1>3. ASSUME NEW t \in Threads, NotifyWriter(t) \/ NotifyReaders(t) \/ SpuriousWakeup(t)
      PROVE  CallsPreserved(u)'
  BY <1>3 DEF NotifyWriter, NotifyReaders, SpuriousWakeup, In, Awake
<1>4. CASE UNCHANGED vars
  BY <1>4 DEF vars
<1> QED BY <1>1, <1>2, <1>3, <1>4 DEF Next, Finish

(* The three conjuncts of NoLostWakeup, for one sleeper. *)
WriterNotLost(s) ==
  phase[s] = "sleepW" =>
    \/ rw.writerActive \/ rw.readersActive > 0
    \/ \E u \in Threads : phase[u] \in {"notifyW", "awakeW"}

UpgraderNotLost(s) ==
  phase[s] = "sleepU" =>
    \/ rw.readersActive > 1
    \/ \E u \in Threads : phase[u] \in {"notifyW", "awakeU"}

ReaderNotLost(s) ==
  phase[s] = "sleepR" =>
    \/ rw.writerActive \/ rw.writersWaiting > 0
    \/ \E u \in Threads : phase[u] = "notifyR"

NotLost ==
  \A s \in Threads : WriterNotLost(s) /\ UpgraderNotLost(s) /\ ReaderNotLost(s)

(* No lost wakeup, stated for each sleeper on its own. *)
LEMMA NotLostPerSleeper == NoLostWakeup <=> NotLost
BY DEF NoLostWakeup, NotLost, WriterNotLost, UpgraderNotLost, ReaderNotLost, In

Positive ==
  \A t \in Threads :
    /\ phase[t] \in WaitRead => rw.readersWaiting > 0
    /\ phase[t] \in WaitWrite \cup WaitUpgrade => rw.writersWaiting > 0
    /\ owns[t] = "read" => rw.readersActive > 0

(* The invariant gives the signs of all counters. *)
LEMMA CountedAll == IInv => Positive
BY Counted DEF Positive

(* The same after a step. *)
LEMMA CountedNext ==
  ASSUME IInv, [Next]_vars
  PROVE  /\ IInv' /\ TypeOK /\ TypeOK' /\ Positive /\ Positive'
         /\ rw.wantsUpgrade => rw.writersWaiting > 0
<1>1. IInv'
  BY StepPreservesIInv
<1>2. Positive /\ Positive'
  BY <1>1, CountedAll, PTL
<1> QED BY <1>1, <1>2 DEF IInv, CountersExact, Positive, In

(* A sleeping reader: only a writer can keep it asleep, and it leaves by   *)
(* unlock_write, which sees writers or readers waiting.                    *)
LEMMA StepReaderNotLost ==
  ASSUME IInv, [Next]_vars, NEW s \in Threads, ReaderNotLost(s)
  PROVE  ReaderNotLost(s)'
<1>0. /\ TypeOK /\ TypeOK' /\ Positive /\ Positive'
      /\ rw.wantsUpgrade => rw.writersWaiting > 0
  BY CountedNext
<1> USE <1>0 DEF ReaderNotLost, Become, Positive, WaitRead, WaitWrite, WaitUpgrade
<1>1. ASSUME NEW t \in Threads, LockRead(t) \/ TryLockRead(t) PROVE ReaderNotLost(s)'
  BY <1>1 DEF LockRead, TryLockRead, Call, ClaimRead, CanAcquireRead, RequestRead, AcquireRead,
        TypeOK
<1>2. ASSUME NEW t \in Threads, LockWrite(t) \/ TryLockWrite(t) PROVE ReaderNotLost(s)'
  BY <1>2 DEF LockWrite, TryLockWrite, Call, ClaimWrite, RequestWrite, AcquireWrite, TypeOK
<1>3. ASSUME NEW t \in Threads, Upgrade(t) PROVE ReaderNotLost(s)'
  <2>1. CASE /\ rw' = UpgradeLock(RequestUpgrade(rw))
             /\ Become(t, "ready")
    <3>1. rw'.writerActive
      BY <2>1 DEF UpgradeLock, AcquireWrite, ReleaseRead, RequestUpgrade, RequestWrite, TypeOK
    <3> QED BY <3>1
  <2>2. CASE phase'[t] = "sleepU"
    BY <2>2
  <2> QED BY <1>3, <2>1, <2>2 DEF Upgrade, Call, ClaimUpgrade, TypeOK
<1>11. ASSUME NEW t \in Threads, UpgradeRefused(t) PROVE ReaderNotLost(s)'
  BY <1>11 DEF UpgradeRefused, Refusal, TypeOK
<1>4. ASSUME NEW t \in Threads, Retest(t) PROVE ReaderNotLost(s)'
  <2>1. CASE phase[t] = "awakeR" /\ ClaimRead(t, rw)
    BY <2>1 DEF ClaimRead, CanAcquireRead, AcquireRead, TypeOK
  <2>2. CASE phase[t] = "awakeW" /\ ClaimWrite(t, rw)
    BY <2>2 DEF ClaimWrite, AcquireWrite, TypeOK
  <2>3. CASE phase[t] = "awakeU" /\ ClaimUpgrade(t, rw)
    <3>1. CASE rw' = UpgradeLock(rw)
      BY <3>1 DEF UpgradeLock, ReleaseRead, AcquireWrite, TypeOK
    <3>2. CASE rw' = rw /\ Become(t, "sleepU")
      BY <2>3, <3>2 DEF TypeOK
    <3> QED BY <2>3, <3>1, <3>2 DEF ClaimUpgrade
  <2> QED BY <1>4, <2>1, <2>2, <2>3 DEF Retest
<1>5. ASSUME NEW t \in Threads, UnlockRead(t) PROVE ReaderNotLost(s)'
  BY <1>5 DEF UnlockRead, ReleaseRead, TypeOK
<1>6. ASSUME NEW t \in Threads, UnlockWrite(t) PROVE ReaderNotLost(s)'
  BY <1>6 DEF UnlockWrite, WriterNotifies, ReleaseWrite, TypeOK
<1>7. ASSUME NEW t \in Threads, NotifyWriter(t) PROVE ReaderNotLost(s)'
  BY <1>7 DEF NotifyWriter, Awake, In, TypeOK
<1>8. ASSUME NEW t \in Threads, NotifyReaders(t) PROVE ReaderNotLost(s)'
  BY <1>8 DEF NotifyReaders, TypeOK
<1>9. ASSUME NEW t \in Threads, SpuriousWakeup(t) PROVE ReaderNotLost(s)'
  BY <1>9 DEF SpuriousWakeup, Awake, TypeOK
<1>10. CASE UNCHANGED vars
  BY <1>10 DEF vars
<1> QED BY <1>1, <1>2, <1>3, <1>4, <1>5, <1>6, <1>7, <1>8, <1>9, <1>10, <1>11
   DEF Next, Finish

(* A sleeping writer, when nobody upgrades. *)
LEMMA StepWriterNotLost ==
  ASSUME IInv, [Next]_vars, NEW s \in Threads, WriterNotLost(s),
         \A t \in Threads : phase[t] \notin WaitUpgrade,
         \A t \in Threads : "upgrade" \notin MayCall[t]
  PROVE  WriterNotLost(s)'
<1>0. TypeOK /\ TypeOK' /\ Positive /\ Positive'
  BY CountedNext
<1> USE <1>0 DEF WriterNotLost, Become, Positive, WaitRead, WaitWrite, WaitUpgrade
<1>1. ASSUME NEW t \in Threads, LockRead(t) \/ TryLockRead(t) PROVE WriterNotLost(s)'
  BY <1>1 DEF LockRead, TryLockRead, Call, ClaimRead, RequestRead, Own, TypeOK
<1>2. ASSUME NEW t \in Threads, LockWrite(t) \/ TryLockWrite(t) PROVE WriterNotLost(s)'
  <2>1. CASE rw' = AcquireWrite(RequestWrite(rw))
    BY <2>1 DEF AcquireWrite, RequestWrite, TypeOK
  <2>2. CASE rw' = RequestWrite(rw) /\ ~CanAcquireWrite(RequestWrite(rw))
    BY <2>2 DEF CanAcquireWrite, RequestWrite, TypeOK
  <2> QED BY <1>2, <2>1, <2>2 DEF LockWrite, TryLockWrite, ClaimWrite
<1>3. ASSUME NEW t \in Threads, Upgrade(t) \/ UpgradeRefused(t) PROVE FALSE
  BY <1>3 DEF Upgrade, UpgradeRefused, Call
<1>4. ASSUME NEW t \in Threads, Retest(t) PROVE WriterNotLost(s)'
  <2>1. CASE phase[t] = "awakeR" /\ ClaimRead(t, rw)
    <3>1. CASE Own(t, "read")
      BY <3>1 DEF Own, TypeOK
    <3>2. CASE rw' = rw /\ Become(t, "sleepR")
      BY <2>1, <3>2 DEF TypeOK
    <3> QED BY <2>1, <3>1, <3>2 DEF ClaimRead
  <2>2. CASE phase[t] = "awakeW" /\ ClaimWrite(t, rw)
    <3>1. CASE rw' = AcquireWrite(rw)
      BY <3>1 DEF AcquireWrite, TypeOK
    <3>2. CASE rw' = rw /\ ~CanAcquireWrite(rw)
      <4>1. rw.writerActive \/ rw.readersActive > 0
        BY <3>2, MaxU16Type DEF CanAcquireWrite, TypeOK
      <4> QED BY <3>2, <4>1
    <3> QED BY <2>2, <3>1, <3>2 DEF ClaimWrite
  <2> QED BY <1>4, <2>1, <2>2 DEF Retest
<1>5. ASSUME NEW t \in Threads, UnlockRead(t) PROVE WriterNotLost(s)'
  BY <1>5 DEF UnlockRead, ReleaseRead, LastReaderNotifies, TypeOK
<1>6. ASSUME NEW t \in Threads, UnlockWrite(t) PROVE WriterNotLost(s)'
  BY <1>6 DEF UnlockWrite, WriterNotifies, ReleaseWrite, TypeOK
<1>7. ASSUME NEW t \in Threads, NotifyWriter(t) PROVE WriterNotLost(s)'
  BY <1>7 DEF NotifyWriter, Awake, In, TypeOK
<1>8. ASSUME NEW t \in Threads, NotifyReaders(t) PROVE WriterNotLost(s)'
  BY <1>8 DEF NotifyReaders, TypeOK
<1>9. ASSUME NEW t \in Threads, SpuriousWakeup(t) PROVE WriterNotLost(s)'
  BY <1>9 DEF SpuriousWakeup, Awake, TypeOK
<1>10. CASE UNCHANGED vars
  BY <1>10 DEF vars
<1> QED BY <1>1, <1>2, <1>3, <1>4, <1>5, <1>6, <1>7, <1>8, <1>9, <1>10 DEF Next, Finish

(* A sleeping upgrader, when nobody blocks in lock_write: it is alone in   *)
(* cv_writers_, still a reader itself, and the last other reader notifies. *)
LEMMA StepUpgraderNotLost ==
  ASSUME IInv, [Next]_vars, NEW s \in Threads, UpgraderNotLost(s),
         \A t \in Threads : phase[t] \notin WaitWrite,
         \A t \in Threads : "lock_write" \notin MayCall[t]
  PROVE  UpgraderNotLost(s)'
<1>0. /\ TypeOK /\ TypeOK' /\ Positive /\ Positive' /\ MutualExclusion
      /\ phase[s] \in WaitUpgrade => rw.wantsUpgrade /\ owns[s] = "read"
      /\ phase[s] \in WaitUpgrade => \A t \in Threads \ {s} : phase[t] \notin WaitUpgrade
  BY CountedNext DEF IInv, CountersExact, In, TypeOK
<1> USE <1>0 DEF UpgraderNotLost, Become, Positive, WaitRead, WaitWrite, WaitUpgrade
<1>1. ASSUME NEW t \in Threads, LockRead(t) \/ TryLockRead(t) PROVE UpgraderNotLost(s)'
  BY <1>1 DEF LockRead, TryLockRead, Call, ClaimRead, CanAcquireRead, RequestRead, TypeOK
<1>2. ASSUME NEW t \in Threads, LockWrite(t) \/ TryLockWrite(t) PROVE UpgraderNotLost(s)'
  BY <1>2 DEF LockWrite, TryLockWrite, Call, CanAcquireWrite, TypeOK
<1>3. ASSUME NEW t \in Threads, Upgrade(t) PROVE UpgraderNotLost(s)'
  <2>1. CASE Become(t, "ready")
    BY <1>3, <2>1 DEF Upgrade, Call, TypeOK
  <2>2. CASE /\ rw' = RequestUpgrade(rw) /\ ~CanUpgrade(RequestUpgrade(rw))
             /\ Become(t, "sleepU")
    <3>1. owns[t] = "read" /\ ~rw.writerActive
      BY <1>3 DEF Upgrade, Call, IInv, CountersExact, MutualExclusion, Holding
    <3>2. rw'.readersActive > 1
      BY <2>2, <3>1 DEF RequestUpgrade, RequestWrite, CanUpgrade, TypeOK
    <3> QED BY <3>2
  <2> QED BY <1>3, <2>1, <2>2 DEF Upgrade, ClaimUpgrade
<1>4. ASSUME NEW t \in Threads, UpgradeRefused(t) PROVE UpgraderNotLost(s)'
  BY <1>4 DEF UpgradeRefused, Refusal, TypeOK
<1>5. ASSUME NEW t \in Threads, Retest(t) PROVE UpgraderNotLost(s)'
  <2>1. CASE phase[t] = "awakeR" /\ ClaimRead(t, rw)
    BY <2>1 DEF ClaimRead, CanAcquireRead, TypeOK
  <2>2. CASE phase[t] = "awakeU" /\ ClaimUpgrade(t, rw)
    <3>1. owns[t] = "read" /\ ~rw.writerActive
      BY <2>2 DEF IInv, CountersExact, MutualExclusion, Holding, TypeOK
    <3> QED BY <2>2, <3>1 DEF ClaimUpgrade, CanUpgrade, TypeOK
  <2> QED BY <1>5, <2>1, <2>2 DEF Retest
<1>6. ASSUME NEW t \in Threads, UnlockRead(t) PROVE UpgraderNotLost(s)'
  BY <1>6 DEF UnlockRead, ReleaseRead, LastReaderNotifies, Own, TypeOK
<1>7. ASSUME NEW t \in Threads, UnlockWrite(t) PROVE UpgraderNotLost(s)'
  BY <1>7 DEF UnlockWrite, WriterNotifies, MutualExclusion, TypeOK
<1>8. ASSUME NEW t \in Threads, NotifyWriter(t) PROVE UpgraderNotLost(s)'
  BY <1>8 DEF NotifyWriter, Awake, In, TypeOK
<1>9. ASSUME NEW t \in Threads, NotifyReaders(t) PROVE UpgraderNotLost(s)'
  BY <1>9 DEF NotifyReaders, TypeOK
<1>10. ASSUME NEW t \in Threads, SpuriousWakeup(t) PROVE UpgraderNotLost(s)'
  BY <1>10 DEF SpuriousWakeup, Awake, TypeOK
<1>11. CASE UNCHANGED vars
  BY <1>11 DEF vars
<1> QED BY <1>1, <1>2, <1>3, <1>4, <1>5, <1>6, <1>7, <1>8, <1>9, <1>10, <1>11
   DEF Next, Finish

(* When no thread upgrades, or no thread blocks in lock_write, no wakeup   *)
(* is ever lost.                                                           *)
THEOREM WakeupsArrive ==
  ASSUME WritersOrUpgraders
  PROVE  Spec => []NoLostWakeup
<1> DEFINE WInv == CallsMade /\ NoLostWakeup
<1>1. Init => WInv
  BY DEF Init, CallsMade, NoLostWakeup, In, WaitWrite, WaitUpgrade
<1>2. ASSUME IInv, WInv, [Next]_vars PROVE WInv'
  <2>1. CallsMade'
    BY <1>2, StepCallsMade DEF IInv
  <2>2. ASSUME NEW s \in Threads
        PROVE  WriterNotLost(s)' /\ UpgraderNotLost(s)' /\ ReaderNotLost(s)'
    <3>1. WriterNotLost(s) /\ UpgraderNotLost(s) /\ ReaderNotLost(s)
      BY <1>2, NotLostPerSleeper DEF NotLost
    <3>2. ReaderNotLost(s)'
      BY <1>2, <3>1, StepReaderNotLost
    <3>3. CASE \A t \in Threads : "upgrade" \notin MayCall[t]
      <4>1. WriterNotLost(s)'
        BY <1>2, <3>1, <3>3, StepWriterNotLost DEF CallsMade
      <4>2. UpgraderNotLost(s)'
        BY <2>1, <3>3 DEF CallsMade, UpgraderNotLost, WaitUpgrade
      <4> QED BY <3>2, <4>1, <4>2
    <3>4. CASE \A t \in Threads : "lock_write" \notin MayCall[t]
      <4>1. UpgraderNotLost(s)'
        BY <1>2, <3>1, <3>4, StepUpgraderNotLost DEF CallsMade
      <4>2. WriterNotLost(s)'
        BY <2>1, <3>4 DEF CallsMade, WriterNotLost, WaitWrite
      <4> QED BY <3>2, <4>1, <4>2
    <3> QED BY <3>3, <3>4, WritersOrUpgraders DEF WritersOrUpgraders
  <2>3. NotLost'
    BY <2>2 DEF NotLost
  <2>4. NoLostWakeup'
    BY <2>3, NotLostPerSleeper, PTL
  <2> QED BY <2>1, <2>4
<1>3. WInv => NoLostWakeup
  OBVIOUS
<1> QED BY <1>1, <1>2, <1>3, Invariance, PTL DEF Spec
=============================================================================
