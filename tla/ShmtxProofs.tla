---------------------------- MODULE ShmtxProofs ----------------------------
(***************************************************************************)
(* Proofs about Shmtx, for every finite set of processes, every number of  *)
(* spin rounds, with and without a semaphore.                              *)
(*                                                                         *)
(* Type correctness alone is not inductive: SemCas adds 1 to the word, and *)
(* that the sum stays below the top bit follows from the accounting of     *)
(* sleepers.  The accounting needs to know that nobody sleeps without a    *)
(* semaphore, so the invariant is the conjunction of them all.             *)
(***************************************************************************)
EXTENDS Shmtx, FiniteSetTheorems, TLAPS

\* The semaphore's steps are out of reach when there is none.
NoSemaphoreSteps ==
    ~Semaphore =>
        /\ \A p \in Proc : pc[p] \notin {"sem_read", "sem_cas",
                                         "sem_wait", "sem_post"}
        /\ Waiters(lock) = 0
        /\ sem = 0

IInv ==
    /\ TypeOK
    /\ LockBitIsTruth
    /\ MutualExclusion
    /\ WaitAccounting
    /\ NoSemaphoreSteps
    /\ NoLostWakeup

-----------------------------------------------------------------------------
\* The sleeping and the posting processes are finitely many, at most all.
LEMMA CountsAreNat ==
    /\ IsFiniteSet(Sleeping) /\ Cardinality(Sleeping) \in Nat
    /\ IsFiniteSet(Posting) /\ Cardinality(Posting) \in Nat
    /\ Cardinality(Sleeping) <= Cardinality(Proc)
    /\ Cardinality(Proc) \in Nat
BY ShmtxAssumption, FS_Subset, FS_CardinalityType DEF Sleeping, Posting

\* A step of p to a label changes the two sets by at most p itself.
LEMMA SetsAfterGoto ==
    ASSUME NEW p \in Proc, NEW label \in PC, TypeOK, Goto(p, label)
    PROVE  /\ Sleeping' = IF label = "sem_wait" THEN Sleeping \cup {p}
                                                ELSE Sleeping \ {p}
           /\ Posting' = IF label = "sem_post" THEN Posting \cup {p}
                                               ELSE Posting \ {p}
BY DEF TypeOK, Goto, Sleeping, Posting

\* The same, counted.
LEMMA CountsAfterGoto ==
    ASSUME NEW p \in Proc, NEW label \in PC, TypeOK, Goto(p, label)
    PROVE  /\ Cardinality(Sleeping') = Cardinality(Sleeping)
                + (IF label = "sem_wait" THEN 1 ELSE 0)
                - (IF pc[p] = "sem_wait" THEN 1 ELSE 0)
           /\ Cardinality(Posting') = Cardinality(Posting)
                + (IF label = "sem_post" THEN 1 ELSE 0)
                - (IF pc[p] = "sem_post" THEN 1 ELSE 0)
<1>1. /\ p \in Sleeping <=> pc[p] = "sem_wait"
      /\ p \in Posting <=> pc[p] = "sem_post"
  BY DEF Sleeping, Posting
<1>2. /\ Cardinality(Sleeping \cup {p}) =
            IF p \in Sleeping THEN Cardinality(Sleeping)
                              ELSE Cardinality(Sleeping) + 1
      /\ Cardinality(Sleeping \ {p}) =
            IF p \in Sleeping THEN Cardinality(Sleeping) - 1
                              ELSE Cardinality(Sleeping)
  BY CountsAreNat, FS_AddElement, FS_RemoveElement
<1>3. /\ Cardinality(Posting \cup {p}) =
            IF p \in Posting THEN Cardinality(Posting)
                             ELSE Cardinality(Posting) + 1
      /\ Cardinality(Posting \ {p}) =
            IF p \in Posting THEN Cardinality(Posting) - 1
                             ELSE Cardinality(Posting)
  BY CountsAreNat, FS_AddElement, FS_RemoveElement
<1>4. /\ Sleeping' = IF label = "sem_wait" THEN Sleeping \cup {p}
                                           ELSE Sleeping \ {p}
      /\ Posting' = IF label = "sem_post" THEN Posting \cup {p}
                                          ELSE Posting \ {p}
  BY SetsAfterGoto
<1>5. Cardinality(Sleeping') = Cardinality(Sleeping)
                + (IF label = "sem_wait" THEN 1 ELSE 0)
                - (IF pc[p] = "sem_wait" THEN 1 ELSE 0)
  <2>1. CASE label = "sem_wait"
    BY <2>1, <1>1, <1>2, <1>4, CountsAreNat
  <2>2. CASE label # "sem_wait"
    BY <2>2, <1>1, <1>2, <1>4, CountsAreNat
  <2>3. QED
    BY <2>1, <2>2
<1>6. Cardinality(Posting') = Cardinality(Posting)
                + (IF label = "sem_post" THEN 1 ELSE 0)
                - (IF pc[p] = "sem_post" THEN 1 ELSE 0)
  <2>1. CASE label = "sem_post"
    BY <2>1, <1>1, <1>3, <1>4, CountsAreNat
  <2>2. CASE label # "sem_post"
    BY <2>2, <1>1, <1>3, <1>4, CountsAreNat
  <2>3. QED
    BY <2>1, <2>2
<1>7. QED
  BY <1>5, <1>6

\* A freshly created mutex satisfies the invariant.
LEMMA InitIInv == Init => IInv
<1> SUFFICES ASSUME Init PROVE IInv
  OBVIOUS
<1>1. TypeOK
  BY HighBitAssumption, ShmtxAssumption DEF Init, TypeOK, Word, PC
<1>2. Sleeping = {} /\ Posting = {}
  BY DEF Init, Sleeping, Posting
<1>3. WaitAccounting
  BY <1>2, FS_EmptySet, HighBitAssumption DEF Init, WaitAccounting, Waiters
<1>4. QED
  BY <1>1, <1>3, HighBitAssumption
  DEF Init, IInv, LockBitIsTruth, MutualExclusion, NoSemaphoreSteps,
      NoLostWakeup, Locked, Waiters, Holding

-----------------------------------------------------------------------------
\* What taking, joining the queue and releasing do to the two halves of the
\* word: each of them changes one half as intended and keeps the other.
LEMMA WordFacts ==
    ASSUME NEW v \in Word
    PROVE  /\ Waiters(v) \in Nat /\ Waiters(v) < HighBit
           /\ ~Locked(v) => /\ WithLock(v) \in Word
                            /\ Locked(WithLock(v))
                            /\ Waiters(WithLock(v)) = Waiters(v)
           /\ (Locked(v) /\ Waiters(v) + 1 < HighBit)
                => /\ v + 1 \in Word
                   /\ Locked(v + 1)
                   /\ Waiters(v + 1) = Waiters(v) + 1
           /\ Unlocked(v) \in Word
           /\ ~Locked(Unlocked(v))
           /\ Waiters(Unlocked(v)) =
                IF Waiters(v) > 0 THEN Waiters(v) - 1 ELSE 0
BY HighBitAssumption DEF Word, Locked, WithLock, Waiters, Unlocked

\* A process about to sleep finds room for itself in the word.
LEMMA RoomForSleeper ==
    ASSUME TypeOK, WaitAccounting, NEW p \in Proc, pc[p] # "sem_wait"
    PROVE  Waiters(lock) + 1 < HighBit
<1>1. Sleeping \subseteq Proc \ {p}
  BY DEF Sleeping
<1>2. /\ IsFiniteSet(Proc \ {p})
      /\ Cardinality(Proc \ {p}) = Cardinality(Proc) - 1
  BY ShmtxAssumption, FS_RemoveElement
<1>3. Cardinality(Sleeping) <= Cardinality(Proc) - 1
  BY <1>1, <1>2, FS_Subset
<1>4. Waiters(lock) \in Nat
  BY WordFacts DEF TypeOK
<1>5. sem \in Nat /\ postErrors \in Nat /\ waitErrors \in Nat
      /\ waitErrors <= MaxSemErrors
  BY ShmtxAssumption DEF TypeOK
<1>6. QED
  BY <1>3, <1>4, <1>5, CountsAreNat, ShmtxAssumption, HighBitAssumption
  DEF WaitAccounting

\* Every action keeps the types; SemCas because there is room in the word.
LEMMA TypeStep == IInv /\ [Next]_vars => TypeOK'
<1> SUFFICES ASSUME IInv, [Next]_vars PROVE TypeOK'
  OBVIOUS
<1> USE ShmtxAssumption DEF IInv, TypeOK
<1>1. ASSUME NEW p \in Proc, TryRead(p) PROVE TypeOK'
  BY <1>1 DEF TryRead, ReadWord, Goto, PC
<1>2. ASSUME NEW p \in Proc, TryCas(p) PROVE TypeOK'
  BY <1>2, WordFacts DEF TryCas, CanTake, Goto, PC
<1>3. ASSUME NEW p \in Proc, LockCall(p) PROVE TypeOK'
  BY <1>3 DEF LockCall, Goto, PC
<1>4. ASSUME NEW p \in Proc, LockRead(p) PROVE TypeOK'
  BY <1>4 DEF LockRead, ReadWord, Goto, PC
<1>5. ASSUME NEW p \in Proc, LockTake(p) PROVE TypeOK'
  BY <1>5, WordFacts DEF LockTake, CanTake, Goto, PC
<1>6. ASSUME NEW p \in Proc, LockMiss(p) PROVE TypeOK'
  BY <1>6 DEF LockMiss, Goto, PC
<1>7. ASSUME NEW p \in Proc, SemRead(p) PROVE TypeOK'
  BY <1>7 DEF SemRead, ReadWord, Goto, PC
<1>8. ASSUME NEW p \in Proc, SemCas(p) PROVE TypeOK'
  BY <1>8, RoomForSleeper, WordFacts DEF SemCas, Goto, PC
<1>9. ASSUME NEW p \in Proc, SemWait(p) PROVE TypeOK'
  BY <1>9 DEF SemWait, Goto, PC
<1>10. ASSUME NEW p \in Proc, SemWaitError(p) PROVE TypeOK'
  BY <1>10 DEF SemWaitError, Goto, PC
<1>11. ASSUME NEW p \in Proc, UnlockRead(p) PROVE TypeOK'
  BY <1>11 DEF UnlockRead, ReadWord, Goto, PC
<1>12. ASSUME NEW p \in Proc, UnlockCas(p) PROVE TypeOK'
  BY <1>12, WordFacts DEF UnlockCas, Goto, PC
<1>13. ASSUME NEW p \in Proc, SemPost(p) PROVE TypeOK'
  BY <1>13 DEF SemPost, Goto, PC
<1>14. ASSUME NEW p \in Proc, SemPostError(p) PROVE TypeOK'
  BY <1>14 DEF SemPostError, Goto, PC
<1>15. CASE UNCHANGED vars
  BY <1>15 DEF vars
<1>16. QED
  BY <1>1, <1>2, <1>3, <1>4, <1>5, <1>6, <1>7, <1>8, <1>9, <1>10, <1>11,
     <1>12, <1>13, <1>14, <1>15 DEF Next, Step

\* The top bit follows the holder, and there is only one: a take needs the bit
\* clear in the word it replaces, and the holder's unlock is the only step
\* that clears it.
LEMMA ExclusionStep == IInv /\ [Next]_vars => (LockBitIsTruth /\ MutualExclusion)'
<1> SUFFICES ASSUME IInv, [Next]_vars PROVE (LockBitIsTruth /\ MutualExclusion)'
  OBVIOUS
<1> USE DEF IInv, TypeOK, LockBitIsTruth, MutualExclusion, Holding
<1>1. ASSUME NEW p \in Proc, TryRead(p) PROVE (LockBitIsTruth /\ MutualExclusion)'
  BY <1>1 DEF TryRead, ReadWord, Goto
<1>2. ASSUME NEW p \in Proc, TryCas(p) PROVE (LockBitIsTruth /\ MutualExclusion)'
  BY <1>2, WordFacts DEF TryCas, CanTake, Goto
<1>3. ASSUME NEW p \in Proc, LockCall(p) PROVE (LockBitIsTruth /\ MutualExclusion)'
  BY <1>3 DEF LockCall, Goto
<1>4. ASSUME NEW p \in Proc, LockRead(p) PROVE (LockBitIsTruth /\ MutualExclusion)'
  BY <1>4 DEF LockRead, ReadWord, Goto
<1>5. ASSUME NEW p \in Proc, LockTake(p) PROVE (LockBitIsTruth /\ MutualExclusion)'
  BY <1>5, WordFacts DEF LockTake, CanTake, Goto
<1>6. ASSUME NEW p \in Proc, LockMiss(p) PROVE (LockBitIsTruth /\ MutualExclusion)'
  BY <1>6 DEF LockMiss, Goto
<1>7. ASSUME NEW p \in Proc, SemRead(p) PROVE (LockBitIsTruth /\ MutualExclusion)'
  BY <1>7 DEF SemRead, ReadWord, Goto
<1>8. ASSUME NEW p \in Proc, SemCas(p) PROVE (LockBitIsTruth /\ MutualExclusion)'
  BY <1>8, RoomForSleeper, WordFacts DEF SemCas, Goto
<1>9. ASSUME NEW p \in Proc, SemWait(p) PROVE (LockBitIsTruth /\ MutualExclusion)'
  BY <1>9 DEF SemWait, Goto
<1>10. ASSUME NEW p \in Proc, SemWaitError(p) PROVE (LockBitIsTruth /\ MutualExclusion)'
  BY <1>10 DEF SemWaitError, Goto
<1>11. ASSUME NEW p \in Proc, UnlockRead(p) PROVE (LockBitIsTruth /\ MutualExclusion)'
  BY <1>11 DEF UnlockRead, ReadWord, Goto
<1>12. ASSUME NEW p \in Proc, UnlockCas(p) PROVE (LockBitIsTruth /\ MutualExclusion)'
  BY <1>12, WordFacts DEF UnlockCas, Goto
<1>13. ASSUME NEW p \in Proc, SemPost(p) PROVE (LockBitIsTruth /\ MutualExclusion)'
  BY <1>13 DEF SemPost, Goto
<1>14. ASSUME NEW p \in Proc, SemPostError(p) PROVE (LockBitIsTruth /\ MutualExclusion)'
  BY <1>14 DEF SemPostError, Goto
<1>15. CASE UNCHANGED vars
  BY <1>15 DEF vars
<1>16. QED
  BY <1>1, <1>2, <1>3, <1>4, <1>5, <1>6, <1>7, <1>8, <1>9, <1>10, <1>11,
     <1>12, <1>13, <1>14, <1>15 DEF Next, Step

\* Without a semaphore no process takes one of its steps.
LEMMA NoSemaphoreStep == IInv /\ [Next]_vars => NoSemaphoreSteps'
<1> SUFFICES ASSUME IInv, [Next]_vars PROVE NoSemaphoreSteps'
  OBVIOUS
<1> USE ShmtxAssumption DEF IInv, TypeOK, NoSemaphoreSteps
<1>1. ASSUME NEW p \in Proc, TryRead(p) PROVE NoSemaphoreSteps'
  BY <1>1 DEF TryRead, ReadWord, Goto
<1>2. ASSUME NEW p \in Proc, TryCas(p) PROVE NoSemaphoreSteps'
  BY <1>2, WordFacts DEF TryCas, CanTake, Goto
<1>3. ASSUME NEW p \in Proc, LockCall(p) PROVE NoSemaphoreSteps'
  BY <1>3 DEF LockCall, Goto
<1>4. ASSUME NEW p \in Proc, LockRead(p) PROVE NoSemaphoreSteps'
  BY <1>4 DEF LockRead, ReadWord, Goto
<1>5. ASSUME NEW p \in Proc, LockTake(p) PROVE NoSemaphoreSteps'
  BY <1>5, WordFacts DEF LockTake, CanTake, Goto
<1>6. ASSUME NEW p \in Proc, LockMiss(p) PROVE NoSemaphoreSteps'
  BY <1>6 DEF LockMiss, Goto
<1>7. ASSUME NEW p \in Proc, SemRead(p) PROVE NoSemaphoreSteps'
  BY <1>7 DEF SemRead, ReadWord, Goto
<1>8. ASSUME NEW p \in Proc, SemCas(p) PROVE NoSemaphoreSteps'
  BY <1>8, RoomForSleeper, WordFacts DEF SemCas, Goto
<1>9. ASSUME NEW p \in Proc, SemWait(p) PROVE NoSemaphoreSteps'
  BY <1>9 DEF SemWait, Goto
<1>10. ASSUME NEW p \in Proc, SemWaitError(p) PROVE NoSemaphoreSteps'
  BY <1>10 DEF SemWaitError, Goto
<1>11. ASSUME NEW p \in Proc, UnlockRead(p) PROVE NoSemaphoreSteps'
  BY <1>11 DEF UnlockRead, ReadWord, Goto
<1>12. ASSUME NEW p \in Proc, UnlockCas(p) PROVE NoSemaphoreSteps'
  BY <1>12, WordFacts DEF UnlockCas, Goto
<1>13. ASSUME NEW p \in Proc, SemPost(p) PROVE NoSemaphoreSteps'
  BY <1>13 DEF SemPost, Goto
<1>14. ASSUME NEW p \in Proc, SemPostError(p) PROVE NoSemaphoreSteps'
  BY <1>14 DEF SemPostError, Goto
<1>15. CASE UNCHANGED vars
  BY <1>15 DEF vars
<1>16. QED
  BY <1>1, <1>2, <1>3, <1>4, <1>5, <1>6, <1>7, <1>8, <1>9, <1>10, <1>11,
     <1>12, <1>13, <1>14, <1>15 DEF Next, Step

\* The accounting of sleepers balances after a step to a label that is neither
\* asleep nor posting, from a label that was not either, that keeps the
\* number of waiters in the word and the semaphore.
LEMMA QuietStep ==
    ASSUME IInv, NEW p \in Proc, NEW label \in PC \ {"sem_wait", "sem_post"},
           Goto(p, label), pc[p] \notin {"sem_wait", "sem_post"},
           Waiters(lock)' = Waiters(lock),
           UNCHANGED <<sem, waitErrors, postErrors>>
    PROVE  WaitAccounting'
BY CountsAfterGoto, CountsAreNat DEF IInv, WaitAccounting

\* A step keeps the accounting: joining the queue adds one to both sides, an
\* unlock turns a waiter into a post, a post into a unit of the semaphore, and
\* a wakeup takes that unit and the sleeper away together.
LEMMA AccountingStep == IInv /\ [Next]_vars => WaitAccounting'
<1> SUFFICES ASSUME IInv, [Next]_vars PROVE WaitAccounting'
  OBVIOUS
<1>a. /\ lock \in Word /\ Waiters(lock) \in Nat /\ sem \in Nat
      /\ waitErrors \in Nat /\ postErrors \in Nat
      /\ val \in [Proc -> Word]
  BY WordFacts, ShmtxAssumption DEF IInv, TypeOK
<1>1. ASSUME NEW p \in Proc, TryRead(p) PROVE WaitAccounting'
  BY <1>1, QuietStep DEF TryRead, ReadWord, PC
<1>2. ASSUME NEW p \in Proc, TryCas(p) PROVE WaitAccounting'
  BY <1>2, QuietStep, <1>a, WordFacts DEF TryCas, CanTake, PC
<1>3. ASSUME NEW p \in Proc, LockCall(p) PROVE WaitAccounting'
  BY <1>3, QuietStep DEF LockCall, PC
<1>4. ASSUME NEW p \in Proc, LockRead(p) PROVE WaitAccounting'
  BY <1>4, QuietStep DEF LockRead, ReadWord, PC
<1>5. ASSUME NEW p \in Proc, LockTake(p) PROVE WaitAccounting'
  BY <1>5, QuietStep, <1>a, WordFacts DEF LockTake, CanTake, PC
<1>6. ASSUME NEW p \in Proc, LockMiss(p) PROVE WaitAccounting'
  BY <1>6, QuietStep DEF LockMiss, PC
<1>7. ASSUME NEW p \in Proc, SemRead(p) PROVE WaitAccounting'
  BY <1>7, QuietStep DEF SemRead, ReadWord, PC
<1>8. ASSUME NEW p \in Proc, SemCas(p) PROVE WaitAccounting'
  <2>1. CASE Locked(val[p]) /\ lock = val[p]
    <3>1. Goto(p, "sem_wait") /\ Waiters(lock') = Waiters(lock) + 1
      BY <1>8, <2>1, <1>a, RoomForSleeper, WordFacts DEF SemCas, IInv
    <3>2. QED
      BY <1>8, <3>1, <1>a, CountsAfterGoto, CountsAreNat
      DEF SemCas, PC, IInv, WaitAccounting
  <2>2. CASE ~(Locked(val[p]) /\ lock = val[p])
    BY <1>8, <2>2, QuietStep DEF SemCas, PC
  <2>3. QED
    BY <2>1, <2>2
<1>9. ASSUME NEW p \in Proc, SemWait(p) PROVE WaitAccounting'
  BY <1>9, <1>a, CountsAfterGoto, CountsAreNat
  DEF SemWait, PC, IInv, WaitAccounting
<1>10. ASSUME NEW p \in Proc, SemWaitError(p) PROVE WaitAccounting'
  BY <1>10, <1>a, CountsAfterGoto, CountsAreNat
  DEF SemWaitError, PC, IInv, WaitAccounting
<1>11. ASSUME NEW p \in Proc, UnlockRead(p) PROVE WaitAccounting'
  BY <1>11, QuietStep DEF UnlockRead, ReadWord, PC
<1>12. ASSUME NEW p \in Proc, UnlockCas(p) PROVE WaitAccounting'
  <2>1. CASE lock = val[p] /\ Waiters(lock) > 0
    <3>1. Semaphore
      BY <2>1, ShmtxAssumption DEF IInv, NoSemaphoreSteps
    <3>2. Goto(p, "sem_post") /\ Waiters(lock') = Waiters(lock) - 1
      BY <1>12, <2>1, <3>1, <1>a, WordFacts DEF UnlockCas
    <3>3. QED
      BY <1>12, <3>2, <1>a, CountsAfterGoto, CountsAreNat
      DEF UnlockCas, PC, IInv, WaitAccounting
  <2>2. CASE lock = val[p] /\ Waiters(lock) = 0
    <3>1. Goto(p, "idle") /\ Waiters(lock') = Waiters(lock)
      BY <1>12, <2>2, <1>a, WordFacts DEF UnlockCas
    <3>2. QED
      BY <1>12, <3>1, QuietStep DEF UnlockCas, PC
  <2>3. CASE lock # val[p]
    BY <1>12, <2>3, QuietStep DEF UnlockCas, PC
  <2>4. QED
    BY <2>1, <2>2, <2>3, <1>a
<1>13. ASSUME NEW p \in Proc, SemPost(p) PROVE WaitAccounting'
  BY <1>13, <1>a, CountsAfterGoto, CountsAreNat
  DEF SemPost, PC, IInv, WaitAccounting
<1>14. ASSUME NEW p \in Proc, SemPostError(p) PROVE WaitAccounting'
  BY <1>14, <1>a, CountsAfterGoto, CountsAreNat
  DEF SemPostError, PC, IInv, WaitAccounting
<1>15. CASE UNCHANGED vars
  BY <1>15 DEF vars, IInv, WaitAccounting, Sleeping, Posting
<1>16. QED
  BY <1>1, <1>2, <1>3, <1>4, <1>5, <1>6, <1>7, <1>8, <1>9, <1>10, <1>11,
     <1>12, <1>13, <1>14, <1>15 DEF Next, Step

\* Nobody who could wake the next sleeper goes away while the mutex is free:
\* an awake process leaves ngx_shmtx_lock with the mutex, or sleeps when it
\* sees the mutex held; a post turns into a unit of the semaphore, and that
\* into an awake process.
LEMMA WakeupStep == IInv /\ [Next]_vars => NoLostWakeup'
<1> SUFFICES ASSUME IInv, [Next]_vars PROVE NoLostWakeup'
  OBVIOUS
<1> USE ShmtxAssumption DEF IInv, TypeOK, NoLostWakeup, Posting, Awake,
           Locking, Sleeping, NoSemaphoreSteps
<1>1. ASSUME NEW p \in Proc, TryRead(p) PROVE NoLostWakeup'
  BY <1>1 DEF TryRead, ReadWord, Goto
<1>2. ASSUME NEW p \in Proc, TryCas(p) PROVE NoLostWakeup'
  BY <1>2, WordFacts DEF TryCas, CanTake, Goto
<1>3. ASSUME NEW p \in Proc, LockCall(p) PROVE NoLostWakeup'
  BY <1>3 DEF LockCall, Goto
<1>4. ASSUME NEW p \in Proc, LockRead(p) PROVE NoLostWakeup'
  BY <1>4 DEF LockRead, ReadWord, Goto
<1>5. ASSUME NEW p \in Proc, LockTake(p) PROVE NoLostWakeup'
  BY <1>5, WordFacts DEF LockTake, CanTake, Goto
<1>6. ASSUME NEW p \in Proc, LockMiss(p) PROVE NoLostWakeup'
  BY <1>6 DEF LockMiss, Goto
<1>7. ASSUME NEW p \in Proc, SemRead(p) PROVE NoLostWakeup'
  BY <1>7 DEF SemRead, ReadWord, Goto
<1>8. ASSUME NEW p \in Proc, SemCas(p) PROVE NoLostWakeup'
  BY <1>8, RoomForSleeper, WordFacts DEF SemCas, Goto
<1>9. ASSUME NEW p \in Proc, SemWait(p) PROVE NoLostWakeup'
  BY <1>9 DEF SemWait, Goto
<1>10. ASSUME NEW p \in Proc, SemWaitError(p) PROVE NoLostWakeup'
  BY <1>10 DEF SemWaitError, Goto
<1>11. ASSUME NEW p \in Proc, UnlockRead(p) PROVE NoLostWakeup'
  BY <1>11 DEF UnlockRead, ReadWord, Goto
<1>12. ASSUME NEW p \in Proc, UnlockCas(p) PROVE NoLostWakeup'
  BY <1>12, WordFacts DEF UnlockCas, Goto
<1>13. ASSUME NEW p \in Proc, SemPost(p) PROVE NoLostWakeup'
  BY <1>13 DEF SemPost, Goto
<1>14. ASSUME NEW p \in Proc, SemPostError(p) PROVE NoLostWakeup'
  BY <1>14 DEF SemPostError, Goto
<1>15. CASE UNCHANGED vars
  BY <1>15 DEF vars
<1>16. QED
  BY <1>1, <1>2, <1>3, <1>4, <1>5, <1>6, <1>7, <1>8, <1>9, <1>10, <1>11,
     <1>12, <1>13, <1>14, <1>15 DEF Next, Step

\* The invariant is inductive.
LEMMA NextIInv == IInv /\ [Next]_vars => IInv'
BY TypeStep, ExclusionStep, NoSemaphoreStep, AccountingStep, WakeupStep
DEF IInv

LEMMA Invariance == Spec => []IInv
BY InitIInv, NextIInv, PTL DEF Spec

-----------------------------------------------------------------------------
\* The word, the semaphore and the local copies keep their types; in
\* particular the count of sleepers never runs into the top bit.
THEOREM TypeCorrect == Spec => []TypeOK
<1>1. IInv => TypeOK
  BY DEF IInv
<1>2. QED
  BY <1>1, Invariance, PTL

\* ngx_shmtx_lock and ngx_shmtx_trylock let one process in at a time.
THEOREM Exclusion == Spec => []MutualExclusion
<1>1. IInv => MutualExclusion
  BY DEF IInv
<1>2. QED
  BY <1>1, Invariance, PTL

\* The top bit of the word says whether the mutex is held, at every moment.
THEOREM LockBit == Spec => []LockBitIsTruth
<1>1. IInv => LockBitIsTruth
  BY DEF IInv
<1>2. QED
  BY <1>1, Invariance, PTL

\* Every process that sleeps in sem_wait() is counted in the word, has a post
\* on the way or a post waiting for it; failing calls are the only exception.
THEOREM Accounting == Spec => []WaitAccounting
<1>1. IInv => WaitAccounting
  BY DEF IInv
<1>2. QED
  BY <1>1, Invariance, PTL

\* A free mutex with registered sleepers always has somebody on the way.
THEOREM Wakeup == Spec => []NoLostWakeup
<1>1. IInv => NoLostWakeup
  BY DEF IInv
<1>2. QED
  BY <1>1, Invariance, PTL

\* A mutex without a semaphore has a word that is only ever 0 or the top bit.
THEOREM NoWaiters == Spec => []NoWaitersWithoutSemaphore
<1>1. IInv => NoWaitersWithoutSemaphore
  BY DEF IInv, NoSemaphoreSteps, NoWaitersWithoutSemaphore
<1>2. QED
  BY <1>1, Invariance, PTL

-----------------------------------------------------------------------------
\* The owner is the process that holds the mutex.
LEMMA OwnerIsHolder ==
    ASSUME MutualExclusion
    PROVE  /\ \A p \in Proc : Holding(p) <=> Owner = p
           /\ (\A p \in Proc : ~Holding(p)) <=> Owner = NoOwner
BY ShmtxAssumption DEF MutualExclusion, Owner

\* A step after which the same processes hold the mutex keeps the owner.
LEMMA SameHolders ==
    ASSUME \A p \in Proc : Holding(p)' <=> Holding(p)
    PROVE  Owner' = Owner
<1>1. {p \in Proc : Holding(p)}' = {p \in Proc : Holding(p)}
  OBVIOUS
<1>2. QED
  BY <1>1 DEF Owner

\* Every step of the mutex is a step of the abstract one or leaves the owner
\* alone: a successful compare-and-set is an Acquire or a Release.
LEMMA StepSimulation == IInv /\ IInv' /\ [Next]_vars => [Abs!Next]_Owner
<1> SUFFICES ASSUME IInv, IInv', [Next]_vars PROVE [Abs!Next]_Owner
  OBVIOUS
<1> USE DEF IInv, TypeOK
<1>a. ASSUME NEW p \in Proc, \A q \in Proc : ~Holding(q), Holding(p)'
      PROVE  Abs!Acquire(p)
  <2>1. Owner = NoOwner
    BY <1>a, OwnerIsHolder
  <2>2. Owner' = p
    BY <1>a DEF MutualExclusion, Owner
  <2>3. QED
    BY <2>1, <2>2 DEF Abs!Acquire
<1>b. ASSUME NEW p \in Proc, Holding(p), \A q \in Proc : ~Holding(q)'
      PROVE  Abs!Release(p)
  <2>1. Owner = p
    BY <1>b, OwnerIsHolder
  <2>2. Owner' = NoOwner
    BY <1>b DEF Owner
  <2>3. QED
    BY <2>1, <2>2 DEF Abs!Release
<1>1. ASSUME NEW p \in Proc, TryCas(p) \/ LockTake(p)
      PROVE  [Abs!Next]_Owner
  <2>1. CASE CanTake(p)
    <3>1. \A q \in Proc : ~Holding(q)
      BY <2>1 DEF CanTake, LockBitIsTruth
    <3>2. Holding(p)'
      BY <1>1, <2>1 DEF TryCas, LockTake, Goto, Holding
    <3>3. QED
      BY <3>1, <3>2, <1>a DEF Abs!Next
  <2>2. CASE ~CanTake(p)
    BY <1>1, <2>2, SameHolders DEF TryCas, LockTake, Goto, Holding
  <2>3. QED
    BY <2>1, <2>2
<1>2. ASSUME NEW p \in Proc, UnlockCas(p) PROVE [Abs!Next]_Owner
  <2>1. CASE lock = val[p]
    <3>1. Holding(p) /\ ~Holding(p)'
      BY <1>2, <2>1 DEF UnlockCas, Goto, Holding
    <3>2. \A q \in Proc : ~Holding(q)'
      BY <1>2, <2>1, <3>1 DEF UnlockCas, Goto, Holding, MutualExclusion
    <3>3. QED
      BY <3>1, <3>2, <1>b DEF Abs!Next
  <2>2. CASE lock # val[p]
    BY <1>2, <2>2, SameHolders DEF UnlockCas, Goto, Holding
  <2>3. QED
    BY <2>1, <2>2
<1>3. ASSUME NEW p \in Proc,
             \/ TryRead(p) \/ LockCall(p) \/ LockRead(p) \/ LockMiss(p)
             \/ SemRead(p) \/ SemCas(p) \/ SemWait(p) \/ SemWaitError(p)
             \/ UnlockRead(p) \/ SemPost(p) \/ SemPostError(p)
      PROVE  [Abs!Next]_Owner
  BY <1>3, SameHolders
  DEF TryRead, LockCall, LockRead, LockMiss, SemRead, SemCas, SemWait,
      SemWaitError, UnlockRead, SemPost, SemPostError, Goto, Holding
<1>4. CASE UNCHANGED vars
  BY <1>4, SameHolders DEF vars, Holding
<1>5. QED
  BY <1>1, <1>2, <1>3, <1>4 DEF Next, Step

\* ngx_shmtx implements the abstract mutex: one owner at a time, taken only
\* when free and given back only by its owner.
THEOREM Implements == Spec => Refinement
<1>1. Init => Abs!Init
  BY DEF Init, Abs!Init, Owner, Holding
<1>2. IInv /\ IInv' /\ [Next]_vars => [Abs!Next]_Owner
  BY StepSimulation
<1>3. QED
  BY <1>1, <1>2, Invariance, PTL DEF Spec, Refinement, Abs!Spec
=============================================================================
