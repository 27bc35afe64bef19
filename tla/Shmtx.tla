------------------------------- MODULE Shmtx -------------------------------
(***************************************************************************)
(* ngx_shmtx_trylock, ngx_shmtx_lock and ngx_shmtx_unlock                  *)
(* (src/src/core/ngx_shmtx.c, NGX_HAVE_ATOMIC_OPS and NGX_HAVE_POSIX_SEM)  *)
(* as run by several worker processes on one mutex in shared memory.       *)
(*                                                                         *)
(* A step is one access to shared memory or to the semaphore: the code     *)
(* reads the word into a local variable and later compares-and-sets it, so *)
(* the two are separate steps and the local copy may be stale.             *)
(***************************************************************************)
EXTENDS ShmtxWord, FiniteSets

CONSTANTS
    Proc,           \* the processes that use the mutex
    NoOwner,        \* "no process owns the mutex"
    Semaphore,      \* mtx->semaphore: TRUE when sem_init() succeeded
    SpinRounds,     \* attempts of the spin loop; 0 on a single-CPU machine
    MaxSemErrors    \* bound on failing sem_wait() and on failing sem_post()

\* There are fewer sleepers, also counting the ones that a failing
\* sem_wait() forgot in the word, than the word can count.
ASSUME ShmtxAssumption ==
    /\ IsFiniteSet(Proc)
    /\ NoOwner \notin Proc
    /\ Semaphore \in BOOLEAN
    /\ SpinRounds \in Nat
    /\ MaxSemErrors \in Nat
    /\ Cardinality(Proc) + MaxSemErrors < HighBit

VARIABLES
    lock,        \* *mtx->lock, the word in shared memory
    sem,         \* the value of mtx->sem
    pc,          \* pc[p]: the next step of process p
    val,         \* val[p]: the copy of the word p read last (val, old)
    spins,       \* spins[p]: failed attempts of p since it last slept
    waitErrors,  \* number of sem_wait() calls that failed
    postErrors   \* number of sem_post() calls that failed

vars == <<lock, sem, pc, val, spins, waitErrors, postErrors>>

PC == {"idle", "try_cas", "lock_read", "lock_cas", "sem_read", "sem_cas",
       "sem_wait", "critical", "unlock_cas", "sem_post"}

TypeOK ==
    /\ lock \in Word
    /\ sem \in Nat
    /\ pc \in [Proc -> PC]
    /\ val \in [Proc -> Word]
    /\ spins \in [Proc -> 0 .. SpinRounds]
    /\ waitErrors \in 0 .. MaxSemErrors
    /\ postErrors \in 0 .. MaxSemErrors

\* ngx_shmtx_create: a zeroed word and sem_init(&mtx->sem, 1, 0).
Init ==
    /\ lock = 0
    /\ sem = 0
    /\ pc = [p \in Proc |-> "idle"]
    /\ val = [p \in Proc |-> 0]
    /\ spins = [p \in Proc |-> 0]
    /\ waitErrors = 0
    /\ postErrors = 0

Goto(p, label) == pc' = [pc EXCEPT ![p] = label]

\* val = *mtx->lock
ReadWord(p) == val' = [val EXCEPT ![p] = lock]

\* Mutant: a plain store in place of the compare-and-set.
CanTakeStale(p) == ~Locked(val[p])

\* (val & 0x80000000) == 0 && ngx_atomic_cmp_set(lock, val, val | 0x80000000)
CanTake(p) == ~Locked(val[p]) /\ lock = val[p]

-----------------------------------------------------------------------------
(* ngx_shmtx_trylock *)

TryRead(p) ==
    /\ pc[p] = "idle"
    /\ ReadWord(p)
    /\ Goto(p, "try_cas")
    /\ UNCHANGED <<lock, sem, spins, waitErrors, postErrors>>

TryCas(p) ==
    /\ pc[p] = "try_cas"
    /\ IF CanTake(p)
       THEN lock' = WithLock(val[p]) /\ Goto(p, "critical")
       ELSE lock' = lock /\ Goto(p, "idle")
    /\ UNCHANGED <<sem, val, spins, waitErrors, postErrors>>

-----------------------------------------------------------------------------
(* ngx_shmtx_lock *)

\* The call, and the first step of its for (;;) loop.
LockCall(p) ==
    /\ pc[p] = "idle"
    /\ spins' = [spins EXCEPT ![p] = 0]
    /\ Goto(p, "lock_read")
    /\ UNCHANGED <<lock, sem, val, waitErrors, postErrors>>

LockRead(p) ==
    /\ pc[p] = "lock_read"
    /\ ReadWord(p)
    /\ Goto(p, "lock_cas")
    /\ UNCHANGED <<lock, sem, spins, waitErrors, postErrors>>

LockTake(p) ==
    /\ pc[p] = "lock_cas"
    /\ CanTake(p)
    /\ lock' = WithLock(val[p])
    /\ Goto(p, "critical")
    /\ UNCHANGED <<sem, val, spins, waitErrors, postErrors>>

\* A failed attempt: spin while the spin loop lasts, then go on to the
\* semaphore, or yield the processor and start over when there is none.
LockMiss(p) ==
    /\ pc[p] = "lock_cas"
    /\ ~CanTake(p)
    /\ IF spins[p] < SpinRounds
       THEN /\ spins' = [spins EXCEPT ![p] = @ + 1]
            /\ Goto(p, "lock_read")
       ELSE /\ spins' = [spins EXCEPT ![p] = 0]
            /\ Goto(p, IF Semaphore THEN "sem_read" ELSE "lock_read")
    /\ UNCHANGED <<lock, sem, val, waitErrors, postErrors>>

SemRead(p) ==
    /\ pc[p] = "sem_read"
    /\ ReadWord(p)
    /\ Goto(p, "sem_cas")
    /\ UNCHANGED <<lock, sem, spins, waitErrors, postErrors>>

\* Mutant: the word is stored even when it changed since it was read.
SemCasBlind(p) ==
    /\ pc[p] = "sem_cas"
    /\ IF Locked(val[p])
       THEN lock' = val[p] + 1 /\ Goto(p, "sem_wait")
       ELSE lock' = lock /\ Goto(p, "lock_read")
    /\ UNCHANGED <<sem, val, spins, waitErrors, postErrors>>

\* Mutant: a process goes to sleep on a mutex that is free.
SemCasUnchecked(p) ==
    /\ pc[p] = "sem_cas"
    /\ IF lock = val[p]
       THEN lock' = val[p] + 1 /\ Goto(p, "sem_wait")
       ELSE lock' = lock /\ Goto(p, "lock_read")
    /\ UNCHANGED <<sem, val, spins, waitErrors, postErrors>>

\* Register as a sleeper, but only in a word that still shows the mutex held.
SemCas(p) ==
    /\ pc[p] = "sem_cas"
    /\ IF Locked(val[p]) /\ lock = val[p]
       THEN lock' = val[p] + 1 /\ Goto(p, "sem_wait")
       ELSE lock' = lock /\ Goto(p, "lock_read")
    /\ UNCHANGED <<sem, val, spins, waitErrors, postErrors>>

\* sem_wait() returns 0.  An EINTR return changes nothing: the code calls
\* sem_wait() again.
SemWait(p) ==
    /\ pc[p] = "sem_wait"
    /\ sem > 0
    /\ sem' = sem - 1
    /\ Goto(p, "lock_read")
    /\ UNCHANGED <<lock, val, spins, waitErrors, postErrors>>

\* Any other error of sem_wait() is logged and leaves the wait.
SemWaitError(p) ==
    /\ pc[p] = "sem_wait"
    /\ waitErrors < MaxSemErrors
    /\ waitErrors' = waitErrors + 1
    /\ Goto(p, "lock_read")
    /\ UNCHANGED <<lock, sem, val, spins, postErrors>>

-----------------------------------------------------------------------------
(* ngx_shmtx_unlock *)

UnlockRead(p) ==
    /\ pc[p] = "critical"
    /\ ReadWord(p)
    /\ Goto(p, "unlock_cas")
    /\ UNCHANGED <<lock, sem, spins, waitErrors, postErrors>>

\* Mutant: a plain store loses the sleepers that registered since the read.
UnlockCasBlind(p) ==
    /\ pc[p] = "unlock_cas"
    /\ lock' = Unlocked(val[p])
    /\ Goto(p, IF Waiters(val[p]) = 0 \/ ~Semaphore THEN "idle" ELSE "sem_post")
    /\ UNCHANGED <<sem, val, spins, waitErrors, postErrors>>

\* Mutant: the number of waiters that are left is tested, not that there were.
UnlockCasOffByOne(p) ==
    /\ pc[p] = "unlock_cas"
    /\ IF lock = val[p]
       THEN /\ lock' = Unlocked(val[p])
            /\ Goto(p, IF Unlocked(val[p]) = 0 \/ ~Semaphore
                       THEN "idle" ELSE "sem_post")
       ELSE lock' = lock /\ Goto(p, "critical")
    /\ UNCHANGED <<sem, val, spins, waitErrors, postErrors>>

\* The loop goes back to the read when the word changed under the caller.
UnlockCas(p) ==
    /\ pc[p] = "unlock_cas"
    /\ IF lock = val[p]
       THEN /\ lock' = Unlocked(val[p])
            /\ Goto(p, IF Waiters(val[p]) = 0 \/ ~Semaphore
                       THEN "idle" ELSE "sem_post")
       ELSE lock' = lock /\ Goto(p, "critical")
    /\ UNCHANGED <<sem, val, spins, waitErrors, postErrors>>

SemPost(p) ==
    /\ pc[p] = "sem_post"
    /\ sem' = sem + 1
    /\ Goto(p, "idle")
    /\ UNCHANGED <<lock, val, spins, waitErrors, postErrors>>

\* A failing sem_post() is only logged.
SemPostError(p) ==
    /\ pc[p] = "sem_post"
    /\ postErrors < MaxSemErrors
    /\ postErrors' = postErrors + 1
    /\ Goto(p, "idle")
    /\ UNCHANGED <<lock, sem, val, spins, waitErrors>>

-----------------------------------------------------------------------------
\* The steps a process takes by itself once it has called the mutex.
Step(p) ==
    \/ TryCas(p)
    \/ LockRead(p) \/ LockTake(p) \/ LockMiss(p)
    \/ SemRead(p) \/ SemCas(p) \/ SemWait(p)
    \/ UnlockRead(p) \/ UnlockCas(p) \/ SemPost(p)

Next == \E p \in Proc :
    \/ Step(p)
    \/ TryRead(p) \/ LockCall(p)
    \/ SemWaitError(p) \/ SemPostError(p)

Spec == Init /\ [][Next]_vars

\* A running process keeps running, and critical sections end.  Nobody has
\* to call the mutex, and nothing has to fail.
FairSpec == Spec /\ \A p \in Proc : WF_vars(Step(p))

-----------------------------------------------------------------------------
(* Properties *)

Holding(p) == pc[p] \in {"critical", "unlock_cas"}
Sleeping == {p \in Proc : pc[p] = "sem_wait"}
Posting == {p \in Proc : pc[p] = "sem_post"}

\* Processes inside ngx_shmtx_lock.
Locking == {p \in Proc : pc[p] \in {"lock_read", "lock_cas", "sem_read",
                                    "sem_cas", "sem_wait"}}

\* The processes inside ngx_shmtx_lock that are awake.
Awake == Locking \ Sleeping

\* At most one process is between a successful lock or trylock and the
\* compare-and-set of its unlock.
MutualExclusion ==
    \A p, q \in Proc : Holding(p) /\ Holding(q) => p = q

\* The top bit is set exactly while some process holds the mutex, whatever
\* the waiter count that shares the word with it.
LockBitIsTruth == Locked(lock) <=> \E p \in Proc : Holding(p)

\* Every registered sleeper is accounted for: it is still counted in the
\* word, or an unlock has taken it over and will post or has posted for it.
\* Only failing semaphore calls can unbalance the two sides.
WaitAccounting ==
    Waiters(lock) + sem + Cardinality(Posting) + postErrors
        = Cardinality(Sleeping) + waitErrors

\* A mutex that is free while the word still counts sleepers has somebody on
\* the way to take it (and to wake the next sleeper when it unlocks): a post
\* under way, a post not yet consumed, or an awake process inside
\* ngx_shmtx_lock.
NoLostWakeup ==
    (~Locked(lock) /\ Waiters(lock) > 0 /\ postErrors = 0)
        => (Posting # {} \/ sem > 0 \/ Awake # {})

\* Without a semaphore nobody ever registers as a sleeper, so the word is
\* only ever free or held: what the accept mutex relies on.
NoWaitersWithoutSemaphore == ~Semaphore => Waiters(lock) = 0 /\ sem = 0

\* The mutex implements the abstract one; the owner is whoever holds it.
Owner == IF \E p \in Proc : Holding(p)
         THEN CHOOSE p \in Proc : Holding(p) ELSE NoOwner

Abs == INSTANCE AbstractMutex WITH owner <- Owner

Refinement == Abs!Spec

\* Whenever a process is inside ngx_shmtx_lock, some process gets the mutex:
\* in particular after every unlock that leaves somebody asleep.  Only a
\* sem_post() that fails, which the code does not repeat, may prevent it.
LockProgress ==
    (Locking # {}) ~> (postErrors > 0 \/ \E p \in Proc : Holding(p))
=============================================================================
