----------------------------- MODULE ShmtxWord -----------------------------
(***************************************************************************)
(* The lock word of ngx_shmtx_t (src/src/core/ngx_shmtx.c, the variant    *)
(* built with NGX_HAVE_ATOMIC_OPS).  One machine word in shared memory     *)
(* packs two things: the top bit says that the mutex is held, the bits     *)
(* below it count the processes that went to sleep on the semaphore.  The  *)
(* code tests and changes them together, with one compare-and-set.         *)
(***************************************************************************)
EXTENDS Integers

CONSTANT HighBit    \* the value of the top bit: 0x80000000 in the code

\* A top bit that can carry at least one sleeper below it.
ASSUME HighBitAssumption == HighBit \in Nat /\ HighBit > 1

\* Every value the word can take.
Word == 0 .. (2 * HighBit - 1)

\* val & 0x80000000
Locked(v) == v >= HighBit

\* val | 0x80000000, for a word whose top bit is clear
WithLock(v) == v + HighBit

\* old & 0x7fffffff
Waiters(v) == IF v >= HighBit THEN v - HighBit ELSE v

\* Mutant: the test for no waiters is missing.
UnlockedNoZero(v) == Waiters(v) - 1

\* wait ? wait - 1 : 0, the word that ngx_shmtx_unlock stores
Unlocked(v) == IF Waiters(v) > 0 THEN Waiters(v) - 1 ELSE 0
=============================================================================
