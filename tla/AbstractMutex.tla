--------------------------- MODULE AbstractMutex ---------------------------
(***************************************************************************)
(* What a caller of ngx_shmtx_lock, ngx_shmtx_trylock and                  *)
(* ngx_shmtx_unlock relies on: the mutex has at most one owner, only a     *)
(* free mutex can be taken, and only its owner gives it back.              *)
(***************************************************************************)
CONSTANTS Proc, NoOwner

VARIABLE owner

Init == owner = NoOwner

Acquire(p) ==
    /\ owner = NoOwner
    /\ owner' = p

Release(p) ==
    /\ owner = p
    /\ owner' = NoOwner

Next == \E p \in Proc : Acquire(p) \/ Release(p)

Spec == Init /\ [][Next]_owner
=============================================================================
