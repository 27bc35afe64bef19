------------------------------ MODULE MCShmtx ------------------------------
(* Instances of Shmtx for TLC. *)
EXTENDS Shmtx
=============================================================================
