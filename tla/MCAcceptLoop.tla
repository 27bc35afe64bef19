---------------------------- MODULE MCAcceptLoop ----------------------------
(* Instances of AcceptLoop for TLC. *)
EXTENDS AcceptLoop, TLC

\* Any small positive numbers do for the process ids: the same one for all
\* slots keeps the workers interchangeable.
MCPid == [w \in Worker |-> 3]

Symmetry == Permutations(Worker)
=============================================================================
