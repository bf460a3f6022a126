-------------------------- MODULE MCHeartbeatQueue --------------------------
(* Instances of HeartbeatQueue for TLC. *)
EXTENDS HeartbeatQueue, TLC

CONSTANTS r1, r2

TwoRunners == {r1, r2}
RunnerSymmetry == Permutations(TwoRunners)

=============================================================================
