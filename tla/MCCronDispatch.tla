-------------------------- MODULE MCCronDispatch --------------------------
(* Instances of CronDispatch for TLC. *)
EXTENDS CronDispatch

CONSTANTS daemon, shell, j1, j2

=============================================================================
