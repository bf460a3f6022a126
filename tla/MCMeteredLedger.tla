-------------------------- MODULE MCMeteredLedger --------------------------
(* Instances of MeteredLedger for TLC. *)
EXTENDS MeteredLedger

CONSTANTS l1, l2

TwoLoops == {l1, l2}
FirstLoop == {l1}

=============================================================================
