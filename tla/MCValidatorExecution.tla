------------------------ MODULE MCValidatorExecution ------------------------
(* Small instances of ValidatorExecution for TLC. *)
EXTENDS ValidatorExecution

(* Bound: two exceptions, or one crash, or one rerun of the checks.  A        *)
(* behaviour with no more is followed to its end.                             *)
FewDisturbances == faults + 2 * crashes + 2 * reruns <= 2
=============================================================================
