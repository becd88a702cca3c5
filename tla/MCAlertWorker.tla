--------------------------- MODULE MCAlertWorker ---------------------------
(* The instance of AlertWorker that TLC checks. *)
EXTENDS AlertWorker, TLC

Symmetry == Permutations(Workers)
============================================================================
