----------------------------- MODULE MCPlanning -----------------------------
(* The planning of a workflow, instantiated for TLC. *)
EXTENDS Planning, TLC

WorkerSymmetry == Permutations(Workers)
=============================================================================
