---------------------------- MODULE MCVectorIndex ----------------------------
(* Instances of VectorIndex for TLC. *)
EXTENDS VectorIndex, TLC

(* The workers are interchangeable; the properties of the run are invariants. *)
WorkerSymmetry == Permutations(Workers)
=============================================================================
