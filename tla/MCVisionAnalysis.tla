-------------------------- MODULE MCVisionAnalysis --------------------------
(* The vision analysis of a product brief, instantiated for TLC. *)
EXTENDS VisionAnalysis, TLC

WorkerSymmetry == Permutations(Workers)
=============================================================================
