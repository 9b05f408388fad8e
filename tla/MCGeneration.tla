----------------------------- MODULE MCGeneration -----------------------------
(* Two directions, the first with two candidates. *)
EXTENDS Generation, TLC

CONSTANTS D1

MCCount == [d \in Directions |-> IF d = D1 THEN 2 ELSE 1]
Symmetric == Permutations(Workers) \cup Permutations(Keys)
=============================================================================
