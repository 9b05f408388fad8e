----------------------------- MODULE MCToolNode -----------------------------
(* ToolNode for TLC. *)
EXTENDS ToolNode, TLC

Symmetry == Permutations(Workers) \cup Permutations(Slots)
=============================================================================
