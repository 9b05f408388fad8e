------------------------- MODULE MCDurableOperation -------------------------
(* DurableOperation for TLC. *)
EXTENDS DurableOperation, TLC

Symmetry == Permutations(Workers)

\* The last event is kept for the races with the replay of a terminal failure.
LastEvent ==
    event[MaxEvents].status = "absent"
    \/ \E f \in EventIds : f < MaxEvents /\ IsTerminalReplay(f)
=============================================================================
