------------------------------ MODULE MCRecords ------------------------------
EXTENDS Records

CONSTANTS p1, p2, p3

ProviderOrder == <<p1, p2, p3>>

(* Nothing but the rebuild, from the request on. *)
RebuildSpec == Init /\ service = "rebuild" /\ [][Next]_vars

Symmetry == Permutations(Clients) \cup Permutations(Keys)
=============================================================================
