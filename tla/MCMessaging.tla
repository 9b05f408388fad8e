---------------------------- MODULE MCMessaging ----------------------------
(* Messaging for TLC. *)
EXTENDS Messaging, TLC

Symmetry ==
    Permutations(Events) \cup Permutations(Dispatchers) \cup Permutations(Workers)
        \cup Permutations(Tokens)
=============================================================================
