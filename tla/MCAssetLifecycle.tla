-------------------------- MODULE MCAssetLifecycle --------------------------
(* Instances of AssetLifecycle for TLC. *)
EXTENDS AssetLifecycle, TLC

MCStages == <<"LOCAL_FORMAT", "CONTENT_SAFETY">>
MCOffers == {[decision |-> "GRANT", phase |-> p, empty |-> FALSE] : p \in {"FUTURE", "ACTIVE"}}

WorkerSymmetry == Permutations(Workers) \cup Permutations(Versions)

(* Nobody reads the rights of an asset that is being deleted, and their phases pass  *)
(* at any time before: they may as well have ended.                                  *)
RightsRunOut ==
    asset.status \in Unusable /\ rights.decision = "GRANT" => rights.phase = "ENDED"
=============================================================================
