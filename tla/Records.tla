------------------------------- MODULE Records -------------------------------
(***************************************************************************)
(* The record services together.  They share the idempotency table and     *)
(* nothing else: scopes differ by service, and no command of one reads a   *)
(* row of another.  So a behaviour follows the commands of one service,    *)
(* which is chosen at the beginning.                                       *)
(***************************************************************************)
EXTENDS Catalog, PromptRegistry, BrandProfiles, ControlPlane, Retrieval

VARIABLE service

vars == <<idempotencyVars, catalogVars, promptVars, brandVars, controlVars, rebuildVars, retrievalVars, service>>

Services == {"catalog", "prompts", "brands", "control", "rebuild", "retrieval"}
-----------------------------------------------------------------------------
Init ==
    /\ IdempotencyInit /\ CatalogInit /\ PromptInit /\ BrandInit /\ ControlInit
    /\ RetrievalInit
    /\ service \in Services
    /\ IF service = "retrieval" THEN RebuildValidated ELSE RebuildInit
    /\ service = "prompts" \/ pointer # None

Next ==
    /\ \/ /\ service = "catalog" /\ \E c \in Clients : CatalogNext(c)
          /\ UNCHANGED <<promptVars, brandVars, controlVars, rebuildVars, retrievalVars>>
       \/ /\ service = "prompts" /\ \E c \in Clients : PromptNext(c)
          /\ UNCHANGED <<catalogVars, brandVars, controlVars, rebuildVars, retrievalVars>>
       \/ /\ service = "brands" /\ \/ \E c \in Clients : BrandNext(c)
                                   \/ \E a \in ChangingAssets : AssetNext(a)
          /\ UNCHANGED <<catalogVars, promptVars, controlVars, rebuildVars, retrievalVars>>
       \/ /\ service = "control" /\ \E c \in Clients : ControlNext(c)
          /\ UNCHANGED <<catalogVars, promptVars, brandVars, rebuildVars, retrievalVars>>
       \/ /\ service = "rebuild" /\ \E c \in Clients : RebuildNext(c)
          /\ UNCHANGED <<catalogVars, promptVars, brandVars, controlVars, retrievalVars>>
       \/ /\ service = "retrieval" /\ RetrievalNext
          /\ UNCHANGED <<catalogVars, promptVars, brandVars, controlVars>>
    /\ UNCHANGED service

Spec == Init /\ [][Next]_vars
-----------------------------------------------------------------------------
(* Every service keeps the rows of its tables. *)
RecordTypes == PromptTypes /\ BrandTypes /\ ControlTypes /\ RebuildTypes /\ starts \in Nat

RowsOf(t) == CASE service = "catalog" -> CatalogRows(t)
               [] service = "prompts" -> PromptRows(t)
               [] service = "brands" -> BrandRows(t)
               [] service = "control" -> ControlRows(t)
               [] OTHER -> RebuildRows(t)

Waits(c, d) == Open(c) /\ Open(d) /\ WaitsFor(c, d, RowsOf(tx[c]))

(* No two commands wait for each other: every command of a service locks   *)
(* revision before pointer, product before identity, profile before        *)
(* assets.  The router is left out: its one statement over heads and       *)
(* providers locks them in an order that the database chooses.             *)
NoDeadlock == service # "control" => ~ \E c, d \in Clients : Waits(c, d) /\ Waits(d, c)
-----------------------------------------------------------------------------
(* Why it works: the rows have an order, and a command asks for a row only *)
(* while all that it holds come before it.                                 *)
Rank(row) ==
    CASE row[1] \in {"profile", "candidates"} -> 1
      [] row[1] = "asset" -> IF row[2] \in 0..NAssets THEN 2 + row[2] ELSE 2
      [] row[1] = "key" -> NAssets + 3
      [] row[1] \in {"identity", "pointer", "collection"} -> NAssets + 5
      [] OTHER -> NAssets + 4

Ahead(c) ==
    \A row \in Owing(tx[c], RowsOf(tx[c])), held \in tx[c].locks : Rank(held) < Rank(row)

RankInv == service # "control" => \A c \in Clients : Open(c) => Ahead(c)

RegistryInv ==
    /\ PromptTypes /\ PointerIsProduction /\ PointerFollows
    /\ service = "prompts" => \A c \in Clients : PromptView(c)

BrandInv == BrandTables /\ (service = "brands" => \A c \in Clients : BrandView(c))

AuthorityInv ==
    /\ DOMAIN heads = Endpoints \cup {Policy} /\ registered \subseteq Endpoints
    /\ service = "control" => \A c \in Clients : ControlView(c)
=============================================================================
