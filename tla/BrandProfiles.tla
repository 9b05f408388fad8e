---------------------------- MODULE BrandProfiles ----------------------------
(***************************************************************************)
(* Brand profiles: drafts over foundation assets, publications that pin    *)
(* the rights record of each member, and the event handlers that mark an   *)
(* active profile for republication when a member's authority is gone.     *)
(*                                                                         *)
(* An asset is kept as its current rights record, whether its use is       *)
(* authorised, and its version; its transactions are those of module       *)
(* AssetLifecycle, which lock the asset row and write the event with it.   *)
(* Rules, roles and the descriptive fields are left out.  A profile is     *)
(* named after the key of the command that created it.                     *)
(***************************************************************************)
EXTENDS Idempotency

CONSTANTS
    Active,           \* a profile that is published at the beginning
    ProfileKeys,      \* (brand, profile_key) pairs clients create
    NAssets,          \* foundation assets
    ChangingAssets,   \* bound: the assets whose rights change
    MaxAssetChanges,  \* bound: changes of the assets' rights
    MaxBrandCommands   \* bound: commands sent

ASSUME BrandAssumption ==
    NAssets \in Nat \ {0} /\ ChangingAssets \subseteq 1..NAssets /\ MaxAssetChanges \in Nat

VARIABLES
    profiles,
    assets,
    rightsEvents,   \* outbox: [asset, version, deleted] not yet handled
    changes

brandVars == <<profiles, assets, rightsEvents, changes>>
-----------------------------------------------------------------------------
Profiles == Keys \cup {Active}

BrandAssets == 1..NAssets

Drafts == {BrandAssets}

(* BrandProfile.create; pins is the current publication *)
NewProfile(profileKey, draft) ==
    [profileKey |-> profileKey, state |-> "DRAFT", draft |-> draft,
     number |-> 0, pins |-> <<>>, version |-> 1]

(* BrandProfileModel, with the number of its current BrandProfileVersionModel and *)
(* the rights records that BrandProfileMemberModel pins                            *)
Pinned == UNION {[members -> 1..(MaxAssetChanges + 1)] : members \in SUBSET BrandAssets}
ProfileRecord ==
    [profileKey : ProfileKeys \cup {Active}, state : {"DRAFT", "ACTIVE", "NEEDS_REPUBLISH"},
     draft : SUBSET BrandAssets, number : Nat, pins : Pinned, version : Nat \ {0}]

BrandTypes ==
    /\ profiles \in [Profiles -> ProfileRecord \cup {None}]
    /\ assets \in [BrandAssets -> [rights : Nat \ {0}, version : Nat \ {0},
                     status : {"USABLE", "LAPSED", "UNUSABLE", "DELETING", "DELETED"}]]
    /\ changes \in Nat

NewAsset == [rights |-> 1, status |-> "USABLE", version |-> 1]

BrandInit ==
    /\ profiles = [p \in Profiles |->
           IF p = Active
           THEN [NewProfile(Active, {1}) EXCEPT !.state = "ACTIVE", !.number = 1,
                                                !.pins = [a \in {1} |-> 1], !.version = 2]
           ELSE None]
    /\ assets = [a \in BrandAssets |-> NewAsset]
    /\ rightsEvents = {} /\ changes = 0

ProfileRow(p) == <<"profile", p>>
ProfileKeyRow(x) == <<"profile_key", x>>
CandidateRow(a) == <<"candidates", a>>
AssetRow(a) == <<"asset", a>>

BrandRequests ==
    LET known == {p \in Profiles : profiles[p] # None}
    IN {Request("create_profile", "create", x, d, 0) : x \in ProfileKeys, d \in Drafts}
       \cup {Request("update_draft", "update-draft", p, d, profiles[p].version) : p \in known, d \in Drafts}
       \cup {Request("publish_profile", "publish", p, None, profiles[p].version) : p \in known}

(* The assets of the draft that a publication has read from the profile *)
DraftRead(t) ==
    LET row == ProfileRow(t.request.target)
    IN IF row \in DOMAIN t.view /\ t.view[row] # None THEN t.view[row].draft ELSE {}

(* publish: the profile, the assets of its draft by their ids, the key.    *)
(* A place whose asset is not in the draft repeats the profile.            *)
PublicationRows(t) ==
    [i \in 0..(NAssets + 1) |->
        IF i = NAssets + 1 THEN KeyRow(t)
        ELSE IF i \in DraftRead(t) THEN AssetRow(i) ELSE ProfileRow(t.request.target)]

(* The rows each command and handler locks, in order. *)
BrandRows(t) ==
    LET r == t.request
    IN CASE r.op = "create_profile" -> <<KeyRow(t), ProfileKeyRow(r.target)>>
         [] r.op = "update_draft" -> <<ProfileRow(r.target), KeyRow(t)>>
         [] r.op = "publish_profile" -> PublicationRows(t)
         [] OTHER -> <<CandidateRow(r.target), AssetRow(r.target)>>

(* lock_current_profiles_referencing_asset *)
Candidates(a) ==
    {p \in Profiles : /\ profiles[p] # None
                      /\ profiles[p].state = "ACTIVE"
                      /\ a \in DOMAIN profiles[p].pins}

LockCandidates(c, a) ==
    /\ \A p \in Candidates(a) : Free(c, ProfileRow(p))
    /\ tx' = [tx EXCEPT ![c].locks = @ \cup {ProfileRow(p) : p \in Candidates(a)},
                        ![c].view = Knowing(@, CandidateRow(a), [p \in Candidates(a) |-> profiles[p]])]
    /\ UNCHANGED <<record, applied, starts>>

(* Mutant: publication reads the assets without locking them. *)
ReadAssetUnlocked(c, row) ==
    IF tx[c].request.op = "publish_profile"
    THEN Look(c, row, assets[row[2]]) ELSE Lock(c, row, assets[row[2]])

(* lock_for_publication, lock_current_asset, lock_asset_deletion_lineage *)
ReadAsset(c, row) == Lock(c, row, assets[row[2]])

(* BrandProfileIdentityRepository.get *)
ReadProfile(c, row) == LockRow(c, row, profiles[row[2]])

(* get_by_key *)
ReadProfileKey(c, row) ==
    Lock(c, row, \E p \in Profiles : profiles[p] # None /\ profiles[p].profileKey = row[2])

BrandRead(c) ==
    /\ Open(c) /\ ~Answered(tx[c])
    /\ \E row \in Owing(tx[c], BrandRows(tx[c])) :
          CASE row[1] = "key" -> Claim(c)
            [] row[1] = "profile" -> ReadProfile(c, row)
            [] row[1] = "profile_key" -> ReadProfileKey(c, row)
            [] row[1] = "candidates" -> LockCandidates(c, row[2])
            [] OTHER -> ReadAsset(c, row)
    /\ UNCHANGED brandVars

CreateProfile(c) ==
    LET t == tx[c] IN
    /\ Granted(c, "create_profile", BrandRows(t))
    /\ ~t.view[ProfileKeyRow(t.request.target)] /\ profiles[t.key] = None
    /\ profiles' = [profiles EXCEPT ![t.key] = NewProfile(t.request.target, t.request.arg)]
    /\ Commit(c)
    /\ UNCHANGED <<assets, rightsEvents, changes>>

(* BrandProfileRepository.save: UPDATE ... WHERE version = expected *)
SaveProfile(p, row, expected) ==
    /\ profiles[p].version = expected
    /\ profiles' = [profiles EXCEPT ![p] = row]

(* BrandProfile.update_draft: an active profile stays active on its last   *)
(* publication.                                                            *)
Edited(p, draft) == [p EXCEPT !.draft = draft, !.version = @ + 1]

UpdateDraft(c) ==
    LET t == tx[c]  r == t.request  p == t.view[ProfileRow(r.target)] IN
    /\ Granted(c, "update_draft", BrandRows(t))
    /\ p # None /\ p.version = r.version
    /\ SaveProfile(r.target, Edited(p, r.arg), p.version)
    /\ Commit(c)
    /\ UNCHANGED <<assets, rightsEvents, changes>>

(* evaluate_current_usability, at the time of the decision *)
Usable(asset) == asset.status = "USABLE"

(* _assess_draft: every selected asset is usable; pin its rights record. *)
Assessed(t, draft) == \A a \in draft : Usable(t.view[AssetRow(a)]) /\ assets[a].status # "LAPSED"
Pins(t, draft) == [a \in draft |-> t.view[AssetRow(a)].rights]

(* BrandProfile.publish *)
Published(p, pins) ==
    [p EXCEPT !.state = "ACTIVE", !.number = @ + 1, !.pins = pins, !.version = @ + 1]

PublishProfile(c) ==
    LET t == tx[c]  r == t.request  p == t.view[ProfileRow(r.target)] IN
    /\ Granted(c, "publish_profile", BrandRows(t))
    /\ p # None /\ p.version = r.version
    /\ Assessed(t, p.draft)
    /\ SaveProfile(r.target, Published(p, Pins(t, p.draft)), p.version)
    /\ Commit(c)
    /\ UNCHANGED <<assets, rightsEvents, changes>>

(* _has_live_pinned_authority *)
LivePinned(p, a, asset) == asset.rights = p.pins[a] /\ Usable(asset)

(* mark_needs_republish *)
MarkNeedsRepublish(p) == [p EXCEPT !.state = "NEEDS_REPUBLISH", !.version = @ + 1]

EventOf(t) == t.request.arg

InvalidateAsset(c) ==
    LET t == tx[c]  a == t.request.target
        found == t.view[CandidateRow(a)]
        stale == {p \in DOMAIN found : ~LivePinned(found[p], a, t.view[AssetRow(a)])}
    IN /\ Granted(c, "invalidate_asset", BrandRows(t))
       /\ \A p \in stale : profiles[p].version = found[p].version
       /\ profiles' = [p \in Profiles |-> IF p \in stale THEN MarkNeedsRepublish(found[p]) ELSE profiles[p]]
       /\ rightsEvents' = rightsEvents \ {EventOf(t)}
       /\ Leave(c)
       /\ UNCHANGED <<assets, changes>>

(* _assert_current_deletion_lineage; an observation of an earlier          *)
(* generation of the asset is superseded.                                  *)
CurrentLineage(asset, e) ==
    asset.version > e.version \/ (asset.version = e.version /\ asset.status = "DELETED")

InvalidateDeletion(c) ==
    LET t == tx[c]  a == t.request.target
        found == t.view[CandidateRow(a)]
        asset == t.view[AssetRow(a)]
        stale == IF asset.version > EventOf(t).version THEN {} ELSE DOMAIN found
    IN /\ Granted(c, "invalidate_deletion", BrandRows(t))
       /\ CurrentLineage(asset, EventOf(t))
       /\ \A p \in stale : profiles[p].version = found[p].version
       /\ profiles' = [p \in Profiles |-> IF p \in stale THEN MarkNeedsRepublish(found[p]) ELSE profiles[p]]
       /\ rightsEvents' = rightsEvents \ {EventOf(t)}
       /\ Leave(c)
       /\ UNCHANGED <<assets, changes>>

(* The worker's handlers of asset.rights.changed and asset.delete.completed. *)
Handler(e) ==
    Request(IF e.deleted THEN "invalidate_deletion" ELSE "invalidate_asset", "event", e.asset, e, 0)

(* A change of the asset by its own transaction. *)
AssetChange(a, row, event) ==
    /\ changes < MaxAssetChanges /\ changes' = changes + 1
    /\ \A c \in Clients : AssetRow(a) \notin tx[c].locks
    /\ assets' = [assets EXCEPT ![a] = row]
    /\ rightsEvents' = IF event = "none" THEN rightsEvents
                       ELSE rightsEvents \cup {[asset |-> a, version |-> row.version, deleted |-> event = "deleted"]}
    /\ UNCHANGED <<profiles, idempotencyVars>>

GrantRights(a) ==
    /\ assets[a].status \in {"USABLE", "LAPSED", "UNUSABLE"}
    /\ AssetChange(a, [rights |-> assets[a].rights + 1, status |-> "USABLE", version |-> assets[a].version + 1],
                   "rights")

(* The record is revoked, or the scan of expired rights finds it. *)
RevokeRights(a) ==
    /\ assets[a].status \in {"USABLE", "LAPSED"}
    /\ AssetChange(a, [assets[a] EXCEPT !.status = "UNUSABLE", !.version = @ + 1], "rights")

(* The validity of the record ends, which nobody notices at once. *)
RightsLapse(a) ==
    /\ assets[a].status = "USABLE" /\ changes < MaxAssetChanges
    /\ changes' = changes + 1
    /\ assets' = [assets EXCEPT ![a].status = "LAPSED"]
    /\ UNCHANGED <<profiles, rightsEvents, idempotencyVars>>

(* A deletion makes the asset unusable and announces only its completion. *)
DeleteAsset(a) ==
    \/ /\ assets[a].status \in {"USABLE", "UNUSABLE"}
       /\ AssetChange(a, [assets[a] EXCEPT !.status = "DELETING", !.version = @ + 1], "none")
    \/ /\ assets[a].status = "DELETING"
       /\ AssetChange(a, [assets[a] EXCEPT !.status = "DELETED", !.version = @ + 1], "deleted")

BrandNext(c) ==
    \/ starts < MaxBrandCommands /\ \E k \in Keys, r \in BrandRequests : Begin(c, k, r) /\ UNCHANGED brandVars
    \/ \E e \in rightsEvents : Deliver(c, Handler(e)) /\ UNCHANGED brandVars
    \/ BrandRead(c)
    \/ CreateProfile(c) \/ UpdateDraft(c) \/ PublishProfile(c)
    \/ InvalidateAsset(c) \/ InvalidateDeletion(c)
    \/ Leave(c) /\ UNCHANGED brandVars

AssetNext(a) == GrantRights(a) \/ RevokeRights(a) \/ RightsLapse(a) \/ DeleteAsset(a)
-----------------------------------------------------------------------------
(* An ACTIVE profile one of whose pinned rights records is no longer in    *)
(* force is always about to be found out: the change has an event that has *)
(* not been handled, the lapsed record has not been scanned, or the asset  *)
(* is being deleted.  No order of publication, rights change and handler   *)
(* lets one slip through (publish, invalidate_asset,                       *)
(* invalidate_foundation_asset_deletion).                                  *)
ActiveIsLive ==
    \A p \in Profiles : profiles[p] # None /\ profiles[p].state = "ACTIVE" =>
        \A a \in DOMAIN profiles[p].pins :
            \/ LivePinned(profiles[p], a, assets[a])
            \/ assets[a].status \in {"LAPSED", "DELETING"}
            \/ \E e \in rightsEvents : e.asset = a
-----------------------------------------------------------------------------
(* Why it works: a handler holds the active profiles it has found, and a   *)
(* profile that is published on the asset after it looked is either live   *)
(* or is found out by a later event than the one in hand.                  *)
FoundOut(p, a, seen) ==
    \/ LivePinned(profiles[p], a, assets[a])
    \/ assets[a].status \in {"LAPSED", "DELETING"}
    \/ \E e \in rightsEvents : e.asset = a /\ e.version > seen

HandlerView(t) ==
    LET a == t.request.target  found == t.view[CandidateRow(a)] IN
    /\ DOMAIN found \subseteq Profiles
    /\ \A p \in DOMAIN found : ProfileRow(p) \in t.locks /\ profiles[p] # None /\ profiles[p] = found[p]
    /\ \A p \in Profiles \ DOMAIN found :
          profiles[p] # None /\ profiles[p].state = "ACTIVE" /\ a \in DOMAIN profiles[p].pins =>
              FoundOut(p, a, EventOf(t).version)

(* An event tells of the asset as it is or was; a deletion is the last. *)
EventKnown(e) ==
    /\ e.asset \in BrandAssets /\ e.version \in Nat /\ e.version <= assets[e.asset].version
    /\ e.deleted => assets[e.asset].status = "DELETED" /\ e.version = assets[e.asset].version

Handlers == {"invalidate_asset", "invalidate_deletion"}

BrandRequest(r) ==
    /\ r.op \in {"create_profile", "update_draft"} => r.arg \in Drafts
    /\ r.op = "create_profile" => r.target \in ProfileKeys
    /\ r.op \in {"update_draft", "publish_profile"} => r.target \in Profiles
    /\ r.op \in Handlers => EventKnown(r.arg) /\ r.target = r.arg.asset
    /\ r.op = "invalidate_deletion" => r.arg.deleted

(* An asset that is read is held, so that only the end of its rights, which *)
(* asks nobody, may come in between.                                        *)
AsRead(seen, asset) ==
    seen.rights = asset.rights /\ seen.version = asset.version /\ asset.status \in {seen.status, "LAPSED"}

BrandView(c) ==
    LET t == tx[c] IN
    Open(c) =>
        /\ BrandRequest(t.request) /\ (t.request.op \in Handlers \/ t.key \in Keys)
        /\ \A p \in Profiles : StillSo(t, ProfileRow(p), profiles[p])
        /\ \A a \in BrandAssets : AssetRow(a) \in DOMAIN t.view =>
              AssetRow(a) \in t.locks /\ AsRead(t.view[AssetRow(a)], assets[a])
        /\ t.request.op \in Handlers /\ CandidateRow(t.request.target) \in DOMAIN t.view => HandlerView(t)

BrandTables ==
    /\ BrandTypes /\ changes <= MaxAssetChanges
    /\ \A a \in BrandAssets : assets[a].rights <= changes + 1
    /\ \A e \in rightsEvents : EventKnown(e)
    /\ ActiveIsLive
=============================================================================
