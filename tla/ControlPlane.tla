----------------------------- MODULE ControlPlane -----------------------------
(***************************************************************************)
(* The provider control plane and the model router: provider identities,   *)
(* immutable capability versions of endpoints and policy versions, the     *)
(* heads that name the current one, observations of endpoints, and the     *)
(* route decisions made from all of them.                                  *)
(*                                                                         *)
(* Each provider has one endpoint.  What the hard filters of the router    *)
(* look at in a capability is one bit, fit; what they look at in an        *)
(* observation is its age and whether the circuit is closed and the quota  *)
(* sufficient, closed; the score is the observed quality.                  *)
(***************************************************************************)
EXTENDS Idempotency, SequencesExt

CONSTANTS
    Providers,      \* provider and endpoint ids, in their order
    Policy,         \* the route policy key
    MaxAge,         \* maximum_observation_age_seconds
    MaxControlCommands   \* bound: commands sent

ASSUME ControlAssumption == MaxAge \in Nat /\ IsInjective(Providers) /\ Len(Providers) > 0

VARIABLES
    registered,     \* provider identities; nothing disables one
    heads,          \* ProviderEndpointCapabilityHead of each endpoint, ModelRoutePolicyHead
    capabilities,   \* [endpoint, number, fit]
    discovered,     \* discovery candidates
    observations,   \* [endpoint, number, quality, closed, time]
    decisions       \* [policy, ranked]

controlVars == <<registered, heads, capabilities, discovered, observations, decisions>>
-----------------------------------------------------------------------------
Endpoints == Range(Providers)

EmptyHead == [current |-> 0, latest |-> 0, version |-> 0, updated |-> 0]

FirstHead == [current |-> 1, latest |-> 1, version |-> 1, updated |-> 0]

Capability(e, n, fit) == [endpoint |-> e, number |-> n, fit |-> fit]

Observation(e, n, quality, closed, time) ==
    [endpoint |-> e, number |-> n, quality |-> quality, closed |-> closed, time |-> time]

(* ProviderEndpointCapabilityHeadModel, ModelRoutePolicyHeadModel *)
HeadRecord == [current : Nat, latest : Nat, version : Nat, updated : Nat]

(* ProviderEndpointCapabilityVersionModel; a version never changes *)
CapabilityRecord == [endpoint : Endpoints, number : Nat \ {0}, fit : BOOLEAN]

(* ProviderEndpointObservationModel *)
ObservationRecord ==
    [endpoint : Endpoints, number : Nat, quality : Nat, closed : BOOLEAN, time : Nat]

(* ModelRouteDecisionModel: the policy version and the endpoints, the best first *)
DecisionRecord == [policy : Nat \ {0}, ranked : Seq(CapabilityRecord) \ {<<>>}]

ControlTypes ==
    /\ registered \subseteq Endpoints
    /\ heads \in [Endpoints \cup {Policy} -> HeadRecord]
    /\ \A h \in DOMAIN heads : heads[h].current <= heads[h].latest
    /\ capabilities \subseteq CapabilityRecord
    /\ discovered \subseteq Endpoints \X Keys    \* ProviderDiscoveryCandidateModel
    /\ observations \subseteq ObservationRecord
    /\ decisions \subseteq DecisionRecord

(* All providers but the last are in use at the beginning. *)
InUse == Endpoints \ {Last(Providers)}

ControlInit ==
    /\ registered = InUse
    /\ heads = [h \in Endpoints \cup {Policy} |-> IF h \in InUse \cup {Policy} THEN FirstHead ELSE EmptyHead]
    /\ capabilities = {Capability(p, 1, TRUE) : p \in InUse}
    /\ discovered = {}
    /\ observations = {Observation(p, 1, 1, TRUE, 0) : p \in InUse}
    /\ decisions = {}

ProviderRow(p) == <<"provider", p>>
HeadRow(h) == <<"head", h>>
AuthorityRow == <<"authority", None>>
ObservationRow == <<"observations", None>>

(* A rollback may choose any earlier or later version of the head. *)
RollbackRequests(op, h) ==
    {Request(op, "head", h, n, heads[h].version) : n \in (1..heads[h].latest) \ {heads[h].current}}

(* Only an endpoint with a current version is observed: a bad and an open circuit, or a better one. *)
ObservationRequests ==
    {Request("record_endpoint_observation", "observation", p, o, heads[p].current)
        : p \in {q \in registered : heads[q].current > 0}, o \in {<<1, FALSE>>, <<2, TRUE>>}}

ControlRequests ==
    {Request("register_provider", "register", p, None, 0) : p \in Endpoints \ registered}
    \cup {Request("record_discovery_candidate", "discovery", p, None, 0) : p \in registered}
    \cup {Request("publish_capability", "head", p, IF fit THEN 1 ELSE 0, heads[p].version)
             : p \in registered, fit \in BOOLEAN}
    \cup (UNION {RollbackRequests("rollback_capability", p) : p \in registered})
    \cup {Request("publish_route_policy", "head", Policy, 0, heads[Policy].version)}
    \cup RollbackRequests("rollback_route_policy", Policy)
    \cup ObservationRequests
    \cup {Request("route", "model-route", None, heads[Policy].current, 0)}

(* The rows each command reads, in order. *)
ControlRows(t) ==
    LET r == t.request IN
    CASE r.op \in {"register_provider", "record_discovery_candidate"} -> <<KeyRow(t), ProviderRow(r.target)>>
      [] r.op = "publish_capability" -> <<KeyRow(t), ProviderRow(r.target), HeadRow(r.target)>>
      [] r.op \in {"rollback_capability", "publish_route_policy", "rollback_route_policy"} ->
            <<KeyRow(t), HeadRow(r.target)>>
      [] r.op = "record_endpoint_observation" -> <<KeyRow(t)>>
      [] OTHER -> <<KeyRow(t), HeadRow(Policy), AuthorityRow, ObservationRow>>

(* get_provider; a discovery candidate does not lock the provider. *)
ReadProvider(c, row) ==
    LET here == row[2] \in registered IN
    CASE tx[c].request.op = "record_discovery_candidate" -> Look(c, row, here)
      [] tx[c].request.op = "register_provider" -> Lock(c, row, here)
      [] OTHER -> IF here THEN Lock(c, row, here) ELSE Look(c, row, here)

(* get_or_create_..._head_for_update *)
ReadHead(c, row) == Lock(c, row, heads[row[2]])

(* The current capability versions, which load_current_authority locks     *)
(* with their heads and providers in one statement.                        *)
Current == {x \in capabilities : x.endpoint \in registered /\ heads[x.endpoint].current = x.number}

JoinedRows == UNION {{HeadRow(x.endpoint), ProviderRow(x.endpoint)} : x \in Current}

(* Mutant: the router reads the current capabilities without a lock. *)
ReadAuthorityUnlocked(c) == Look(c, AuthorityRow, Current)

ReadAuthority(c) ==
    /\ \A row \in JoinedRows : Free(c, row)
    /\ tx' = [tx EXCEPT ![c].locks = @ \cup JoinedRows, ![c].view = Knowing(@, AuthorityRow, Current)]
    /\ UNCHANGED <<record, applied, starts>>

(* _latest_observations *)
Latest(x) ==
    LET of == {o \in observations : o.endpoint = x.endpoint /\ o.number = x.number}
    IN {o \in of : \A p \in of : p.time <= o.time}

ControlRead(c) ==
    /\ Open(c) /\ ~Answered(tx[c])
    /\ \E row \in Owing(tx[c], ControlRows(tx[c])) :
          CASE row[1] = "key" -> Claim(c)
            [] row[1] = "provider" -> ReadProvider(c, row)
            [] row[1] = "head" -> ReadHead(c, row)
            [] row[1] = "authority" -> ReadAuthority(c)
            [] OTHER -> Look(c, row, UNION {Latest(x) : x \in tx[c].view[AuthorityRow]})
    /\ UNCHANGED controlVars

RegisterProvider(c) ==
    LET t == tx[c]  p == t.request.target IN
    /\ Granted(c, "register_provider", ControlRows(t))
    /\ ~t.view[ProviderRow(p)]
    /\ registered' = registered \cup {p}
    /\ Commit(c)
    /\ UNCHANGED <<heads, capabilities, discovered, observations, decisions>>

RecordDiscoveryCandidate(c) ==
    LET t == tx[c]  p == t.request.target IN
    /\ Granted(c, "record_discovery_candidate", ControlRows(t))
    /\ t.view[ProviderRow(p)]
    /\ discovered' = discovered \cup {<<p, t.key>>}
    /\ Commit(c)
    /\ UNCHANGED <<registered, heads, capabilities, observations, decisions>>

(* The head's version is the one expected, and time has not moved back. *)
HeadAllows(head, expected, time) == head.version = expected /\ time >= head.updated

(* publish *)
Advanced(head, time) ==
    [current |-> head.latest + 1, latest |-> head.latest + 1, version |-> head.version + 1, updated |-> time]

(* rollback *)
RolledBack(head, n, time) == [head EXCEPT !.current = n, !.version = @ + 1, !.updated = time]

MayRollBack(head, n) == head.current # 0 /\ n \in 1..head.latest /\ n # head.current

(* save_..._head: UPDATE ... WHERE version = expected *)
SaveHead(h, head, expected) ==
    /\ heads[h].version = expected
    /\ heads' = [heads EXCEPT ![h] = head]

AddCapabilityVersion(e, n, fit) == capabilities' = capabilities \cup {Capability(e, n, fit)}

PublishCapability(c) ==
    LET t == tx[c]  r == t.request  head == t.view[HeadRow(r.target)] IN
    /\ Granted(c, "publish_capability", ControlRows(t))
    /\ t.view[ProviderRow(r.target)] /\ HeadAllows(head, r.version, t.time)
    /\ AddCapabilityVersion(r.target, head.latest + 1, r.arg = 1)
    /\ SaveHead(r.target, Advanced(head, t.time), r.version)
    /\ Commit(c)
    /\ UNCHANGED <<registered, discovered, observations, decisions>>

RollbackCapability(c) ==
    LET t == tx[c]  r == t.request  head == t.view[HeadRow(r.target)] IN
    /\ Granted(c, "rollback_capability", ControlRows(t))
    /\ HeadAllows(head, r.version, t.time) /\ MayRollBack(head, r.arg)
    /\ SaveHead(r.target, RolledBack(head, r.arg, t.time), r.version)
    /\ Commit(c)
    /\ UNCHANGED <<registered, capabilities, discovered, observations, decisions>>

(* ModelRoutePolicyHead.publish and rollback are those of the capabilities' head. *)
AdvancedPolicy(head, time) == Advanced(head, time)

RolledBackPolicy(head, n, time) == RolledBack(head, n, time)

SavePolicyHead(head, expected) == SaveHead(Policy, head, expected)

PublishRoutePolicy(c) ==
    LET t == tx[c]  r == t.request  head == t.view[HeadRow(Policy)] IN
    /\ Granted(c, "publish_route_policy", ControlRows(t))
    /\ HeadAllows(head, r.version, t.time)
    /\ SavePolicyHead(AdvancedPolicy(head, t.time), r.version)
    /\ Commit(c)
    /\ UNCHANGED <<registered, capabilities, discovered, observations, decisions>>

RollbackRoutePolicy(c) ==
    LET t == tx[c]  r == t.request  head == t.view[HeadRow(Policy)] IN
    /\ Granted(c, "rollback_route_policy", ControlRows(t))
    /\ HeadAllows(head, r.version, t.time) /\ MayRollBack(head, r.arg)
    /\ SavePolicyHead(RolledBackPolicy(head, r.arg, t.time), r.version)
    /\ Commit(c)
    /\ UNCHANGED <<registered, capabilities, discovered, observations, decisions>>

(* An observation names any published version; nothing is locked. *)
RecordEndpointObservation(c) ==
    LET t == tx[c]  r == t.request IN
    /\ Granted(c, "record_endpoint_observation", ControlRows(t))
    /\ \E x \in capabilities : x.endpoint = r.target /\ x.number = r.version
    /\ observations' = observations \cup {Observation(r.target, r.version, r.arg[1], r.arg[2], t.time)}
    /\ Commit(c)
    /\ UNCHANGED <<registered, heads, capabilities, discovered, decisions>>

(* _rejection_for: the version is fit, and its observation is neither      *)
(* missing, nor from the future, nor too old, nor open or exhausted.       *)
Eligible(x, seen, now) ==
    /\ x.fit
    /\ \E o \in seen : /\ o.endpoint = x.endpoint /\ o.number = x.number
                       /\ o.time <= now /\ now - o.time <= MaxAge
                       /\ o.closed

(* _score *)
Score(x, seen) == (CHOOSE o \in seen : o.endpoint = x.endpoint).quality

(* select_model_route: by descending score, then by id *)
Before(x, y, seen) ==
    LET place(z) == CHOOSE i \in DOMAIN Providers : Providers[i] = z.endpoint
    IN \/ Score(x, seen) > Score(y, seen)
       \/ Score(x, seen) = Score(y, seen) /\ place(x) < place(y)

(* The eligible versions, the best first: one sequence, as Before is total. *)
Ranked(eligible, seen) ==
    {ranked \in [1..Cardinality(eligible) -> eligible] :
        \A i, j \in DOMAIN ranked : i < j => Before(ranked[i], ranked[j], seen) /\ ranked[i] # ranked[j]}

AddDecision(policy, ranked) == decisions' = decisions \cup {[policy |-> policy, ranked |-> ranked]}

(* The policy the request was made for must still be the current one. *)
Route(c) ==
    LET t == tx[c]  r == t.request
        seen == t.view[ObservationRow]
        eligible == {x \in t.view[AuthorityRow] : Eligible(x, seen, t.time)}
    IN /\ Granted(c, "route", ControlRows(t))
       /\ t.view[HeadRow(Policy)].current = r.arg /\ r.arg # 0
       /\ eligible # {}
       /\ \E ranked \in Ranked(eligible, seen) : AddDecision(r.arg, ranked)
       /\ Commit(c)
       /\ UNCHANGED <<registered, heads, capabilities, discovered, observations>>

ControlNext(c) ==
    \/ starts < MaxControlCommands /\ \E k \in Keys, r \in ControlRequests : Begin(c, k, r) /\ UNCHANGED controlVars
    \/ ControlRead(c)
    \/ RegisterProvider(c) \/ RecordDiscoveryCandidate(c)
    \/ PublishCapability(c) \/ RollbackCapability(c)
    \/ PublishRoutePolicy(c) \/ RollbackRoutePolicy(c)
    \/ RecordEndpointObservation(c) \/ Route(c)
    \/ Leave(c) /\ UNCHANGED controlVars
-----------------------------------------------------------------------------
(* A decision is made under the policy and from capability versions that   *)
(* are current when it is committed, never from one that a publication or  *)
(* a rollback has replaced meanwhile (load_current_authority).             *)
RouteIsCurrent ==
    [][decisions' # decisions =>
          \A d \in decisions' \ decisions :
              /\ d.policy = heads[Policy].current
              /\ \A i \in DOMAIN d.ranked : d.ranked[i] \in Current /\ d.ranked[i].fit]_<<decisions, heads>>
-----------------------------------------------------------------------------
(* Why it works: a head that a command has read is locked and still so,    *)
(* and so are the heads that made the capability versions it has read      *)
(* current.                                                                *)
ControlView(c) ==
    LET t == tx[c]  op == t.request.op IN
    Open(c) =>
        /\ op = "register_provider" => t.request.target \in Endpoints
        /\ op \in {"publish_route_policy", "rollback_route_policy"} => t.request.target = Policy
        /\ \A h \in DOMAIN heads :
              HeadRow(h) \in DOMAIN t.view => HeadRow(h) \in t.locks /\ t.view[HeadRow(h)] = heads[h]
        /\ AuthorityRow \in DOMAIN t.view =>
              \A x \in t.view[AuthorityRow] : x \in Current /\ HeadRow(x.endpoint) \in t.locks
=============================================================================
