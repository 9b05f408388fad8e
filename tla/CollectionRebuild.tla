-------------------------- MODULE CollectionRebuild --------------------------
(***************************************************************************)
(* The rebuild of the vector collection of one kind: a candidate is        *)
(* created, filled from a snapshot, brought up to date from the facts      *)
(* recorded since, rescanned for rights, validated and made the collection *)
(* that retrieval is routed to; the old one is retired after a delay.      *)
(*                                                                         *)
(* Time is the number of facts recorded so far, and a watermark is such a  *)
(* number.  Collection 0 is the first one, collection n the candidate of   *)
(* rebuild n, and a record is the only one of its asset.  Commands reach   *)
(* the workers at least once, and a client of module Idempotency is also a *)
(* worker.  Every transaction but the request locks the rebuild row first  *)
(* and is one step.  How records are indexed and removed is the subject of *)
(* module VectorIndex; here it is one step each.                           *)
(***************************************************************************)
EXTENDS Idempotency, FiniteSetsExt

CONSTANTS
    NRecords,            \* embedding records, in the order of their ids
    Batch,               \* batch_size
    Driven,              \* the runner is also driven directly, as the integration test does
    MaxRebuilds,         \* bound: rebuilds
    MaxFacts,            \* bound: facts
    MaxRebuildFaults,    \* bound: failed handlers, lost leases and rights that run out
    MaxRebuildCommands   \* bound: rebuilds requested

ASSUME RebuildAssumption ==
    /\ {NRecords, Batch} \subseteq Nat \ {0} /\ Driven \in BOOLEAN
    /\ {MaxRebuilds, MaxFacts, MaxRebuildFaults, MaxRebuildCommands} \subseteq Nat

VARIABLES
    collections,   \* CollectionRegistryModel
    routing,       \* RetrievalPolicyPointerModel
    rebuilds,      \* CollectionRebuildModel
    placements,    \* CollectionRebuildPlacementModel: <<rebuild, record>>
    embedding,     \* EmbeddingRecordModel, with the usability of the asset
    vectors,       \* Milvus: <<collection, record>>
    facts,         \* the record of each event of REBUILD_REPLAY_EVENT_TYPES
    commands,      \* collection.rebuild.requested events not yet settled
    runner,        \* the handler each worker is in
    setbacks

rebuildVars == <<collections, routing, rebuilds, placements, embedding, vectors, facts,
                 commands, runner, setbacks>>
-----------------------------------------------------------------------------
EmbeddingIds == 1..NRecords

(* A collection that is not in the registry. *)
Unregistered == MaxRebuilds + 1

Resting == [pc |-> "idle", command |-> None, rebuild |-> 0, batch |-> None,
            expected |-> {}, accepted |-> FALSE]

NewCollection(state, enabled) ==
    [state |-> state, reads |-> enabled, writes |-> enabled, version |-> 1]

(* CollectionRegistryModel *)
CollectionRecord ==
    [state : {"PLANNED", "CREATING", "BACKFILLING", "READY", "ACTIVE", "FAILED", "RETIRING", "RETIRED"},
     reads : BOOLEAN, writes : BOOLEAN, version : Nat \ {0}]

(* CollectionRebuildModel; members is a ghost, the times are numbers of facts *)
RebuildRecord ==
    [state : {"REQUESTED", "PROVISIONING", "BACKFILLING", "REPLAYING", "RIGHTS_RESCAN",
              "AWAITING_VALIDATION", "VALIDATING", "READY", "FAILED", "RETIRING", "RETIRED"},
     source : 0..MaxRebuilds, sourceVersion : Nat \ {0}, pointerVersion : Nat \ {0},
     snapshot : Nat, backfill : Nat, replayTo : Nat, replayed : Nat, rights : Nat,
     validated : Nat, accepted : BOOLEAN, members : SUBSET EmbeddingIds]

(* CollectionRebuildPlacementModel *)
PlacementRecord == (1..MaxRebuilds) \X EmbeddingIds

RebuildTypes ==
    /\ collections \in [0..MaxRebuilds -> CollectionRecord \cup {None}]
    /\ routing \in [collection : 0..MaxRebuilds, version : Nat \ {0}]
    /\ rebuilds \in Seq(RebuildRecord) /\ Len(rebuilds) <= MaxRebuilds
    /\ placements \subseteq PlacementRecord
    /\ embedding \in [EmbeddingIds -> [state : {"PENDING", "INDEXED", "REMOVED"}, usable : BOOLEAN,
                                      home : 0..MaxRebuilds, updated : Nat]]
    /\ vectors \subseteq (0..MaxRebuilds) \X EmbeddingIds

RebuildInit ==
    /\ collections = [n \in 0..MaxRebuilds |-> IF n = 0 THEN NewCollection("ACTIVE", TRUE) ELSE None]
    /\ routing = [collection |-> 0, version |-> 1]
    /\ rebuilds = <<>> /\ placements = {} /\ facts = <<>>
    /\ embedding = [r \in EmbeddingIds |->
           [state |-> IF r = NRecords THEN "PENDING" ELSE "INDEXED", usable |-> TRUE,
            home |-> 0, updated |-> 0]]
    /\ vectors = {<<0, r>> : r \in 1..(NRecords - 1)}
    /\ commands = EmptyBag
    /\ runner = [c \in Clients |-> Resting] /\ setbacks = 0

Now == Len(facts)

(* Its version serves only to refuse an administrator who has seen another *)
(* state of the rebuild: what remains are requests made in the state seen. *)
Changed(n, row) == rebuilds' = [rebuilds EXCEPT ![n] = row]

Command(n, kind, trace) == [rebuild |-> n, kind |-> kind, trace |-> trace]

(* MySqlCollectionRebuildRepository._enqueue: the trace is the operation.  *)
Issue(n, kind) == SetToBag({Command(n, kind, "operation")})

(* MySqlCollectionRebuildControl._enqueue_command: the trace is that of    *)
(* the administrator's request.                                            *)
Enqueue(n, kind) == commands' = commands (+) SetToBag({Command(n, kind, "request")})

Registered(n, row) == collections' = [collections EXCEPT ![n] = [row EXCEPT !.version = @ + 1]]

Quiet == UNCHANGED <<embedding, facts>>

Restful == Quiet /\ UNCHANGED setbacks
-----------------------------------------------------------------------------
(* Administration *)

RoutingRow == <<"routing", None>>
CollectionRow(n) == <<"collection", n>>

RebuildRequests ==
    {Request("rebuild", "collection-rebuild-request", None, collections[routing.collection].version,
             routing.version)}

RebuildRows(t) ==
    IF RoutingRow \notin DOMAIN t.view THEN <<KeyRow(t), RoutingRow>>
    ELSE <<KeyRow(t), RoutingRow, CollectionRow(t.view[RoutingRow].collection)>>

RebuildRead(c) ==
    /\ Open(c) /\ ~Answered(tx[c])
    /\ \E row \in Owing(tx[c], RebuildRows(tx[c])) :
          CASE row[1] = "key" -> Claim(c)
            [] row[1] = "routing" -> Lock(c, row, routing)
            [] OTHER -> Lock(c, row, collections[row[2]])
    /\ UNCHANGED rebuildVars

Going == {n \in DOMAIN rebuilds : rebuilds[n].state \notin {"FAILED", "RETIRED"}}

(* Records that retrieval finds: a rebuild must not lose them. *)
Served == {r \in EmbeddingIds : /\ embedding[r].state = "INDEXED" /\ embedding[r].usable
                                /\ embedding[r].home = routing.collection}

(* request: the candidate, the rebuild and its first command *)
RequestRebuild(c) ==
    LET t == tx[c]
        pointed == t.view[RoutingRow]
        source == t.view[CollectionRow(pointed.collection)]
        n == Len(rebuilds) + 1
    IN /\ Granted(c, "rebuild", RebuildRows(t))
       /\ pointed.version = t.request.version /\ source.version = t.request.arg
       /\ source.state = "ACTIVE" /\ source.reads /\ source.writes
       /\ Going = {} /\ n <= MaxRebuilds
       /\ collections' = [collections EXCEPT ![n] = NewCollection("PLANNED", FALSE)]
       /\ rebuilds' = Append(rebuilds,
              [state |-> "REQUESTED", source |-> pointed.collection,
               sourceVersion |-> source.version, pointerVersion |-> pointed.version,
               snapshot |-> Now, backfill |-> 0, replayTo |-> 0, replayed |-> 0, rights |-> 0,
               validated |-> 0, accepted |-> FALSE, members |-> Served])
       /\ Enqueue(n, "CONTINUE")
       /\ Commit(c)
       /\ UNCHANGED <<routing, placements, vectors, runner>> /\ Restful

(* request_validation *)
RequestValidation(n) ==
    /\ rebuilds[n].state \in {"AWAITING_VALIDATION", "VALIDATING"}
    /\ BagCardinality(commands) = 0   \* bound: an impatient administrator waits for a lost command
    /\ Enqueue(n, "VALIDATE")
    /\ UNCHANGED <<collections, routing, rebuilds, placements, vectors, runner>> /\ Restful

Routed(row) ==
    /\ routing.collection = row.source /\ routing.version = row.pointerVersion
    /\ collections[row.source].version = row.sourceVersion
    /\ collections[row.source].state = "ACTIVE"

MayActivate(n) ==
    /\ rebuilds[n].state = "READY" /\ rebuilds[n].accepted
    /\ Routed(rebuilds[n]) /\ collections[n].state = "READY"
    /\ Free(None, RoutingRow) /\ Free(None, CollectionRow(rebuilds[n].source))

(* activate: a fact since validation began sends the rebuild back. *)
ReplayLateFacts(n) ==
    /\ MayActivate(n) /\ Now > rebuilds[n].validated
    /\ Changed(n, [rebuilds[n] EXCEPT !.state = "REPLAYING", !.replayTo = Now])
    /\ Enqueue(n, "CONTINUE")
    /\ UNCHANGED <<collections, routing, placements, vectors, runner>> /\ Restful

(* activate: switch collection, pointer and the placed records of the old  *)
(* collection, whatever their state.                                       *)
Activate(n) ==
    LET row == rebuilds[n]  source == collections[row.source] IN
    /\ MayActivate(n) /\ Now = row.validated
    /\ collections' = [collections EXCEPT
           ![row.source] = [source EXCEPT !.state = "RETIRING", !.writes = FALSE, !.version = @ + 1],
           ![n] = [@ EXCEPT !.state = "ACTIVE", !.reads = TRUE, !.writes = TRUE, !.version = @ + 1]]
    /\ routing' = [collection |-> n, version |-> routing.version + 1]
    /\ embedding' = [r \in EmbeddingIds |->
           IF embedding[r].home = row.source /\ <<n, r>> \in placements
           THEN [embedding[r] EXCEPT !.home = n, !.updated = Now] ELSE embedding[r]]
    /\ Changed(n, [row EXCEPT !.state = "RETIRING", !.sourceVersion = source.version + 1,
                              !.pointerVersion = routing.version + 1])
    /\ Enqueue(n, "RETIRE")
    /\ UNCHANGED <<placements, vectors, facts, runner, setbacks>>
-----------------------------------------------------------------------------
(* Workers: CollectionRebuildRunner.  A handler that raises, or whose      *)
(* worker dies, leaves its command to be delivered again.                  *)

Handling(c, pc) == runner[c].pc = pc

Goto(c, pc) == runner' = [runner EXCEPT ![c].pc = pc]

Phases == {"BACKFILLING", "REPLAYING", "RIGHTS_RESCAN"}

(* process: where the runner begins with a command in the state it loads *)
Entry(m, state) ==
    CASE m.kind = "CONTINUE" /\ state \in {"REQUESTED", "PROVISIONING"} -> "provision"
      [] m.kind = "CONTINUE" /\ state \in Phases -> "load"
      [] m.kind = "VALIDATE" /\ state \in {"AWAITING_VALIDATION", "VALIDATING"} -> "validate"
      [] m.kind = "RETIRE" /\ state = "RETIRING" -> "retire"
      [] OTHER -> "idle"

(* load_command *)
Run(c, m) ==
    LET pc == Entry(m, rebuilds[m.rebuild].state) IN
    runner' = [runner EXCEPT ![c] = IF pc = "idle" THEN Resting ELSE
                  [Resting EXCEPT !.pc = pc, !.command = m, !.rebuild = m.rebuild]]

(* _handle_collection_rebuild: a command with another trace than its       *)
(* operation is not routed, and ends as a dead letter.                     *)
Routable(m) == m.trace = "operation"

Take(c, m) ==
    /\ Handling(c, "idle") /\ ~Open(c) /\ BagIn(m, commands)
    /\ commands' = commands (-) SetToBag({m})
    /\ IF Routable(m) THEN Run(c, m) ELSE UNCHANGED runner
    /\ UNCHANGED <<collections, routing, rebuilds, placements, vectors>> /\ Restful

(* The runner is given the command itself, whatever its trace.             *)
Drive(c, m) ==
    /\ Driven /\ ~Routable(m)
    /\ Handling(c, "idle") /\ ~Open(c) /\ BagIn(m, commands)
    /\ commands' = commands (-) SetToBag({m})
    /\ Run(c, m)
    /\ UNCHANGED <<collections, routing, rebuilds, placements, vectors>> /\ Restful

(* The handler ends: its command is settled, and it has issued others. *)
Finish(c, issued) ==
    /\ commands' = commands (+) issued
    /\ runner' = [runner EXCEPT ![c] = Resting]

Repeated(c) == commands' = commands (+) SetToBag({runner[c].command})

(* The handler raises. *)
Raise(c) == Repeated(c) /\ runner' = [runner EXCEPT ![c] = Resting]

(* The worker dies, or a provider or Milvus fails. *)
Setback(c) ==
    /\ ~Handling(c, "idle") /\ setbacks < MaxRebuildFaults
    /\ setbacks' = setbacks + 1
    /\ Raise(c)
    /\ UNCHANGED <<collections, routing, rebuilds, placements, vectors>> /\ Quiet

(* The worker loses its lease of the command, which is delivered again,    *)
(* and goes on.                                                            *)
Overtaken(c) ==
    /\ ~Handling(c, "idle") /\ setbacks < MaxRebuildFaults
    /\ setbacks' = setbacks + 1
    /\ Repeated(c)
    /\ UNCHANGED <<collections, routing, rebuilds, placements, vectors, runner>> /\ Quiet

BeginProvisioning(c) ==
    LET n == runner[c].rebuild  row == rebuilds[n] IN
    /\ Handling(c, "provision")
    /\ IF row.state = "REQUESTED"
       THEN /\ Changed(n, [row EXCEPT !.state = "PROVISIONING"])
            /\ Registered(n, [collections[n] EXCEPT !.state = "CREATING"])
       ELSE UNCHANGED <<rebuilds, collections>>
    /\ Goto(c, "provisioned")
    /\ UNCHANGED <<routing, placements, vectors, commands>> /\ Restful

(* ensure_collection, which may be repeated, and complete_provisioning *)
CompleteProvisioning(c) ==
    LET n == runner[c].rebuild  row == rebuilds[n] IN
    /\ Handling(c, "provisioned")
    /\ IF row.state = "PROVISIONING"
       THEN /\ Changed(n, [row EXCEPT !.state = "BACKFILLING"])
            /\ Registered(n, [collections[n] EXCEPT !.state = "BACKFILLING"])
            /\ Finish(c, Issue(n, "CONTINUE"))
       ELSE Finish(c, EmptyBag) /\ UNCHANGED <<rebuilds, collections>>
    /\ UNCHANGED <<routing, placements, vectors>> /\ Restful

(* load_rebuild_source: current rights alone decide. *)
MayPlace(r) == embedding[r].usable

FirstOf(S) == {x \in S : Cardinality({y \in S : y < x}) < Batch}

LastOf(S, none) == IF S = {} THEN none ELSE Max(S)

WorkBatch(phase, upserts, deletes, cursor, complete) ==
    [phase |-> phase, upserts |-> upserts, deletes |-> deletes, cursor |-> cursor,
     complete |-> complete]

(* _reconcile_records *)
Reconciled(n, phase, ids, cursor, complete) ==
    WorkBatch(phase, {r \in ids : MayPlace(r)}, {r \in ids : ~MayPlace(r) /\ <<n, r>> \in placements},
              cursor, complete)

(* Mutant: what changed at the watermark itself is left to the replay. *)
BackfillBefore(n) ==
    LET row == rebuilds[n]
        ids == FirstOf({r \in EmbeddingIds : /\ embedding[r].home = row.source
                                             /\ embedding[r].state = "INDEXED"
                                             /\ embedding[r].updated < row.snapshot
                                             /\ r > row.backfill})
    IN WorkBatch(row.state, {r \in ids : MayPlace(r)}, {}, LastOf(ids, row.backfill),
                 Cardinality(ids) < Batch)

BackfillBatch(n) ==
    LET row == rebuilds[n]
        ids == FirstOf({r \in EmbeddingIds : /\ embedding[r].home = row.source
                                             /\ embedding[r].state = "INDEXED"
                                             /\ embedding[r].updated <= row.snapshot
                                             /\ r > row.backfill})
    IN WorkBatch(row.state, {r \in ids : MayPlace(r)}, {}, LastOf(ids, row.backfill),
                 Cardinality(ids) < Batch)

(* _replay_events *)
ReplayBatch(n) ==
    LET row == rebuilds[n]
        found == FirstOf({i \in (row.snapshot + 1)..row.replayTo : i > row.replayed})
        ids == {r \in EmbeddingIds : embedding[r].home = row.source /\ \E i \in found : facts[i] = r}
    IN Reconciled(n, row.state, ids, LastOf(found, row.replayed), Cardinality(found) < Batch)

RescanBatch(n) ==
    LET row == rebuilds[n]
        ids == FirstOf({r \in EmbeddingIds : <<n, r>> \in placements /\ r > row.rights})
    IN Reconciled(n, row.state, ids, LastOf(ids, row.rights), Cardinality(ids) < Batch)

LoadWorkBatch(c) ==
    LET n == runner[c].rebuild  state == rebuilds[n].state IN
    /\ Handling(c, "load")
    /\ runner' = [runner EXCEPT ![c].pc = "write", ![c].batch =
           CASE state = "BACKFILLING" -> BackfillBatch(n)
             [] state = "REPLAYING" -> ReplayBatch(n)
             [] state = "RIGHTS_RESCAN" -> RescanBatch(n)
             [] OTHER -> WorkBatch(state, {}, {}, 0, TRUE)]
    /\ UNCHANGED <<collections, routing, rebuilds, placements, vectors, commands>> /\ Restful

(* embed, upsert and delete_if_generation in the candidate *)
WriteVectors(c) ==
    LET n == runner[c].rebuild  b == runner[c].batch IN
    /\ Handling(c, "write")
    /\ vectors' = (vectors \ ({n} \X b.deletes)) \cup ({n} \X b.upserts)
    /\ Goto(c, "commit")
    /\ UNCHANGED <<collections, routing, rebuilds, placements, commands>> /\ Restful

(* A cursor of another phase does not parse or does not fit its column. *)
CursorFits(state, b) ==
    \/ b.cursor = 0
    \/ state = "REPLAYING" /\ b.phase = "REPLAYING"
    \/ state = "RIGHTS_RESCAN" /\ b.phase # "REPLAYING"
    \/ state \notin {"REPLAYING", "RIGHTS_RESCAN"}

(* What commit_work_batch makes of the rebuild in the state it finds *)
Progressed(row, b) ==
    CASE row.state = "BACKFILLING" ->
            [row EXCEPT !.backfill = b.cursor,
                        !.state = IF b.complete THEN "REPLAYING" ELSE @,
                        !.replayTo = IF b.complete THEN Now ELSE @]
      [] row.state = "REPLAYING" ->
            [row EXCEPT !.replayed = IF b.cursor = 0 THEN @ ELSE b.cursor,
                        !.state = IF b.complete THEN "RIGHTS_RESCAN" ELSE @,
                        !.rights = IF b.complete THEN 0 ELSE @]
      [] row.state = "RIGHTS_RESCAN" ->
            [row EXCEPT !.rights = b.cursor,
                        !.state = IF b.complete THEN "AWAITING_VALIDATION" ELSE @]
      [] OTHER -> row

(* commit_work_batch *)
CommitWorkBatch(c) ==
    LET n == runner[c].rebuild  b == runner[c].batch  row == Progressed(rebuilds[n], b) IN
    /\ Handling(c, "commit") /\ CursorFits(rebuilds[n].state, b)
    /\ placements' = (placements \cup ({n} \X b.upserts)) \ ({n} \X b.deletes)
    /\ Changed(n, row)
    /\ Finish(c, Issue(n, IF row.state = "AWAITING_VALIDATION" THEN "VALIDATE" ELSE "CONTINUE"))
    /\ UNCHANGED <<collections, routing, vectors>> /\ Restful

CommitRefused(c) ==
    /\ Handling(c, "commit") /\ ~CursorFits(rebuilds[runner[c].rebuild].state, runner[c].batch)
    /\ Raise(c)
    /\ UNCHANGED <<collections, routing, rebuilds, placements, vectors>> /\ Restful

(* begin_validation *)
BeginValidation(c) ==
    LET n == runner[c].rebuild  row == rebuilds[n] IN
    /\ Handling(c, "validate")
    /\ IF row.state \in {"AWAITING_VALIDATION", "VALIDATING"}
       THEN /\ Goto(c, "expect") /\ UNCHANGED commands
            /\ IF row.state = "VALIDATING" THEN UNCHANGED rebuilds
               ELSE Changed(n, [row EXCEPT !.state = "VALIDATING", !.validated = Now])
       ELSE Raise(c) /\ UNCHANGED rebuilds
    /\ UNCHANGED <<collections, routing, placements, vectors>> /\ Restful

(* validation_expected *)
ReadExpected(c) ==
    /\ Handling(c, "expect")
    /\ runner' = [runner EXCEPT ![c].pc = "snapshot",
                     ![c].expected = {r \in EmbeddingIds : <<runner[c].rebuild, r>> \in placements}]
    /\ UNCHANGED <<collections, routing, rebuilds, placements, vectors, commands>> /\ Restful

(* _validation_report: the same records, and recall that is good enough *)
ValidationReport(actual, expected, recall) == recall /\ actual = expected

(* collection_snapshot *)
TakeSnapshot(c) ==
    LET actual == {r \in EmbeddingIds : <<runner[c].rebuild, r>> \in vectors} IN
    /\ Handling(c, "snapshot")
    /\ \E recall \in BOOLEAN :
          runner' = [runner EXCEPT ![c].pc = "report",
                        ![c].accepted = ValidationReport(actual, runner[c].expected, recall)]
    /\ UNCHANGED <<collections, routing, rebuilds, placements, vectors, commands>> /\ Restful

(* complete_validation *)
CompleteValidation(c) ==
    LET n == runner[c].rebuild  row == rebuilds[n]  accepted == runner[c].accepted
        outcome == IF accepted THEN "READY" ELSE "FAILED"
    IN /\ Handling(c, "report")
       /\ IF row.state \in {"AWAITING_VALIDATION", "VALIDATING"}
          THEN /\ Changed(n, [row EXCEPT !.state = outcome, !.accepted = accepted])
               /\ Registered(n, [collections[n] EXCEPT !.state = outcome])
          ELSE UNCHANGED <<rebuilds, collections>>
       /\ Finish(c, EmptyBag)
       /\ UNCHANGED <<routing, placements, vectors>> /\ Restful

(* retire_collection: the source is dropped. *)
DropSource(c) ==
    /\ Handling(c, "retire")
    /\ vectors' = {v \in vectors : v[1] # rebuilds[runner[c].rebuild].source}
    /\ Goto(c, "retired")
    /\ UNCHANGED <<collections, routing, rebuilds, placements, commands>> /\ Restful

(* complete_retirement: the command comes when the delay is over. *)
CompleteRetirement(c) ==
    LET n == runner[c].rebuild  row == rebuilds[n] IN
    /\ Handling(c, "retired")
    /\ IF row.state = "RETIRING"
       THEN /\ collections[n].state = "ACTIVE" /\ collections[n].reads
            /\ Changed(n, [row EXCEPT !.state = "RETIRED"])
            /\ Registered(row.source, [collections[row.source] EXCEPT
                   !.state = "RETIRED", !.reads = FALSE, !.writes = FALSE])
       ELSE UNCHANGED <<rebuilds, collections>>
    /\ Finish(c, EmptyBag)
    /\ UNCHANGED <<routing, placements, vectors>> /\ Restful
-----------------------------------------------------------------------------
(* Indexing and rights meanwhile *)

Fact(r, row) ==
    /\ Now < MaxFacts
    /\ facts' = Append(facts, r)
    /\ embedding' = [embedding EXCEPT ![r] = [row EXCEPT !.updated = Now + 1]]
    /\ UNCHANGED <<collections, routing, rebuilds, placements, commands, runner, setbacks>>
    /\ UNCHANGED idempotencyVars

(* upsert_if_current and commit_indexed: a vector goes to the collection   *)
(* that the spec names, which is the first one and never a candidate.      *)
IndexEmbedding(r) ==
    LET e == embedding[r]  open == collections[e.home].state = "ACTIVE" /\ collections[e.home].writes IN
    /\ e.state = "PENDING" /\ e.usable
    /\ vectors' = vectors \cup {<<IF e.home = 0 THEN 0 ELSE Unregistered, r>>}
    /\ Fact(r, [e EXCEPT !.state = IF open THEN "INDEXED" ELSE "REMOVED"])

(* asset.rights.changed *)
RevokeEmbedding(r) ==
    /\ embedding[r].usable
    /\ Fact(r, [embedding[r] EXCEPT !.usable = FALSE])
    /\ UNCHANGED vectors

(* The rights end; nothing records it yet. *)
RightsRunOut(r) ==
    /\ embedding[r].usable /\ setbacks < MaxRebuildFaults
    /\ setbacks' = setbacks + 1
    /\ embedding' = [embedding EXCEPT ![r].usable = FALSE]
    /\ UNCHANGED <<collections, routing, rebuilds, placements, vectors, facts, commands, runner>>
    /\ UNCHANGED idempotencyVars

(* asset.index.delete-requested and the deletion of the vector *)
RemoveEmbedding(r) ==
    /\ ~embedding[r].usable /\ embedding[r].state = "INDEXED"
    /\ vectors' = vectors \ {<<IF embedding[r].home = 0 THEN 0 ELSE Unregistered, r>>}
    /\ Fact(r, [embedding[r] EXCEPT !.state = "REMOVED"])

RunnerNext(c) ==
    /\ \/ \E m \in BagToSet(commands) : Take(c, m) \/ Drive(c, m)
       \/ Setback(c) \/ Overtaken(c)
       \/ BeginProvisioning(c) \/ CompleteProvisioning(c)
       \/ LoadWorkBatch(c) \/ WriteVectors(c) \/ CommitWorkBatch(c) \/ CommitRefused(c)
       \/ BeginValidation(c) \/ ReadExpected(c) \/ TakeSnapshot(c) \/ CompleteValidation(c)
       \/ DropSource(c) \/ CompleteRetirement(c)
    /\ UNCHANGED idempotencyVars

AdministratorNext(n) ==
    /\ RequestValidation(n) \/ ReplayLateFacts(n) \/ Activate(n)
    /\ UNCHANGED idempotencyVars

RebuildNext(c) ==
    \/ /\ starts < MaxRebuildCommands /\ Handling(c, "idle")
       /\ \E k \in Keys, r \in RebuildRequests : Begin(c, k, r) /\ UNCHANGED rebuildVars
    \/ RebuildRead(c) \/ RequestRebuild(c)
    \/ Leave(c) /\ UNCHANGED rebuildVars
    \/ RunnerNext(c)
    \/ \E n \in DOMAIN rebuilds : AdministratorNext(n)
    \/ \E r \in EmbeddingIds : IndexEmbedding(r) \/ RevokeEmbedding(r) \/ RightsRunOut(r) \/ RemoveEmbedding(r)
-----------------------------------------------------------------------------
Untouched(n, r) == \A i \in (rebuilds[n].snapshot + 1)..Now : facts[i] # r

(* A record that retrieval found when a rebuild was requested, that is     *)
(* still usable and that no fact has touched since, is at every moment in  *)
(* the collection that retrieval is routed to, registry and vector alike:  *)
(* backfill by cursor, repeated and overlapping batches, validation, the   *)
(* switch and the retirement of the source lose nothing                    *)
(* (load_work_batch, commit_work_batch, activate, retire_collection).      *)
SnapshotKept ==
    rebuilds # <<>> =>
        LET n == Len(rebuilds) IN
        \A r \in rebuilds[n].members :
            embedding[r].usable /\ Untouched(n, r) =>
                /\ embedding[r].home = routing.collection
                /\ <<routing.collection, r>> \in vectors

Outstanding(n, kinds) ==
    \/ \E m \in BagToSet(commands) : m.rebuild = n /\ m.kind \in kinds
    \/ \E c \in Clients : runner[c].rebuild = n /\ runner[c].command.kind \in kinds

(* A rebuild that workers have to bring forward has a command outstanding  *)
(* (request, complete_provisioning, commit_work_batch, activate).  It is   *)
(* refuted: the worker's handler refuses the first command of a requested  *)
(* rebuild, and no other follows.                                          *)
RebuildGoesOn ==
    \A n \in DOMAIN rebuilds :
        LET state == rebuilds[n].state IN
        /\ state \in {"REQUESTED", "PROVISIONING"} \cup Phases => Outstanding(n, {"CONTINUE"})
        /\ state \in {"AWAITING_VALIDATION", "VALIDATING"} => Outstanding(n, {"VALIDATE"})
        /\ state = "RETIRING" => Outstanding(n, {"RETIRE"})
=============================================================================
