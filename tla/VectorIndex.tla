----------------------------- MODULE VectorIndex -----------------------------
(***************************************************************************)
(* The vectors of one asset: the embedding records of MySQL, the durable   *)
(* operations that write them, the vectors of Milvus, the events that      *)
(* request an index, remove an index or delete one vector, and the         *)
(* deletion of the asset.                                                  *)
(*                                                                         *)
(* An operation is the one of module DurableOperation, reduced to what an  *)
(* executor sees: one holder at a time whose lease may expire while it     *)
(* still works, retries, reconciliation of an unknown outcome, terminal    *)
(* failure and audited replay.  An event is handled at least once and in   *)
(* any order.  Every method of the indexing authority is one transaction   *)
(* that locks the embedding row; the calls of the provider and of Milvus   *)
(* happen between the transactions.  A provider request is named after the *)
(* worker that made it.                                                    *)
(***************************************************************************)
EXTENDS Naturals, FiniteSets

CONSTANTS
    Workers,
    Kinds,       \* vector kinds
    Texts,       \* controlled texts of the brief: one PRODUCT_FUSED record for each
    Image,       \* the text that stands for the single IMAGE record
    None,
    MaxOps,      \* bound: operations
    MaxGen,      \* bound: write generations of a record
    MaxRights,   \* bound: rights records
    MaxBriefs,   \* bound: confirmed versions of the brief
    MaxReplays,  \* bound: audited replays of an operation
    MaxFaults,   \* bound: crashes, lost answers, late leases, failures, redeliveries
    MaxChanges   \* bound: changes of the rights, brief, collection and asset; replays

ASSUME IndexAssumption ==
    /\ None \notin Workers /\ Image \in Texts /\ IsFiniteSet(Texts)
    /\ {MaxOps, MaxGen, MaxRights, MaxBriefs, MaxReplays, MaxFaults, MaxChanges} \subseteq Nat

VARIABLES
    kind,        \* vector kind of the records
    rights,      \* current usability of the asset for retrieval
    brief,       \* the confirmed product brief, used by PRODUCT_FUSED
    collection,  \* registry state of the collection
    rec,         \* embedding record, with its search document, for each text
    op,          \* durable operations
    worker,
    milvus,      \* vectors: <<record, generation>>
    deletes,     \* delete requests not yet settled
    events,      \* rights events not yet settled, by required convergence
    deletion,    \* the deletion operation of the asset
    faults, changes

vars == <<kind, rights, brief, collection, rec, op, worker, milvus, deletes, events, deletion,
          faults, changes>>
-----------------------------------------------------------------------------
(* State *)

Ended == {"STALE", "DELETE_PENDING", "DELETED"}

(* EmbeddingRecordModel, ProductSearchDocumentModel; NONE: there is no row *)
RowState == {"NONE", "PENDING", "PROCESSING", "INDEXED", "RETRYABLE_FAILED", "PERMANENT_FAILED"}
            \cup Ended
DocState == {"NONE", "PENDING", "INDEXED"} \cup Ended

Record ==
    [state  : RowState,
     gen    : 0..MaxGen,
     op     : 0..MaxOps,
     facts  : Workers \cup {None},   \* provider_request_id and actual_model
     doc    : DocState,
     brief  : 0..MaxBriefs,
     over   : BOOLEAN]               \* history: claimed over a removal

Operation ==
    [state  : {"NONE", "QUEUED", "READY", "RUNNING", "RECONCILING", "SUCCEEDED", "FAILED"},
     record : Texts,
     rights : 0..MaxRights,
     holder : Workers \cup {None},
     replay : 0..MaxReplays,
     told   : BOOLEAN,       \* the terminal failure was told to the record
     done   : BOOLEAN]       \* asset.index.completed was written

WorkerState ==
    [pc     : {"idle", "claim", "lock", "call", "upsert", "commit", "absent", "confirm", "finish"},
     op     : 0..MaxOps, gen : 0..MaxGen, replay : 0..MaxReplays,
     seen   : RowState,      \* of the row, when the claim was authorized
     facts  : Workers \cup {None},
     result : {"none", "success", "retry", "fail", "unknown", "pending"}]

DeleteRequest == [record : Texts, gen : 1..MaxGen, op : 1..MaxOps,
                  step : {"queued", "deleted"}]   \* of its handler

Idle == [pc |-> "idle", op |-> 0, gen |-> 0, replay |-> 0, seen |-> "NONE", facts |-> None,
         result |-> "none"]

Init ==
    /\ kind \in Kinds
    /\ rights = [ok |-> TRUE, version |-> 1]
    /\ brief = [version |-> 1, text |-> Image]
    /\ collection = "PLANNED"
    /\ rec = [t \in Texts |-> [state |-> "NONE", gen |-> 0, op |-> 0, facts |-> None,
                               doc |-> "NONE", brief |-> 0, over |-> FALSE]]
    /\ op = [o \in 1..MaxOps |-> [state |-> "NONE", record |-> Image, rights |-> 0,
                                  holder |-> None, replay |-> 0, told |-> FALSE, done |-> FALSE]]
    /\ worker = [w \in Workers |-> Idle]
    /\ milvus = {} /\ deletes = {} /\ events = {"REINDEX"}
    /\ deletion = [state |-> "NONE", vectors |-> FALSE]
    /\ faults = 0 /\ changes = 0

Disturb == faults < MaxFaults /\ faults' = faults + 1 /\ UNCHANGED changes
Calm == UNCHANGED <<faults, changes>>
Change == changes < MaxChanges /\ changes' = changes + 1 /\ UNCHANGED faults

-----------------------------------------------------------------------------
(* What the authority checks *)

Fused == kind = "PRODUCT_FUSED"

CurrentText == IF Fused THEN brief.text ELSE Image

Doc(state) == IF Fused THEN state ELSE "NONE"

(* Mutant: the rights record is compared, its usability is not looked at. *)
EligibleByVersion(o) == rights.version = op[o].rights

(* _eligibility_reason: usable, and still under the same rights record *)
Eligible(o) == rights.ok /\ rights.version = op[o].rights

(* _assert_current_fused_brief *)
BriefIsCurrent(r) == Fused => rec[r].brief = brief.version

(* _load, _assert_eligible *)
Loads(o) == rec[op[o].record].op = o /\ BriefIsCurrent(op[o].record)
MayIndex(o) == Loads(o) /\ Eligible(o) /\ rec[op[o].record].doc \notin Ended

Of(w) == op[worker[w].op].record
Row(w) == rec[Of(w)]

(* _lock_exact_embedding *)
Exact(w) == Row(w).op = worker[w].op /\ Row(w).gen = worker[w].gen

Replaying(w, state) ==
    LET o == op[worker[w].op] IN
    worker[w].replay > 0 /\ o.state = state /\ o.replay = worker[w].replay

(* validate_request_event: bound to the operation, or already completed *)
ValidRequest(o) == rec[op[o].record].op = o \/ op[o].done

Save(r, row) == rec' = [rec EXCEPT ![r] = row]
DeleteOf(r, row) == [record |-> r, gen |-> row.gen, op |-> row.op, step |-> "queued"]

(* Mutant: a permanent failure leaves the search document as it is. *)
FailedAlone(row, retryable) ==
    [row EXCEPT !.state = IF retryable THEN "RETRYABLE_FAILED" ELSE "PERMANENT_FAILED"]

(* record_failure *)
Failed(row, retryable) ==
    [row EXCEPT !.state = IF retryable THEN "RETRYABLE_FAILED" ELSE "PERMANENT_FAILED",
                !.doc = IF retryable THEN @ ELSE Doc("STALE")]

Goto(w, pc) == worker' = [worker EXCEPT ![w].pc = pc]
End(w, result) ==
    worker' = [worker EXCEPT ![w] = [@ EXCEPT !.pc = "finish", !.result = result, !.gen = 0,
                                              !.seen = "NONE", !.facts = None]]

(* record_failure, then raise; a failure that cannot be recorded escapes from
   the executor and the lease is left to expire *)
RecordFailure(w, retryable) ==
    IF Exact(w) /\ Row(w).state = "PROCESSING"
    THEN Save(Of(w), Failed(Row(w), retryable)) /\ End(w, IF retryable THEN "retry" ELSE "fail")
    ELSE UNCHANGED rec /\ worker' = [worker EXCEPT ![w] = Idle]

-----------------------------------------------------------------------------
(* ImageIndexingExecutor.execute *)

Take(w, o) ==
    /\ worker[w].pc = "idle"
    /\ op[o].state = "READY" \/ (op[o].state = "QUEUED" /\ ValidRequest(o))
    /\ op' = [op EXCEPT ![o].state = "RUNNING", ![o].holder = w]
    /\ worker' = [worker EXCEPT ![w] = [Idle EXCEPT !.pc = "claim", !.op = o,
                                                    !.replay = op[o].replay]]
    /\ Calm
    /\ UNCHANGED <<kind, rights, brief, collection, rec, milvus, deletes, events, deletion>>

(* claim_for_submission reads the row, the brief, the rights and the document
   without a lock and then locks the collection and the row, found by what it
   read.  The locked row is not read again: the decision is on the state seen. *)
Resubmission(row) == row.state = "PROCESSING" /\ row.facts = None
Claimable(w, state) ==
    \/ state \in {"PENDING", "RETRYABLE_FAILED", "STALE", "DELETE_PENDING"}
    \/ state = "PERMANENT_FAILED" /\ Replaying(w, "RUNNING")

(* Mutant: a new attempt writes under the generation of the last one. *)
ClaimedAgain(row) ==
    [row EXCEPT !.gen = IF @ = 0 THEN 1 ELSE @, !.state = "PROCESSING", !.facts = None]

Claimed(row) ==
    [row EXCEPT !.gen = @ + 1, !.state = "PROCESSING", !.facts = None, !.over = row.doc \in Ended]

(* load_for_provisioning, ensure_collection and activate_collection come first;
   the claim checks again all that they checked *)
MayClaim(w) == MayIndex(worker[w].op) /\ collection # "CLOSED"

Authorize(w) ==
    /\ worker[w].pc = "claim" /\ MayClaim(w)
    /\ Resubmission(Row(w)) \/ Claimable(w, Row(w).state)
    /\ collection' = "ACTIVE"
    /\ worker' = [worker EXCEPT ![w] = [@ EXCEPT !.pc = "lock", !.gen = Row(w).gen,
                                                 !.seen = Row(w).state]]
    /\ Calm
    /\ UNCHANGED <<kind, rights, brief, rec, op, milvus, deletes, events, deletion>>

ClaimRefused(w) ==
    /\ worker[w].pc = "claim"
    /\ ~MayClaim(w) \/ ~(Resubmission(Row(w)) \/ Claimable(w, Row(w).state))
    /\ End(w, "fail")
    /\ Calm
    /\ UNCHANGED <<kind, rights, brief, collection, rec, op, milvus, deletes, events, deletion>>

Submit(w, row) ==
    /\ Save(Of(w), row)
    /\ worker' = [worker EXCEPT ![w] = [@ EXCEPT !.pc = "call", !.gen = row.gen, !.seen = "NONE"]]

Locks(w) == collection = "ACTIVE" /\ Exact(w)

Claim(w) ==
    /\ worker[w].pc = "lock" /\ Locks(w)
    /\ \/ worker[w].seen = "PROCESSING" /\ Submit(w, Row(w))
       \/ /\ Claimable(w, worker[w].seen) /\ Row(w).gen < MaxGen
          /\ Submit(w, Claimed(Row(w)))
    /\ Calm
    /\ UNCHANGED <<kind, rights, brief, collection, op, milvus, deletes, events, deletion>>

(* The collection, the operation or the generation changed since. *)
ClaimOvertaken(w) ==
    /\ worker[w].pc = "lock"
    /\ ~Locks(w) \/ (worker[w].seen # "PROCESSING" /\ ~Claimable(w, worker[w].seen))
    /\ End(w, "fail")
    /\ Calm
    /\ UNCHANGED <<kind, rights, brief, collection, rec, op, milvus, deletes, events, deletion>>

(* A dependency of the first steps is unavailable. *)
Unavailable(w) ==
    /\ worker[w].pc \in {"claim", "lock"}
    /\ End(w, "retry")
    /\ Disturb
    /\ UNCHANGED <<kind, rights, brief, collection, rec, op, milvus, deletes, events, deletion>>

(* What the transport observes of a call: it was not sent (no credential, no
   connection), it was sent and nothing came back, or the status came, and a body
   that is whole, no embedding of the request, too large, cut off or late. *)
Wire == [status : {"NOT_SENT", "SENT"}, body : {"NONE"}]
        \cup [status : {"OK", "BUSY", "REFUSED"},
              body : {"EMBEDDING", "INVALID", "TOO_LARGE", "CUT", "LATE"}]

(* 408, 429 and 5xx may be tried again *)
HttpFailure(status) == IF status = "BUSY" THEN "retry" ELSE "fail"

(* A call that may have been paid for and has no result is not tried again. *)
Concluded(e) ==
    CASE e.status = "NOT_SENT" -> "retry"
      [] e.status = "SENT" -> "unknown"
      [] e.status \in {"BUSY", "REFUSED"} -> HttpFailure(e.status)
      [] e.status = "OK" /\ e.body \in {"INVALID", "TOO_LARGE"} -> "fail"
      [] e.status = "OK" /\ e.body \in {"CUT", "LATE"} -> "unknown"
      [] OTHER -> "embedded"

Answers == {Concluded(e) : e \in Wire}

(* Failed, or not allowed by _authorize_transfer: _request_embedding_safely *)
CallFails(w, answer) ==
    /\ worker[w].pc = "call" /\ answer \in {"retry", "fail"}
    /\ RecordFailure(w, answer = "retry")
    /\ Disturb
    /\ UNCHANGED <<kind, rights, brief, collection, op, milvus, deletes, events, deletion>>

CallUnknown(w, answer) ==
    /\ worker[w].pc = "call" /\ answer = "unknown"
    /\ End(w, "unknown")
    /\ Disturb
    /\ UNCHANGED <<kind, rights, brief, collection, rec, op, milvus, deletes, events, deletion>>

(* The embedding arrives: record_provider_result *)
RecordProviderResult(w, answer) ==
    /\ worker[w].pc = "call" /\ answer = "embedded"
    /\ IF Exact(w) /\ Row(w).state = "PROCESSING" /\ Row(w).facts \in {None, w}
       THEN /\ Save(Of(w), [Row(w) EXCEPT !.facts = w])
            /\ worker' = [worker EXCEPT ![w].pc = "upsert", ![w].facts = w]
       ELSE RecordFailure(w, FALSE)
    /\ Calm
    /\ UNCHANGED <<kind, rights, brief, collection, op, milvus, deletes, events, deletion>>

(* _write_vector_safely: known, refused, or unknown with or without effect *)
Upsert(w) ==
    /\ worker[w].pc = "upsert"
    /\ milvus' = milvus \cup {<<Of(w), worker[w].gen>>}
    /\ \/ Goto(w, "commit") /\ Calm
       \/ End(w, "unknown") /\ Disturb
    /\ UNCHANGED <<kind, rights, brief, collection, rec, op, deletes, events, deletion>>

UpsertLost(w) ==
    /\ worker[w].pc = "upsert"
    /\ End(w, "unknown")
    /\ Disturb
    /\ UNCHANGED <<kind, rights, brief, collection, rec, op, milvus, deletes, events, deletion>>

UpsertRefused(w) ==
    /\ worker[w].pc = "upsert"
    /\ RecordFailure(w, FALSE)
    /\ Disturb
    /\ UNCHANGED <<kind, rights, brief, collection, op, milvus, deletes, events, deletion>>

-----------------------------------------------------------------------------
(* commit_after_upsert, from an execution or from a reconciliation *)

Completed(w) == op' = [op EXCEPT ![worker[w].op].done = TRUE]

(* _lock_embedding_after_upsert: the row of a later operation *)
Superseded(w) ==
    worker[w].facts # None /\ Row(w).op # worker[w].op /\ Row(w).gen >= worker[w].gen

Provenance(w) == worker[w].facts # None /\ Row(w).facts = worker[w].facts

MayCommit(w) ==
    /\ Exact(w) /\ Provenance(w)
    /\ Row(w).state = "PROCESSING"
       \/ (Row(w).state = "PERMANENT_FAILED" /\ Replaying(w, "RECONCILING"))
    /\ BriefIsCurrent(Of(w))

StillIndexable(w) == Eligible(worker[w].op) /\ collection = "ACTIVE"

OwnRequest(w) == DeleteOf(Of(w), worker[w])

CommitIndexed(w) ==
    /\ MayCommit(w) /\ StillIndexable(w)
    /\ Save(Of(w), [Row(w) EXCEPT !.state = "INDEXED", !.doc = Doc("INDEXED")])
    /\ Completed(w)
    /\ UNCHANGED deletes

CommitStale(w) ==
    /\ MayCommit(w) /\ ~StillIndexable(w)
    /\ Save(Of(w), [Row(w) EXCEPT !.state = "DELETE_PENDING", !.doc = Doc("DELETE_PENDING")])
    /\ deletes' = deletes \cup {OwnRequest(w)}
    /\ Completed(w)

CommitSuperseded(w) ==
    /\ Superseded(w)
    /\ deletes' = deletes \cup {OwnRequest(w)}
    /\ Completed(w)
    /\ UNCHANGED rec

(* Committed before, or removed meanwhile: nothing is written. *)
CommitAgain(w) ==
    /\ Exact(w) /\ Provenance(w)
    /\ \/ Row(w).state = "INDEXED" /\ BriefIsCurrent(Of(w))
       \/ Row(w).state \in {"DELETE_PENDING", "DELETED"}
    /\ UNCHANGED <<rec, op, deletes>>

CommitAfterUpsert(w) ==
    CommitIndexed(w) \/ CommitStale(w) \/ CommitSuperseded(w) \/ CommitAgain(w)

Commits(w) ==
    \/ MayCommit(w) \/ Superseded(w)
    \/ /\ Exact(w) /\ Provenance(w)
       /\ \/ Row(w).state = "INDEXED" /\ BriefIsCurrent(Of(w))
          \/ Row(w).state \in {"DELETE_PENDING", "DELETED"}

Commit(w) ==
    /\ worker[w].pc = "commit"
    /\ CommitAfterUpsert(w)
    /\ End(w, "success")
    /\ Calm
    /\ UNCHANGED <<kind, rights, brief, collection, milvus, events, deletion>>

CommitUnknown(w) ==
    /\ worker[w].pc = "commit"
    /\ CommitAfterUpsert(w) \/ UNCHANGED <<rec, op, deletes>>
    /\ End(w, "unknown")
    /\ Disturb
    /\ UNCHANGED <<kind, rights, brief, collection, milvus, events, deletion>>

CommitRefused(w) ==
    /\ worker[w].pc = "commit" /\ ~Commits(w)
    /\ RecordFailure(w, FALSE)
    /\ Calm
    /\ UNCHANGED <<kind, rights, brief, collection, op, milvus, deletes, events, deletion>>

-----------------------------------------------------------------------------
(* ImageIndexingExecutor.reconcile *)

(* load_committed_outcome, load_for_reconciliation, VectorIndexPort.prove *)
Proof(o) ==
    LET row == rec[op[o].record]
        at(pc) == [Idle EXCEPT !.pc = pc, !.op = o, !.replay = op[o].replay]
    IN  IF op[o].done THEN [at("finish") EXCEPT !.result = "success"]
        ELSE IF ~Loads(o) \/ row.gen = 0 THEN [at("finish") EXCEPT !.result = "fail"]
        ELSE [at(IF <<op[o].record, row.gen>> \in milvus THEN "confirm" ELSE "absent")
                EXCEPT !.gen = row.gen, !.facts = row.facts]

Reconcile(w, o) ==
    /\ worker[w].pc = "idle"
    /\ op[o].state = "RECONCILING" /\ op[o].holder = None
    /\ op' = [op EXCEPT ![o].holder = w]
    /\ worker' = [worker EXCEPT ![w] = Proof(o)]
    /\ Calm
    /\ UNCHANGED <<kind, rights, brief, collection, rec, milvus, deletes, events, deletion>>

ProofUnavailable(w) ==
    /\ worker[w].pc \in {"absent", "confirm"}
    /\ End(w, "pending")
    /\ Disturb
    /\ UNCHANGED <<kind, rights, brief, collection, rec, op, milvus, deletes, events, deletion>>

(* A failure that cannot be recorded is passed over here. *)
Refute(w, retryable) ==
    IF Exact(w) /\ Row(w).state = "PROCESSING"
    THEN Save(Of(w), Failed(Row(w), retryable)) /\ End(w, IF retryable THEN "retry" ELSE "fail")
    ELSE UNCHANGED rec /\ End(w, "fail")

Absent(w) ==
    /\ worker[w].pc = "absent"
    /\ Refute(w, TRUE)
    /\ Calm
    /\ UNCHANGED <<kind, rights, brief, collection, op, milvus, deletes, events, deletion>>

Confirm(w) ==
    /\ worker[w].pc = "confirm"
    /\ CommitAfterUpsert(w)
    /\ End(w, "success")
    /\ Calm
    /\ UNCHANGED <<kind, rights, brief, collection, milvus, events, deletion>>

ConfirmRefused(w) ==
    /\ worker[w].pc = "confirm" /\ ~Commits(w)
    /\ Refute(w, FALSE)
    /\ Calm
    /\ UNCHANGED <<kind, rights, brief, collection, op, milvus, deletes, events, deletion>>

-----------------------------------------------------------------------------
(* The operation around the executor *)

Afterwards(result) ==
    CASE result = "success" -> {"SUCCEEDED"}
      [] result = "retry"   -> {"READY", "FAILED"}       \* or attempts exhausted
      [] result = "fail"    -> {"FAILED"}
      [] result = "unknown" -> {"RECONCILING"}
      [] result = "pending" -> {"RECONCILING", "FAILED"} \* or reconciliation exhausted

(* A result is applied under the lease of its claim only. *)
Finish(w) ==
    /\ worker[w].pc = "finish"
    /\ LET o == worker[w].op IN
       IF op[o].holder = w /\ op[o].replay = worker[w].replay
       THEN \E s \in Afterwards(worker[w].result) :
               op' = [op EXCEPT ![o].state = s, ![o].holder = None, ![o].told = FALSE]
       ELSE UNCHANGED op
    /\ worker' = [worker EXCEPT ![w] = Idle]
    /\ Calm
    /\ UNCHANGED <<kind, rights, brief, collection, rec, milvus, deletes, events, deletion>>

(* The lease of a crashed or a slow worker. *)
LeaseExpires(o) ==
    /\ op[o].holder # None
    /\ op' = [op EXCEPT ![o].state = "RECONCILING", ![o].holder = None]
    /\ IF worker[op[o].holder].op = o THEN Disturb ELSE Calm
    /\ UNCHANGED <<kind, rights, brief, collection, rec, worker, milvus, deletes, events, deletion>>

Crash(w) ==
    /\ worker[w].pc # "idle"
    /\ worker' = [worker EXCEPT ![w] = Idle]
    /\ Disturb
    /\ UNCHANGED <<kind, rights, brief, collection, rec, op, milvus, deletes, events, deletion>>

(* record_terminal_failure, mark_terminal_failure *)
MarkTerminalFailure(o) ==
    LET r == op[o].record IN
    /\ op[o].state = "FAILED" /\ ~op[o].told
    /\ op' = [op EXCEPT ![o].told = TRUE]
    /\ IF rec[r].op = o /\ rec[r].state \in {"PENDING", "PROCESSING", "RETRYABLE_FAILED"}
       THEN Save(r, Failed(rec[r], FALSE))
       ELSE UNCHANGED rec
    /\ Calm
    /\ UNCHANGED <<kind, rights, brief, collection, worker, milvus, deletes, events, deletion>>

Replay(o) ==
    /\ op[o].state = "FAILED" /\ op[o].told /\ op[o].replay < MaxReplays
    /\ \E s \in {"READY", "RECONCILING"} :
          op' = [op EXCEPT ![o].state = s, ![o].replay = @ + 1]
    /\ Change
    /\ UNCHANGED <<kind, rights, brief, collection, rec, worker, milvus, deletes, events, deletion>>

-----------------------------------------------------------------------------
(* Requests *)

(* The event is settled, or stays to be delivered again. *)
Settle(e) ==
    \/ events' = events \ {e} /\ Calm
    \/ UNCHANGED events /\ Disturb

FreshOps == {o \in 1..MaxOps : op[o].state = "NONE"}

NewOperation(o, r) ==
    op' = [op EXCEPT ![o].state = "QUEUED", ![o].record = r, ![o].rights = rights.version]

Pending(row, o) ==
    [row EXCEPT !.state = "PENDING", !.op = o, !.facts = None, !.doc = Doc("PENDING"), !.over = FALSE,
                !.brief = IF Fused THEN brief.version ELSE 0]

HoldsVector(row) == row.gen > 0 /\ row.state \in {"INDEXED", "PROCESSING", "RETRYABLE_FAILED"}

(* _stale_superseded_fused: the records of other texts *)
SupersededText(t) ==
    IF rec[t].state \in Ended \cup {"NONE"} THEN rec[t]
    ELSE LET s == IF HoldsVector(rec[t]) THEN "DELETE_PENDING" ELSE "STALE"
         IN [rec[t] EXCEPT !.state = s, !.doc = Doc(s)]

RequestNew(o) ==
    LET r == CurrentText IN
    /\ rec[r].state = "NONE"
    /\ rec' = [t \in Texts |-> IF t = r THEN Pending(rec[r], o)
                               ELSE IF Fused THEN SupersededText(t) ELSE rec[t]]
    /\ deletes' = IF Fused
                  THEN deletes \cup {DeleteOf(t, rec[t]) : t \in {u \in Texts \ {r} : HoldsVector(rec[u])}}
                  ELSE deletes
    /\ NewOperation(o, r)

(* The rights changed, or the record comes back to life. *)
Reactivated(r) ==
    /\ rec[r].state \notin {"NONE", "PERMANENT_FAILED"}
    /\ rec[r].state \in Ended \/ op[rec[r].op].rights # rights.version

RequestAgain(o) ==
    LET r == CurrentText IN
    /\ Reactivated(r)
    /\ deletes' = IF HoldsVector(rec[r]) THEN deletes \cup {DeleteOf(r, rec[r])} ELSE deletes
    /\ Save(r, Pending(rec[r], o))
    /\ NewOperation(o, r)

(* Nothing to index: at most the provenance of the record moves on. *)
RequestKnown ==
    LET r == CurrentText IN
    /\ rec[r].state # "NONE" /\ ~Reactivated(r)
    /\ Save(r, [rec[r] EXCEPT !.brief = IF Fused THEN brief.version ELSE 0])
    /\ UNCHANGED <<op, deletes>>

MayRequest == "REINDEX" \in events /\ rights.ok /\ collection # "CLOSED"

(* request_current_image, request_current_product_fused_for_asset *)
RequestIndex ==
    /\ MayRequest
    /\ RequestKnown \/ \E o \in FreshOps :
                          /\ \A p \in FreshOps : o <= p
                          /\ RequestNew(o) \/ RequestAgain(o)
    /\ Settle("REINDEX")
    /\ UNCHANGED <<kind, rights, brief, collection, worker, milvus, deletion>>

RequestNotApplicable ==
    /\ "REINDEX" \in events /\ ~rights.ok
    /\ events' = events \ {"REINDEX"}
    /\ Calm
    /\ UNCHANGED <<kind, rights, brief, collection, rec, op, worker, milvus, deletes, deletion>>

(* mark_current_asset_stale *)
Removed(row) ==
    IF row.state \in Ended \cup {"NONE"} THEN row
    ELSE LET s == IF row.gen > 0 THEN "DELETE_PENDING" ELSE "STALE"
         IN [row EXCEPT !.state = s, !.doc = Doc(s)]

RemovalRequests == {DeleteOf(t, rec[t]) : t \in {u \in Texts :
                       rec[u].state \notin Ended \cup {"NONE"} /\ rec[u].gen > 0}}

RemoveIndex ==
    /\ "REMOVE" \in events
    /\ rec' = [t \in Texts |-> Removed(rec[t])]
    /\ deletes' = deletes \cup RemovalRequests
    /\ Settle("REMOVE")
    /\ UNCHANGED <<kind, rights, brief, collection, op, worker, milvus, deletion>>

-----------------------------------------------------------------------------
(* asset.index.delete-requested *)

Advance(d, step) == deletes' = (deletes \ {d}) \cup {[d EXCEPT !.step = step]}

SameWrite(d) == rec[d.record].gen = d.gen /\ rec[d.record].op = d.op

(* load_delete_target *)
DeleteTarget(d) ==
    SameWrite(d) => rec[d.record].state \in {"DELETE_PENDING", "DELETED"}

(* Mutant: the vector of the record is deleted, whatever its generation. *)
DeletedAnyKey(d) == <<d.record, rec[d.record].gen>>

DeletedKey(d) == <<d.record, d.gen>>

DeleteIfGeneration(d) ==
    /\ d.step = "queued" /\ DeleteTarget(d)
    /\ milvus' = milvus \ {DeletedKey(d)}
    /\ Advance(d, "deleted")
    /\ Calm
    /\ UNCHANGED <<kind, rights, brief, collection, rec, op, worker, events, deletion>>

CompleteDelete(d) ==
    /\ d.step = "deleted"
    /\ IF SameWrite(d) /\ rec[d.record].state = "DELETE_PENDING"
       THEN Save(d.record, [rec[d.record] EXCEPT !.state = "DELETED", !.doc = Doc("DELETED")])
       ELSE UNCHANGED rec
    /\ deletes' = deletes \ {d}
    /\ Calm
    /\ UNCHANGED <<kind, rights, brief, collection, op, worker, milvus, events, deletion>>

(* The handler dies, or its event is delivered again. *)
DeleteAgain(d) ==
    /\ d.step # "queued"
    /\ Advance(d, "queued")
    /\ Disturb
    /\ UNCHANGED <<kind, rights, brief, collection, rec, op, worker, milvus, events, deletion>>

-----------------------------------------------------------------------------
(* The asset, its rights, the brief and the collection *)

Grant ==
    /\ deletion.state = "NONE" /\ rights.version < MaxRights
    /\ rights' = [ok |-> TRUE, version |-> rights.version + 1]
    /\ events' = events \cup {"REINDEX"}
    /\ Change
    /\ UNCHANGED <<kind, brief, collection, rec, op, worker, milvus, deletes, deletion>>

Revoke ==
    /\ rights.ok
    /\ rights' = [rights EXCEPT !.ok = FALSE]
    /\ events' = events \cup {"REMOVE"}
    /\ Change
    /\ UNCHANGED <<kind, brief, collection, rec, op, worker, milvus, deletes, deletion>>

(* A new version of the brief is confirmed, which requests its index. *)
ConfirmBrief ==
    /\ Fused /\ brief.version < MaxBriefs
    /\ \E t \in Texts : brief' = [version |-> brief.version + 1, text |-> t]
    /\ events' = events \cup {"REINDEX"}
    /\ Change
    /\ UNCHANGED <<kind, rights, collection, rec, op, worker, milvus, deletes, deletion>>

(* A rebuild takes the collection out of service. *)
CloseCollection ==
    /\ collection = "ACTIVE"
    /\ collection' = "CLOSED"
    /\ Change
    /\ UNCHANGED <<kind, rights, brief, rec, op, worker, milvus, deletes, events, deletion>>

(* The asset becomes unusable with the deletion; an expiry also says REMOVE. *)
RequestDeletion ==
    /\ deletion.state = "NONE"
    /\ deletion' = [deletion EXCEPT !.state = "REQUESTED"]
    /\ rights' = [rights EXCEPT !.ok = FALSE]
    /\ events' \in {events, events \cup {"REMOVE"}}
    /\ Change
    /\ UNCHANGED <<kind, brief, collection, rec, op, worker, milvus, deletes>>

Remaining == {t \in Texts : rec[t].state \notin {"NONE", "DELETED"}}

(* _prepare: an identity needs a generation, or the preparation fails *)
PrepareDeletion ==
    /\ deletion.state = "REQUESTED"
    /\ IF \E t \in Remaining : rec[t].gen = 0
       THEN deletion' = [deletion EXCEPT !.state = "FAILED"] /\ UNCHANGED rec
       ELSE /\ deletion' = [state |-> "PREPARED", vectors |-> Remaining # {}]
            /\ rec' = [t \in Texts |->
                         IF t \in Remaining
                         THEN [rec[t] EXCEPT !.state = "DELETE_PENDING", !.doc = Doc("DELETE_PENDING")]
                         ELSE rec[t]]
    /\ Calm
    /\ UNCHANGED <<kind, rights, brief, collection, op, worker, milvus, deletes, events>>

(* _delete_vectors names a vector by the id of its record, and
   _require_generation_key refuses a key without the generation. *)
DeletionKeyAccepted == FALSE

CompleteDeletion ==
    /\ deletion.state = "PREPARED"
    /\ IF deletion.vectors /\ ~DeletionKeyAccepted
       THEN deletion' = [deletion EXCEPT !.state = "FAILED"]
       ELSE deletion' = [deletion EXCEPT !.state = IF Remaining = {} THEN "COMPLETED" ELSE "REQUESTED"]
    /\ Calm
    /\ UNCHANGED <<kind, rights, brief, collection, rec, op, worker, milvus, deletes, events>>

-----------------------------------------------------------------------------
Step(w) ==
    \/ Authorize(w) \/ ClaimRefused(w) \/ Claim(w) \/ ClaimOvertaken(w) \/ Unavailable(w)
    \/ \E answer \in Answers :
         CallFails(w, answer) \/ CallUnknown(w, answer) \/ RecordProviderResult(w, answer)
    \/ Upsert(w) \/ UpsertLost(w) \/ UpsertRefused(w)
    \/ Commit(w) \/ CommitUnknown(w) \/ CommitRefused(w)
    \/ ProofUnavailable(w) \/ Absent(w) \/ Confirm(w) \/ ConfirmRefused(w)
    \/ Finish(w) \/ Crash(w)

DeleteStep ==
    \E d \in deletes : DeleteIfGeneration(d) \/ CompleteDelete(d)

Next ==
    \/ \E w \in Workers : Step(w)
    \/ \E w \in Workers, o \in 1..MaxOps : Take(w, o) \/ Reconcile(w, o)
    \/ \E o \in 1..MaxOps : LeaseExpires(o) \/ MarkTerminalFailure(o) \/ Replay(o)
    \/ RequestIndex \/ RequestNotApplicable \/ RemoveIndex
    \/ DeleteStep \/ \E d \in deletes : DeleteAgain(d)
    \/ Grant \/ Revoke \/ ConfirmBrief \/ CloseCollection
    \/ RequestDeletion \/ PrepareDeletion \/ CompleteDeletion

Spec == Init /\ [][Next]_vars
-----------------------------------------------------------------------------
(* Properties *)

(* The rows, the operations and the requests have the shapes of their tables;
   an IMAGE record has no search document and no brief. *)
TypeOK ==
    /\ kind \in Kinds
    /\ rights \in [ok : BOOLEAN, version : 1..MaxRights]
    /\ brief \in [version : 1..MaxBriefs, text : Texts]
    /\ collection \in {"PLANNED", "ACTIVE", "CLOSED"}
    /\ rec \in [Texts -> Record]
    /\ op \in [1..MaxOps -> Operation]
    /\ worker \in [Workers -> WorkerState]
    /\ milvus \subseteq Texts \X (1..MaxGen)
    /\ deletes \subseteq DeleteRequest
    /\ events \subseteq {"REINDEX", "REMOVE"}
    /\ ~Fused => \A t \in Texts : rec[t].doc = "NONE" /\ rec[t].brief = 0

(* An INDEXED record has the vector of its generation, whichever deletes of
   older generations, late workers, replays and reconciliations came between
   (docs/runbooks/image-indexing.md: a late delete of an old generation cannot
   touch the new one). *)
IndexedHasVector ==
    \A t \in Texts : rec[t].state = "INDEXED" => <<t, rec[t].gen>> \in milvus

(* Once the loss of the rights was handled, no record and no search document of
   the asset is INDEXED, although workers that were authorized before still
   commit. *)
RemovedStaysHidden ==
    ~rights.ok /\ "REMOVE" \notin events /\ deletion.state = "NONE"
        => \A t \in Texts : rec[t].state # "INDEXED" /\ rec[t].doc # "INDEXED"

(* The record and its search document tell the same story, with the exception
   of an attempt that was claimed over a removal: its document stays removed
   until the attempt is committed, fails or is removed again. *)
DocumentAgrees ==
    Fused => \A t \in Texts :
        LET row == rec[t] IN
        IF row.state \in {"NONE", "INDEXED"} \cup Ended THEN row.doc = row.state
        ELSE IF row.state = "PERMANENT_FAILED" THEN row.doc = "STALE"
        ELSE IF row.over THEN row.doc \in Ended
        ELSE row.doc = "PENDING"
=============================================================================
