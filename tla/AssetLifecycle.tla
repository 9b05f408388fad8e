--------------------------- MODULE AssetLifecycle ---------------------------
(***************************************************************************)
(* One asset after its upload was finalized: the validation operation with *)
(* its evidence, the promotion of the quarantined object to controlled     *)
(* storage, the rights record, retention, and the deletion operation.      *)
(* The database row of the asset, the two rows of its objects, and the     *)
(* object storage behind them are separate pieces of state: transactions   *)
(* change the rows, calls to the storage happen between transactions.      *)
(*                                                                         *)
(* Every transaction locks the asset row (SELECT ... FOR UPDATE), so the   *)
(* version check of save_asset cannot fail after it.  The validation       *)
(* operation is the one of module DurableOperation, kept here only as far  *)
(* as its executors see it: who holds it, which attempt runs, and that a   *)
(* worker which lost its lease goes on without knowing.  While the         *)
(* presigned URL of the upload is valid, its holder can put the same       *)
(* content again when the object is absent.  An instant is kept as its     *)
(* relation to now.  MySQL and application clock agree.                    *)
(***************************************************************************)
EXTENDS Naturals, FiniteSets, Sequences, Functions

CONSTANTS
    Workers,      \* processes that may execute the validation operation
    None,         \* no worker, no version
    Classes,      \* retention classes of the instance
    Stages,       \* the mandatory stages, in order
    MaxAttempts,  \* bound: attempts of the validation operation, replays included
    Versions,     \* bound: the versions that copies may create
    Offers,       \* the rights records users may submit
    MaxRecords,   \* bound: rights records ever granted
    MaxFaults     \* bound: crashes and lost leases

Grants == [decision : {"GRANT"}, phase : {"FUTURE", "ACTIVE", "ENDED"}, empty : BOOLEAN]

ASSUME AssetAssumption ==
    /\ Offers \subseteq Grants
    /\ None \notin Workers \cup Versions \cup {"REVOKED", "EMPTY", "INACTIVE", "ADMIN", "CONTENT", "RIGHTS", "RETENTION"}
    /\ Classes \subseteq {"TASK", "FOUNDATION"} /\ Classes # {}
    /\ Stages \in Seq({"LOCAL_FORMAT", "MALWARE", "CONTENT_SAFETY", "PROVENANCE"}) /\ Stages # <<>>
    /\ MaxAttempts \in Nat \ {0}
    /\ MaxRecords \in Nat /\ MaxFaults \in Nat

VARIABLES
    asset,    \* the row: class, status, block reason, reason of its deletion
    rights,   \* the current rights record
    objects,  \* the rows of the ORIGINAL and the CONTROLLED_ORIGINAL object
    store,    \* object storage: the source, the versions of the destination, those not yet used
    results,  \* the validation results of each attempt
    op,       \* the validation operation
    worker,   \* the executors of the validation operation
    cleanup,  \* the deletion operation and its executor
    passed,   \* the retention deadline of a TASK asset has passed
    records, faults   \* counters of the bounds

rowVars == <<asset, objects>>
vars == <<asset, rights, objects, store, results, op, worker, cleanup, passed, records, faults>>

-----------------------------------------------------------------------------
(* State *)

Status == {"QUARANTINED", "VALIDATING", "PENDING_REVIEW", "PENDING_RIGHTS", "AVAILABLE",
           "BLOCKED", "RIGHTS_EXPIRED", "FAILED", "DELETING", "DELETED"}

RightsBlockReasons == {"REVOKED", "EMPTY", "INACTIVE"}

Reasons == RightsBlockReasons \cup {"ADMIN", "CONTENT"}

AssetRow == [class : Classes, status : Status, reason : Reasons \cup {None},
             deletion : {None, "ADMIN", "RIGHTS", "RETENTION"}]

Operation == [status : {"READY", "EXECUTING", "RECONCILING", "UNKNOWN", "SUCCEEDED", "FAILED", "CLOSED"},
              owner : Workers \cup {None}, attempt : 0..MaxAttempts]

Cleanup == [status : {"NONE", "OPEN", "FAILED", "DONE"}, pc : {"idle", "prepared", "halfway", "deleted"},
            targets : SUBSET {"source", "controlled"}]

(* Nobody works on the deletion, and nothing is left of what its executor had read. *)
Ended(status) == [status |-> status, pc |-> "idle", targets |-> {}]

RightsRecord == Grants \cup [decision : {"REVOKE", "NONE"}, phase : {"ACTIVE"}, empty : {TRUE}]

NoRecord == [decision |-> "NONE", phase |-> "ACTIVE", empty |-> TRUE]

ObjectRows == [source : {"QUARANTINED", "DELETE_PENDING", "DELETED"},
               controlled : {"NONE", "CONTROLLED", "DELETE_PENDING", "DELETED"},
               version : Versions \cup {None}]

(* The validated upload, or the same content put again after it was gone. *)
ObjectStore == [source : {"none", "upload", "late"}, dest : SUBSET Versions, fresh : SUBSET Versions]

(* What the adapters of the stages conclude, and the verdict each conclusion becomes.  The   *)
(* bytes are complete and of the declared format, or the decoder, a limit or the name        *)
(* refuses them.                                                                             *)
LocalFormats == {"VALID", "REJECTED"}

RunLocal == {[VALID |-> "PASS", REJECTED |-> "BLOCK"][format] : format \in LocalFormats}

(* The scanner's answer; a deadline while connecting or a broken answer is UNAVAILABLE. *)
Scans == {"CLEAN", "INFECTED", "TIMEOUT", "UNAVAILABLE"}

RunMalware ==
    {IF scan \in {"CLEAN", "INFECTED"} THEN [CLEAN |-> "PASS", INFECTED |-> "BLOCK"][scan]
     ELSE "RETRYABLE_FAILURE" : scan \in Scans}

(* The provider's response: a risk the policy maps, a refusal for now (429, 5xx), or one for *)
(* good, which an unknown risk, a broken body and an unexpected status are too.              *)
Normalized ==
    [risk : {"PASS", "REVIEW", "BLOCK"}] \cup [refused : {"RETRYABLE_FAILURE", "TERMINAL_FAILURE"}]

(* No capacity or no answer before the deadline; the late call is not waited for. *)
Moderation == Normalized \cup [refused : {"RETRYABLE_FAILURE"}]

(* The transfer policy refuses the asset: recorded as a result of the stage. *)
TransferDenied == [refused |-> "TERMINAL_FAILURE"]

RunContentSafety ==
    {IF "risk" \in DOMAIN m THEN m.risk ELSE m.refused : m \in Moderation \cup {TransferDenied}}

(* The reader runs in a process of its own, which is killed at the deadline. *)
Readings == {"VERIFIED", "UNVERIFIED", "CONFLICTING", "NOT_PRESENT", "TIMEOUT", "UNAVAILABLE", "MALFORMED"}

(* Evidence that cannot be read conflicts; a reader that cannot answer is asked again. *)
Provenance(reading) ==
    CASE reading \in {"TIMEOUT", "UNAVAILABLE"} -> "RETRYABLE_FAILURE"
      [] reading = "MALFORMED" -> "CONFLICTING"
      [] OTHER -> reading

RunProvenance ==
    {CASE Provenance(r) = "RETRYABLE_FAILURE" -> "RETRYABLE_FAILURE"
       [] Provenance(r) = "CONFLICTING" -> "REVIEW"
       [] OTHER -> "PASS" : r \in Readings}

Verdicts(stage) ==
    CASE stage = "LOCAL_FORMAT"   -> RunLocal
      [] stage = "MALWARE"        -> RunMalware
      [] stage = "CONTENT_SAFETY" -> RunContentSafety
      [] stage = "PROVENANCE"     -> RunProvenance

StageNames == {Stages[i] : i \in DOMAIN Stages}
Verdict == {"NONE"} \cup UNION {Verdicts(s) : s \in StageNames}

Outcomes == {"success", "retry", "terminal", "uncertain"}
Points == {"idle", "load", "begin", "download", "stage", "review", "reject", "cleanup", "stat",
           "copy", "delete", "persist", "reconcile", "expire", "discard", "discardSource", "expired"} \cup Outcomes

WorkerState == [pc : Points, attempt : 0..MaxAttempts, seen : [StageNames -> Verdict],
                stage : DOMAIN Stages, version : Versions \cup {None}]

Unseen == [s \in StageNames |-> "NONE"]
Idle == [pc |-> "idle", attempt |-> 0, seen |-> Unseen, stage |-> 1, version |-> None]

Init ==
    /\ asset \in [class : Classes, status : {"QUARANTINED"}, reason : {None}, deletion : {None}]
    /\ rights = NoRecord
    /\ objects = [source |-> "QUARANTINED", controlled |-> "NONE", version |-> None]
    /\ store = [source |-> "upload", dest |-> {}, fresh |-> Versions]
    /\ results = [n \in 1..MaxAttempts |-> Unseen]
    /\ op = [status |-> "READY", owner |-> None, attempt |-> 0]
    /\ worker = [w \in Workers |-> Idle]
    /\ cleanup = Ended("NONE")
    /\ passed = FALSE /\ records = 0 /\ faults = 0

(* From here on a worker reads nothing of what it learned before. *)
Forgetful == Outcomes \cup {"review", "reject", "cleanup", "stat", "expire", "discard", "discardSource", "expired"}

Goto(w, pc) ==
    worker' = [worker EXCEPT ![w] = IF pc \in Forgetful THEN [Idle EXCEPT !.pc = pc] ELSE [@ EXCEPT !.pc = pc]]

(* The retention deadline is due: only TASK assets have one. *)
Due == asset.class = "TASK" /\ passed

Unusable == {"DELETING", "DELETED"}

(* retention.guard before a step: an overdue asset is cleaned up instead. *)
Guarded(w, Step) == IF Due THEN Goto(w, "expire") /\ UNCHANGED <<asset, rights, objects, store, results>>
                    ELSE Step

-----------------------------------------------------------------------------
(* The transitions of the Asset entity, as functions of its row.  The guards that raise    *)
(* InvalidTransitionError are conjuncts of the actions that call them.                      *)

RightsBlocked == asset.status = "BLOCKED" /\ asset.reason \in RightsBlockReasons

Blockable == {"VALIDATING", "PENDING_REVIEW", "PENDING_RIGHTS", "AVAILABLE", "RIGHTS_EXPIRED"}

StartValidation(row) == [row EXCEPT !.status = IF @ \in {"QUARANTINED", "FAILED"} THEN "VALIDATING" ELSE @]

FailValidation(row) == [row EXCEPT !.status = IF @ \in {"QUARANTINED", "VALIDATING"} THEN "FAILED" ELSE @]

Block(row, reason) == [row EXCEPT !.status = "BLOCKED", !.reason = reason]

SelectAvailableRights(row) == [row EXCEPT !.status = "AVAILABLE", !.reason = None]

SelectUnusableRights(row, status, reason) ==
    IF RightsBlocked \/ row.status # "BLOCKED" THEN [row EXCEPT !.status = status, !.reason = reason] ELSE row

SelectRevokedRights(row) == IF RightsBlocked \/ row.status # "BLOCKED" THEN Block(row, "REVOKED") ELSE row

RequestDeletion(row, reason) ==
    [row EXCEPT !.deletion = reason, !.reason = None,
                !.status = IF reason = "RIGHTS" THEN @ ELSE "DELETING"]

BeginRetentionCleanup(row) ==
    IF row.status \in Unusable THEN row ELSE [row EXCEPT !.status = "DELETING", !.reason = None]

Deleted(row) == [row EXCEPT !.status = "DELETED", !.reason = None]

-----------------------------------------------------------------------------
(* The validation operation, as its executors see it *)

Claim(w) ==
    /\ worker[w].pc = "idle"
    /\ op.status = "READY"
    /\ op' = [status |-> "EXECUTING", owner |-> w, attempt |-> op.attempt + 1]
    /\ worker' = [worker EXCEPT ![w] = [Idle EXCEPT !.pc = "load", !.attempt = op.attempt + 1]]
    /\ UNCHANGED <<asset, rights, objects, store, results, cleanup, passed, records, faults>>

(* A retryable failure was recorded in this attempt: reconciliation only confirms it. *)
ConfirmedFailure(n) == \E s \in StageNames : results[n][s] = "RETRYABLE_FAILURE"

Reconcile(w) ==
    /\ worker[w].pc = "idle"
    /\ op.status = "UNKNOWN"
    /\ op' = [op EXCEPT !.status = IF ConfirmedFailure(op.attempt) /\ ~Due THEN "EXECUTING" ELSE "RECONCILING",
                        !.owner = w]
    /\ worker' = [worker EXCEPT ![w] = [Idle EXCEPT !.attempt = op.attempt,
                     !.pc = IF ConfirmedFailure(op.attempt) /\ ~Due THEN "retry" ELSE "load"]]
    /\ UNCHANGED <<asset, rights, objects, store, results, cleanup, passed, records, faults>>

Retried == IF op.attempt < MaxAttempts THEN "READY" ELSE "FAILED"

(* The executor returns; only the holder of the operation records the outcome. *)
Settle(w) ==
    /\ worker[w].pc \in Outcomes
    /\ worker' = [worker EXCEPT ![w] = Idle]
    /\ IF op.owner # w THEN op' = op
       ELSE \E status \in
              IF op.status = "FAILED" THEN {IF worker[w].pc = "terminal" THEN "CLOSED" ELSE "FAILED"}
              ELSE CASE worker[w].pc = "success" -> {"SUCCEEDED"}
                     [] worker[w].pc = "terminal" -> {"FAILED"}
                     [] worker[w].pc = "uncertain" -> {"UNKNOWN", "FAILED"}
                     [] worker[w].pc = "retry" /\ op.status = "EXECUTING" -> {Retried}
                     [] OTHER -> {"UNKNOWN", "FAILED"} :
              op' = [op EXCEPT !.status = status, !.owner = None]
    /\ UNCHANGED <<asset, rights, objects, store, results, cleanup, passed, records, faults>>

(* The lease expires and recovery takes the operation away from a worker that goes on. *)
LeaseExpires ==
    /\ op.status \in {"EXECUTING", "RECONCILING"}
    /\ faults < MaxFaults
    /\ faults' = faults + 1
    /\ op' = [op EXCEPT !.status = "UNKNOWN", !.owner = None]
    /\ UNCHANGED <<asset, rights, objects, store, results, worker, cleanup, passed, records>>

Crash(w) ==
    /\ worker[w].pc # "idle"
    /\ faults < MaxFaults
    /\ faults' = faults + 1
    /\ worker' = [worker EXCEPT ![w] = Idle]
    /\ op' = IF op.owner = w
             THEN [op EXCEPT !.owner = None, !.status = IF @ = "FAILED" THEN @ ELSE "UNKNOWN"] ELSE op
    /\ UNCHANGED <<asset, rights, objects, store, results, cleanup, passed, records>>

Replay ==
    /\ op.status = "CLOSED" /\ op.attempt < MaxAttempts
    /\ op' = [op EXCEPT !.status = "READY"]
    /\ UNCHANGED <<asset, rights, objects, store, results, worker, cleanup, passed, records, faults>>

(* record_terminal_failure: the failed operation is turned into a failed asset. *)
TerminalFailure(w) ==
    /\ op.status = "FAILED" /\ op.owner = None /\ worker[w].pc = "idle"
    /\ IF Due
       THEN /\ op' = [op EXCEPT !.owner = w]
            /\ worker' = [worker EXCEPT ![w] = [Idle EXCEPT !.pc = "expire"]]
            /\ UNCHANGED asset
       ELSE /\ asset.status \notin {"AVAILABLE", "RIGHTS_EXPIRED"}
            /\ op' = [op EXCEPT !.status = "CLOSED"]
            /\ asset' = FailValidation(asset)
            /\ UNCHANGED worker
    /\ UNCHANGED <<rights, objects, store, results, cleanup, passed, records, faults>>

-----------------------------------------------------------------------------
(* Validation *)

SourceMatches ==
    CASE asset.status \in {"QUARANTINED", "VALIDATING", "PENDING_REVIEW", "FAILED"} ->
           objects.source = "QUARANTINED"
      [] asset.status = "BLOCKED" -> objects.source # "QUARANTINED"
      [] asset.status = "DELETING" -> TRUE
      [] asset.status \in {"PENDING_RIGHTS", "DELETED"} -> objects.source = "DELETED"
      [] OTHER -> FALSE

Load(w) ==
    /\ worker[w].pc = "load"
    /\ Goto(w, CASE ~SourceMatches -> "terminal"
                 [] SourceMatches /\ Due -> "expire"
                 [] SourceMatches /\ ~Due /\ asset.status \in Unusable -> "terminal"
                 [] SourceMatches /\ ~Due /\ asset.status = "BLOCKED" -> "cleanup"
                 [] SourceMatches /\ ~Due /\ asset.status = "PENDING_RIGHTS" -> "stat"
                 [] SourceMatches /\ ~Due /\ asset.status = "PENDING_REVIEW" -> "success"
                 [] OTHER -> "begin")
    /\ UNCHANGED <<asset, rights, objects, store, results>>

(* The result of this attempt, else the PASS of the latest earlier attempt. *)
Selected(n, s) ==
    IF results[n][s] # "NONE" \/ \A k \in 1..(n - 1) : results[k][s] # "PASS" THEN results[n][s] ELSE "PASS"

BeginValidation(w) ==
    /\ worker[w].pc = "begin"
    /\ IF asset.status \in {"QUARANTINED", "FAILED", "VALIDATING", "PENDING_RIGHTS", "PENDING_REVIEW"}
       THEN /\ asset' = StartValidation(asset)
            /\ worker' = [worker EXCEPT ![w].pc = IF Due THEN "expire" ELSE "download",
                             ![w].seen = [s \in StageNames |-> Selected(worker[w].attempt, s)]]
       ELSE Goto(w, "terminal") /\ UNCHANGED asset
    /\ UNCHANGED <<rights, objects, store, results>>

NeedsStream(w) == \E s \in StageNames \ {"CONTENT_SAFETY"} : worker[w].seen[s] = "NONE"

Download(w) ==
    /\ worker[w].pc = "download"
    /\ \/ Goto(w, IF NeedsStream(w) /\ store.source = "none" THEN "terminal" ELSE "stage")
       \/ NeedsStream(w) /\ Goto(w, "retry")    \* storage unavailable
    /\ UNCHANGED <<asset, rights, objects, store, results>>

AppendResult(n, s, v) ==
    results' = [results EXCEPT ![n][s] = IF @ = "NONE" THEN v ELSE @]

(* Mutant: a stage that asks for a review counts as passed. *)
EnforcedWithoutReview(w, s, v) ==
    CASE v = "BLOCK" -> "reject"
      [] v = "RETRYABLE_FAILURE" -> "retry"
      [] v = "TERMINAL_FAILURE" -> "terminal"
      [] OTHER -> IF worker[w].stage < Len(Stages) THEN "stage" ELSE "stat"

Enforced(w, s, v) ==
    CASE v = "BLOCK" -> "reject"
      [] v = "RETRYABLE_FAILURE" -> "retry"
      [] v = "TERMINAL_FAILURE" -> "terminal"
      [] OTHER -> IF worker[w].stage < Len(Stages) THEN "stage"
                  ELSE IF "REVIEW" \in {v} \cup Range(worker[w].seen) THEN "review" ELSE "stat"

(* The results a worker holds are forgotten when it leaves the stages: they are not read again. *)
Advance(w, s, v) ==
    LET next == Enforced(w, s, v) IN
    IF next = "stage"
    THEN worker' = [worker EXCEPT ![w].seen[s] = v, ![w].stage = @ + 1]
    ELSE worker' = [worker EXCEPT ![w] = [Idle EXCEPT !.pc = next]]

ReuseResult(w) ==
    LET s == Stages[worker[w].stage] IN
    /\ worker[w].pc = "stage" /\ worker[w].seen[s] # "NONE"
    /\ Advance(w, s, worker[w].seen[s])
    /\ UNCHANGED <<asset, rights, objects, store, results>>

(* The provider's reference to the object cannot be made, or the retention left is too short *)
(* for it: the stage ends without a result.                                                  *)
ReferenceRefused(w) ==
    \/ Goto(w, "retry")
    \/ asset.class = "TASK" /\ Goto(w, "terminal")

RunStage(w) ==
    LET s == Stages[worker[w].stage]
        n == worker[w].attempt
    IN
    /\ worker[w].pc = "stage" /\ worker[w].seen[s] = "NONE"
    /\ \/ \E v \in Verdicts(s) :
            Guarded(w, /\ AppendResult(n, s, v)
                       /\ Advance(w, s, results'[n][s])
                       /\ UNCHANGED <<asset, rights, objects, store>>)
       \/ /\ s = "CONTENT_SAFETY"
          /\ Guarded(w, ReferenceRefused(w) /\ UNCHANGED <<asset, rights, objects, store, results>>)

MarkPendingReview(w) ==
    /\ worker[w].pc = "review"
    /\ Guarded(w, /\ asset' = [asset EXCEPT !.status = IF @ = "VALIDATING" THEN "PENDING_REVIEW" ELSE @]
                  /\ Goto(w, IF asset'.status = "PENDING_REVIEW" THEN "success" ELSE "terminal")
                  /\ UNCHANGED <<rights, objects, store, results>>)

Reject(w) ==
    /\ worker[w].pc = "reject"
    /\ IF asset.status \in Blockable \cup {"BLOCKED"}
       THEN /\ asset' = IF asset.status = "BLOCKED" THEN asset ELSE Block(asset, "CONTENT")
            /\ objects' = [objects EXCEPT !.source = IF @ = "QUARANTINED" THEN "DELETE_PENDING" ELSE @]
            /\ Goto(w, "cleanup")
       ELSE Goto(w, "uncertain") /\ UNCHANGED rowVars    \* InvalidTransitionError
    /\ UNCHANGED <<rights, store, results>>

(* A conditional delete is for the object that was looked at: one put later *)
(* has another version, but the same length, metadata and etag.            *)
AfterDelete == {"none"} \cup ({store.source} \ {"upload"})

CleanupRejected(w) ==
    /\ worker[w].pc = "cleanup"
    /\ \/ /\ \E source \in AfterDelete : store' = [store EXCEPT !.source = source]
          /\ objects' = [objects EXCEPT !.source = "DELETED"]
          /\ Goto(w, "terminal")
       \/ Goto(w, "retry") /\ UNCHANGED <<store, objects>>    \* storage unavailable
    /\ UNCHANGED <<asset, rights, results>>

-----------------------------------------------------------------------------
(* Promotion *)

StatDestination(w) ==
    /\ worker[w].pc = "stat"
    /\ Guarded(w, /\ \/ store.dest = {} /\ Goto(w, "copy")
                     \/ \E v \in store.dest :
                          worker' = [worker EXCEPT ![w].pc = "delete", ![w].version = v]
                     \/ Goto(w, "retry")
                  /\ UNCHANGED <<asset, rights, objects, store, results>>)

(* The condition of a conditional copy may be decided before a concurrent copy is visible. *)
CopyIfAbsent(w) ==
    /\ worker[w].pc = "copy"
    /\ IF store.source = "none"
       THEN Goto(w, "reject") /\ UNCHANGED store    \* PROMOTION_SOURCE_MISSING
       ELSE \E v \in store.dest \cup store.fresh :
              /\ store' = [store EXCEPT !.dest = @ \cup {v}, !.fresh = @ \ {v}]
              /\ worker' = [worker EXCEPT ![w].pc = "delete", ![w].version = v]
    /\ UNCHANGED <<asset, rights, objects, results>>

DeleteSource(w) ==
    /\ worker[w].pc = "delete"
    /\ \E source \in AfterDelete : store' = [store EXCEPT !.source = source]
    /\ Goto(w, "persist")
    /\ UNCHANGED <<asset, rights, objects, results>>

ConcurrentVersion(w) == objects.controlled = "CONTROLLED" /\ objects.version # worker[w].version

PersistVerified(w) ==
    /\ worker[w].pc = "persist"
    /\ Guarded(w,
         /\ IF asset.status = "VALIDATING" /\ objects.controlled = "NONE"
            THEN /\ objects' = [source |-> "DELETED", controlled |-> "CONTROLLED", version |-> worker[w].version]
                 /\ asset' = [asset EXCEPT !.status = "PENDING_RIGHTS"]
                 /\ Goto(w, "success")
            ELSE /\ Goto(w, CASE asset.status \in Unusable -> "terminal"
                              [] asset.status \notin Unusable /\ ConcurrentVersion(w) -> "reconcile"
                              [] asset.status \notin Unusable /\ objects.controlled \in {"DELETE_PENDING", "DELETED"} -> "reject"
                              [] asset.status = "PENDING_RIGHTS" /\ ~ConcurrentVersion(w) -> "success"
                              [] OTHER -> "terminal")
                 /\ UNCHANGED rowVars
         /\ UNCHANGED <<rights, store, results>>)

(* Mutant: the losing promotion deletes the version the row names, not its own. *)
ReconcileDestinationWinner(w) ==
    /\ worker[w].pc = "reconcile"
    /\ Guarded(w,
         /\ IF objects.version \notin store.dest THEN Goto(w, "reject") /\ UNCHANGED store
            ELSE /\ store' = [store EXCEPT !.dest = @ \ {objects.version}]
                 /\ worker' = [worker EXCEPT ![w].pc = "persist", ![w].version = objects.version]
         /\ UNCHANGED <<asset, rights, objects, results>>)

ReconcileDestination(w) ==
    /\ worker[w].pc = "reconcile"
    /\ Guarded(w,
         /\ IF objects.version \notin store.dest THEN Goto(w, "reject") /\ UNCHANGED store
            ELSE /\ store' = [store EXCEPT !.dest = @ \ {worker[w].version}]
                 /\ worker' = [worker EXCEPT ![w].pc = "persist", ![w].version = objects.version]
         /\ UNCHANGED <<asset, rights, objects, results>>)

-----------------------------------------------------------------------------
(* Retention cleanup by the validation executor *)

Pending(row) == IF row \in {"QUARANTINED", "CONTROLLED"} THEN "DELETE_PENDING" ELSE row
Gone(row) == IF row = "NONE" THEN row ELSE "DELETED"

MarkCleanupPending(w) ==
    /\ worker[w].pc = "expire"
    /\ asset' = BeginRetentionCleanup(asset)
    /\ objects' = [objects EXCEPT !.source = Pending(@), !.controlled = Pending(@)]
    /\ Goto(w, "discard")
    /\ UNCHANGED <<rights, store, results>>

DiscardFails(w) ==
    /\ Goto(w, "retry") \/ Goto(w, "terminal")    \* unavailable, or not as expected
    /\ UNCHANGED store

(* discard_for_retention: version by version, until a scan finds none *)
DiscardDestination(w) ==
    /\ worker[w].pc = "discard"
    /\ \/ /\ \E v \in store.dest : store' = [store EXCEPT !.dest = @ \ {v}]
          /\ UNCHANGED worker
       \/ store.dest = {} /\ Goto(w, "discardSource") /\ UNCHANGED store
       \/ DiscardFails(w)
    /\ UNCHANGED <<asset, rights, objects, results>>

(* Mutant: a failed deletion in the storage is taken for done. *)
DiscardSourceAnyway(w) ==
    /\ worker[w].pc = "discardSource"
    /\ \/ store' = [store EXCEPT !.source = "none"]
       \/ UNCHANGED store
    /\ Goto(w, "expired")
    /\ UNCHANGED <<asset, rights, objects, results>>

DiscardSource(w) ==
    /\ worker[w].pc = "discardSource"
    /\ \/ /\ store.source # "none"
          /\ store' = [store EXCEPT !.source = "none"]
          /\ UNCHANGED worker
       \/ store.source = "none" /\ Goto(w, "expired") /\ UNCHANGED store
       \/ DiscardFails(w)
    /\ UNCHANGED <<asset, rights, objects, results>>

ExpireRetention(w) ==
    /\ worker[w].pc = "expired"
    /\ asset' = Deleted(asset)
    /\ objects' = [objects EXCEPT !.source = Gone(@), !.controlled = Gone(@)]
    /\ Goto(w, "terminal")
    /\ UNCHANGED <<rights, store, results>>

ValidationStep(w) ==
    /\ \/ Load(w) \/ BeginValidation(w) \/ Download(w) \/ ReuseResult(w) \/ RunStage(w)
       \/ MarkPendingReview(w) \/ Reject(w) \/ CleanupRejected(w)
       \/ StatDestination(w) \/ CopyIfAbsent(w) \/ DeleteSource(w) \/ PersistVerified(w)
       \/ ReconcileDestination(w)
       \/ MarkCleanupPending(w) \/ DiscardDestination(w) \/ DiscardSource(w) \/ ExpireRetention(w)
    /\ UNCHANGED <<op, cleanup, passed, records, faults>>

-----------------------------------------------------------------------------
(* Rights *)

SelectRecord(r) ==
    CASE r.phase = "ENDED" -> SelectUnusableRights(asset, "RIGHTS_EXPIRED", None)
      [] r.phase # "ENDED" /\ (r.phase = "FUTURE" \/ r.empty) ->
           IF asset.status = "PENDING_RIGHTS" THEN asset
           ELSE SelectUnusableRights(asset, "BLOCKED", IF r.phase = "FUTURE" THEN "INACTIVE" ELSE "EMPTY")
      [] OTHER -> SelectAvailableRights(asset)

(* commit_rights_mutation reads deadline and record again before it commits. *)
CommitRights(row, r) ==
    ~Due /\ (row.status = "AVAILABLE" => r.decision = "GRANT" /\ r.phase = "ACTIVE" /\ ~r.empty)

Selectable(r) ==
    r.phase = "ACTIVE" /\ ~r.empty => asset.status # "BLOCKED" \/ RightsBlocked

Grant(r) ==
    /\ records < MaxRecords
    /\ asset.status \in {"PENDING_RIGHTS", "AVAILABLE", "BLOCKED", "RIGHTS_EXPIRED"}
    /\ Selectable(r)
    /\ asset' = SelectRecord(r)
    /\ rights' = r
    /\ CommitRights(asset', r)
    /\ records' = records + 1
    /\ UNCHANGED <<objects, store, results, op, worker, cleanup, passed, faults>>

Revoke ==
    /\ rights.decision = "GRANT"
    /\ asset.status \notin Unusable
    /\ asset' = SelectRevokedRights(asset)
    /\ rights' = [NoRecord EXCEPT !.decision = "REVOKE"]
    /\ CommitRights(asset', rights')
    /\ UNCHANGED <<objects, store, results, op, worker, cleanup, passed, records, faults>>

AdministratorBlock ==
    /\ asset.status \in Blockable \/ RightsBlocked
    /\ asset' = Block(asset, "ADMIN")
    /\ CommitRights(asset', rights)
    /\ UNCHANGED <<rights, objects, store, results, op, worker, cleanup, passed, records, faults>>

ClaimActivatableRights ==
    /\ asset.status = "PENDING_RIGHTS" \/ (asset.status = "BLOCKED" /\ asset.reason = "INACTIVE")
    /\ rights.decision = "GRANT" /\ rights.phase = "ACTIVE" /\ ~rights.empty
    /\ ~Due

ActivateRights ==
    /\ ClaimActivatableRights
    /\ asset' = SelectRecord(rights)
    /\ CommitRights(asset', rights)
    /\ UNCHANGED <<rights, objects, store, results, op, worker, cleanup, passed, records, faults>>

-----------------------------------------------------------------------------
(* Deletion *)

ScheduleDeletion(row, reason) ==
    IF asset.deletion # None THEN UNCHANGED <<asset, cleanup>>
    ELSE /\ asset' = RequestDeletion(row, reason)
         /\ cleanup' = Ended("OPEN")

ClaimExpiredRights ==
    /\ \/ asset.status \in {"AVAILABLE", "PENDING_RIGHTS"}
       \/ asset.status = "BLOCKED" /\ asset.reason \in {"INACTIVE", "EMPTY"}
    /\ rights.phase = "ENDED"

(* A FOUNDATION asset is saved by schedule_asset_deletion or, when it has a deletion, not at all. *)
ExpireRights ==
    /\ ClaimExpiredRights
    /\ LET expired == [asset EXCEPT !.status = "RIGHTS_EXPIRED", !.reason = None] IN
       IF asset.class = "FOUNDATION" THEN ScheduleDeletion(expired, "RIGHTS")
       ELSE asset' = expired /\ UNCHANGED cleanup
    /\ UNCHANGED <<rights, objects, store, results, op, worker, passed, records, faults>>

RequestAdministratorDeletion ==
    /\ asset.class = "FOUNDATION" /\ asset.status # "DELETED"
    /\ asset.deletion = None
    /\ ScheduleDeletion(asset, "ADMIN")
    /\ UNCHANGED <<rights, objects, store, results, op, worker, passed, records, faults>>

ClaimExpiredAssets == Due /\ asset.deletion = None /\ asset.status \notin Unusable

ExpireDue ==
    /\ ClaimExpiredAssets
    /\ ScheduleDeletion(asset, "RETENTION")
    /\ UNCHANGED <<rights, objects, store, results, op, worker, passed, records, faults>>

DeletionIdentity == asset.status \in {"DELETING", "RIGHTS_EXPIRED", "DELETED"}

PrepareDeletion ==
    /\ cleanup.status = "OPEN" /\ cleanup.pc = "idle"
    /\ IF ~DeletionIdentity
       THEN cleanup' = Ended("FAILED") /\ UNCHANGED objects
       ELSE IF asset.status = "DELETED"
       THEN cleanup' = Ended("DONE") /\ UNCHANGED objects
       ELSE /\ objects' = [objects EXCEPT !.source = Pending(@), !.controlled = Pending(@)]
            /\ cleanup' = [cleanup EXCEPT !.pc = "prepared",
                  !.targets = {o \in {"source", "controlled"} : objects[o] \notin {"NONE", "DELETED"}}]
    /\ UNCHANGED <<asset, rights, store, results, op, worker, passed, records, faults>>

(* _delete_objects: the quarantined object, then the controlled one *)
DeleteQuarantined ==
    /\ cleanup.pc = "prepared"
    /\ IF "source" \in cleanup.targets
       THEN \E source \in AfterDelete : store' = [store EXCEPT !.source = source]
       ELSE UNCHANGED store
    /\ cleanup' = [cleanup EXCEPT !.pc = "halfway"]
    /\ UNCHANGED <<asset, rights, objects, results, op, worker, passed, records, faults>>

DeleteControlled ==
    /\ cleanup.pc = "halfway"
    /\ store' = [store EXCEPT !.dest = IF "controlled" \in cleanup.targets THEN @ \ {objects.version} ELSE @]
    /\ cleanup' = [cleanup EXCEPT !.pc = "deleted"]
    /\ UNCHANGED <<asset, rights, objects, results, op, worker, passed, records, faults>>

(* A retryable failure or a crash *)
DeletionFails ==
    /\ cleanup.pc \in {"prepared", "halfway"}
    /\ cleanup' = Ended("OPEN")
    /\ UNCHANGED <<asset, rights, objects, store, results, op, worker, passed, records, faults>>

CompleteDeletion ==
    /\ cleanup.pc = "deleted"
    /\ LET rows == [objects EXCEPT
                      !.source = IF "source" \in cleanup.targets THEN "DELETED" ELSE @,
                      !.controlled = IF "controlled" \in cleanup.targets THEN "DELETED" ELSE @]
           late == rows.source # "DELETED" \/ rows.controlled \notin {"NONE", "DELETED"}
       IN CASE ~DeletionIdentity ->
                 cleanup' = Ended("FAILED") /\ UNCHANGED rowVars
            [] DeletionIdentity /\ late ->
                 cleanup' = Ended("OPEN") /\ UNCHANGED rowVars
            [] OTHER -> /\ objects' = rows
                        /\ asset' = Deleted(asset)
                        /\ cleanup' = Ended("DONE")
    /\ UNCHANGED <<rights, store, results, op, worker, passed, records, faults>>

-----------------------------------------------------------------------------
(* Time *)

RetentionDeadlinePasses ==
    /\ asset.class = "TASK" /\ ~passed
    /\ passed' = TRUE
    /\ UNCHANGED <<asset, rights, objects, store, results, op, worker, cleanup, records, faults>>

RightsPhaseChanges ==
    /\ rights.decision = "GRANT" /\ rights.phase # "ENDED"
    /\ rights' = [rights EXCEPT !.phase = IF @ = "FUTURE" THEN "ACTIVE" ELSE "ENDED"]
    /\ UNCHANGED <<asset, objects, store, results, op, worker, cleanup, passed, records, faults>>

(* The URL is signed for this content and for an absent object (If-None-Match). *)
LatePut ==
    /\ store.source = "none"
    /\ store' = [store EXCEPT !.source = "late"]
    /\ UNCHANGED <<asset, rights, objects, results, op, worker, cleanup, passed, records, faults>>

-----------------------------------------------------------------------------
OperationStep ==
    \/ \E w \in Workers : Claim(w) \/ Reconcile(w) \/ Settle(w) \/ Crash(w) \/ TerminalFailure(w)
    \/ LeaseExpires \/ Replay

RightsStep ==
    \/ \E r \in Offers : Grant(r)
    \/ Revoke \/ AdministratorBlock \/ ActivateRights \/ ExpireRights

DeletionStep ==
    \/ RequestAdministratorDeletion \/ ExpireDue
    \/ PrepareDeletion \/ DeleteQuarantined \/ DeleteControlled \/ DeletionFails \/ CompleteDeletion

Next ==
    \/ OperationStep
    \/ \E w \in Workers : ValidationStep(w)
    \/ RightsStep \/ DeletionStep
    \/ RetentionDeadlinePasses \/ RightsPhaseChanges \/ LatePut

Spec == Init /\ [][Next]_vars

-----------------------------------------------------------------------------
(* Properties *)

(* The constraints of the tables: a block has its reason, an ended deletion was requested, a   *)
(* result is a verdict of its own stage, and a row of the controlled object has its version.   *)
AssetTable ==
    /\ asset.status = "BLOCKED" <=> asset.reason # None
    /\ asset.deletion # None <=> cleanup.status # "NONE"

ValidationResults == {r \in [StageNames -> Verdict] : \A s \in StageNames : r[s] \in Verdicts(s) \cup {"NONE"}}

(* Every variable keeps its type; the operation never runs more attempts than its limit. *)
TypeOK ==
    /\ asset \in AssetRow /\ AssetTable
    /\ rights \in RightsRecord
    /\ objects \in ObjectRows
    /\ store \in ObjectStore
    /\ results \in [1..MaxAttempts -> ValidationResults]
    /\ op \in Operation
    /\ worker \in [Workers -> WorkerState]
    /\ cleanup \in Cleanup
    /\ passed \in BOOLEAN /\ records \in 0..MaxRecords /\ faults \in 0..MaxFaults

HasPassed(s) == \E n \in 1..MaxAttempts : results[n][s] = "PASS"

Promoted ==
    /\ \A s \in StageNames : HasPassed(s)
    /\ objects.source = "DELETED" /\ objects.controlled # "NONE"

Usable == asset.status \in {"PENDING_RIGHTS", "AVAILABLE", "RIGHTS_EXPIRED"} \/ RightsBlocked

(* An asset that a rights record can make usable has passed every mandatory stage, in one *)
(* attempt or several, and was promoted: overtaken executors, replays, reviews and        *)
(* rejections never let mark_pending_rights happen on less (_converge, _persist_verified). *)
ValidatedBeforeUse == Usable => Promoted

(* The version recorded for a promoted asset stays in storage until a deletion marks its row: *)
(* the loser of two promotions deletes its own version only (reconcile_concurrent_destination). *)
ControlledContentKept ==
    objects.controlled = "CONTROLLED" => objects.version \in store.dest

(* A DELETED asset has no object row left, its upload is gone from storage, and so is the     *)
(* version its row names, whichever of validation executor and deletion executor completed    *)
(* it, after any failure between two objects or two versions.  It does not speak of an object *)
(* that the holder of the URL puts afterwards, nor of a copy that no row ever named.          *)
DeletedHasNoObjects ==
    asset.status = "DELETED" => objects.source = "DELETED" /\ objects.controlled \in {"NONE", "DELETED"}
       /\ store.source # "upload" /\ objects.version \notin store.dest

-----------------------------------------------------------------------------
(* Why they hold *)

(* An attempt that may start is within the limit and nobody holds it; one that runs was started. *)
AttemptsInOrder ==
    /\ IF op.status = "READY" THEN op.attempt < MaxAttempts ELSE op.attempt > 0
    /\ op.status \in {"READY", "CLOSED"} => op.owner = None

(* What a worker remembers of the stages was recorded; the stages before the one it is at  *)
(* ask for nothing more than a review, and who promotes has seen no such stage.            *)
StagesInOrder(w) ==
    /\ worker[w].pc \in {"load", "begin", "download", "stage"} => worker[w].attempt > 0
    /\ worker[w].pc \in {"load", "begin"} => worker[w].stage = 1
    /\ worker[w].pc \in {"download", "stage"} =>
          /\ \A s \in StageNames : worker[w].seen[s] = "PASS" => HasPassed(s)
          /\ \A i \in 1..(worker[w].stage - 1) : worker[w].seen[Stages[i]] \in {"PASS", "REVIEW"}
    /\ worker[w].pc \in {"stat", "copy", "delete", "persist", "reconcile"} =>
          \A s \in StageNames : HasPassed(s)

(* A version is given to one copy only, and a row names none that is still to be given. *)
VersionsIssued ==
    /\ store.dest \cap store.fresh = {} /\ objects.version \notin store.fresh
    /\ objects.controlled = "NONE" => objects.version = None

(* Whoever is about to record that an object is gone has seen it go. *)
RowsFollowStore ==
    /\ objects.source = "DELETED" => store.source # "upload"
    /\ objects.controlled = "DELETED" => objects.version \notin store.dest
    /\ cleanup.pc \in {"halfway", "deleted"} /\ "source" \in cleanup.targets => store.source # "upload"
    /\ cleanup.pc = "deleted" /\ "controlled" \in cleanup.targets => objects.version \notin store.dest

SeenGone(w) ==
    /\ worker[w].pc \in {"persist", "reconcile", "expired"} => store.source # "upload"
    /\ worker[w].pc \in {"discardSource", "expired"} => objects.version \notin store.dest

(* A copy that no row names yet stays until the deadline; only the loser of two promotions *)
(* deletes a version, and only after the deadline are all of them deleted.                 *)
CopyKept(w) ==
    /\ worker[w].pc \in {"delete", "persist"} /\ objects.controlled = "NONE" /\ ~Due =>
          worker[w].version \in store.dest
    /\ worker[w].pc = "reconcile" => objects.controlled # "NONE" /\ objects.version # worker[w].version
    /\ worker[w].pc \in {"expire", "discard", "discardSource", "expired"} => Due
    /\ worker[w].pc \in {"discard", "discardSource", "expired"} => objects.controlled # "CONTROLLED"

(* A deletion that runs is open, and the rows of its targets are marked. *)
TargetsMarked ==
    cleanup.pc # "idle" =>
        /\ cleanup.status = "OPEN"
        /\ "controlled" \in cleanup.targets => objects.controlled \in {"DELETE_PENDING", "DELETED"}

(* A grant on an asset that was never promoted finds it blocked for good. *)
RightsFollowPromotion ==
    rights.decision = "GRANT" => Promoted \/ asset.status \in {"BLOCKED", "DELETING", "DELETED"}

WorkerInv(w) == StagesInOrder(w) /\ SeenGone(w) /\ CopyKept(w)

AssetInv ==
    /\ TypeOK /\ AttemptsInOrder
    /\ \A w \in Workers : WorkerInv(w)
    /\ VersionsIssued /\ RowsFollowStore /\ TargetsMarked /\ RightsFollowPromotion
    /\ ValidatedBeforeUse /\ ControlledContentKept /\ DeletedHasNoObjects
=============================================================================
