---------------------------- MODULE UploadSession ----------------------------
(***************************************************************************)
(* One upload session: the client puts an object with a presigned URL and  *)
(* finalizes, aborts or abandons the session; an expiry scan and a durable *)
(* cleanup operation remove what abandoned uploads leave in quarantine.    *)
(*                                                                         *)
(* A finalize request is three transactions with calls of the storage      *)
(* between them, and requests may be repeated, overtaken, or die anywhere. *)
(* Every transaction locks the session row, so its checks and its writes   *)
(* are one step.  Time is kept as the phase of the URL (valid, expired,    *)
(* grace over), as booleans for the lease and the retention deadline, and  *)
(* as intervals of the reconciliation window.  Of the cleanup operation,   *)
(* which is one of module DurableOperation, the passes are kept: a pass    *)
(* deletes first and reads the clock afterwards, and passes are bounded.   *)
(***************************************************************************)
EXTENDS Naturals, FiniteSets

CONSTANTS
    Requests,   \* finalize requests; two of them may carry the same key
    Keys,       \* idempotency keys
    None,
    Horizon,    \* intervals between two passes in the reconciliation window
    MaxPasses,  \* attempts of the cleanup, executions and reconciliations
    MaxPuts     \* bound: times the URL is used successfully

\* The settings demand that the attempts cover the window (config.py).
ASSUME UploadAssumption ==
    /\ None \notin Requests /\ Requests # {} /\ Keys # {}
    /\ MaxPuts \in Nat /\ Horizon \in Nat /\ MaxPasses \in Nat /\ MaxPasses > Horizon

VARIABLES
    session,   \* the row
    keys,      \* the idempotency records of the finalize scope
    request,   \* the running finalize requests
    assets,    \* assets, with object fact and validation operation, created from the session
    source,    \* what is stored under the quarantine key
    cleanup,   \* the cleanup operation
    phase,     \* of the presigned URL
    due,       \* the retention deadline of the owning workflow has passed
    puts

vars == <<session, keys, request, assets, source, cleanup, phase, due, puts>>
-----------------------------------------------------------------------------
(* State *)

Terminal == {"FINALIZED", "EXPIRED", "ABORTED"}

SessionRow == [state : {"OPEN", "FINALIZING"} \cup Terminal, version : Nat \ {0},
               token : Requests \cup {None}, live : BOOLEAN, cleanup : BOOLEAN]

KeyRecord == [status : {"NONE", "PENDING", "ASSET", "ERROR"}, expected : Nat]

CleanupRow == [status : {"NONE", "OPEN", "DELETED", "DONE", "FAILED"}, target : Nat, age : 0..Horizon,
               ready : BOOLEAN, passes : Nat, failed : BOOLEAN, missed : BOOLEAN]

(* The cleanup of the row's version, waiting for its first pass.  Its age counts the    *)
(* intervals that have passed; failed and missed are history: a pass did not succeed,   *)
(* and an object came after the deletion of the last pass and before its decision.      *)
NewCleanup(status, target) ==
    [status |-> status, target |-> target, age |-> 0, ready |-> TRUE, passes |-> 0,
     failed |-> FALSE, missed |-> FALSE]

RequestState == [pc : {"idle", "stat", "read", "commit", "reject", "release", "done"},
                 key : Keys \cup {None}, seen : 0..MaxPuts]

(* UploadSession.create: nobody finalizes it yet.                           *)
NewSession == [state |-> "OPEN", version |-> 1, token |-> None, live |-> FALSE, cleanup |-> FALSE]

Init ==
    /\ session = NewSession
    /\ keys = [k \in Keys |-> [status |-> "NONE", expected |-> 0]]
    /\ request = [q \in Requests |-> [pc |-> "idle", key |-> None, seen |-> 0]]
    /\ assets = {}
    /\ source = [object |-> "none", version |-> 0]
    /\ cleanup = NewCleanup("NONE", 0)
    /\ phase = 0 /\ due = FALSE /\ puts = 0

-----------------------------------------------------------------------------
(* The UploadSession entity *)

(* _touch, _clear_lease *)
Entered(state) == [session EXCEPT !.state = state, !.version = @ + 1, !.token = None, !.live = FALSE]

ExpireIfDue == session.state = "OPEN" /\ phase > 0

ExpireForRetention == due /\ session.state \in {"OPEN", "FINALIZING"}

ExpireAbandoned ==
    phase > 0 /\ (session.state = "OPEN" \/ (session.state = "FINALIZING" /\ ~session.live))

HoldsLease(q) == session.state = "FINALIZING" /\ session.token = q

HoldsLiveLease(q) == HoldsLease(q) /\ session.live

ClaimFinalize(q) ==
    session' = [session EXCEPT !.state = "FINALIZING", !.version = @ + 1, !.token = q, !.live = TRUE]

(* schedule_cleanup of an ended session, in the transaction that ends it *)
ScheduleCleanup(row) ==
    IF row.state \in {"EXPIRED", "ABORTED"} /\ ~row.cleanup
    THEN /\ session' = [row EXCEPT !.cleanup = TRUE, !.version = @ + 1]
         /\ cleanup' = NewCleanup("OPEN", row.version + 1)
    ELSE session' = row /\ UNCHANGED cleanup

-----------------------------------------------------------------------------
(* Finalize, first transaction *)

At(q, pc) == request[q].pc = pc
Goto(q, pc) == request' = [request EXCEPT ![q].pc = pc]

Complete(k, answer) == keys' = [keys EXCEPT ![k].status = answer]

(* What claim_idempotency returns for a request with this expected version. *)
Conflict(k, v) == keys[k].status # "NONE" /\ keys[k].expected # v
Resumed(k) == keys[k].status = "PENDING"

Expiring == ExpireForRetention \/ ExpireAbandoned

ClaimExpired(q) ==
    /\ At(q, "idle") /\ Expiring
    /\ ScheduleCleanup(Entered("EXPIRED"))
    /\ Goto(q, "done")
    /\ UNCHANGED <<keys, assets, source, phase, due, puts>>

ClaimLease(q, k, v) ==
    /\ At(q, "idle") /\ ~Expiring
    /\ ~Conflict(k, v)
    /\ keys[k].status \in {"NONE", "PENDING"}
    /\ session.state \notin Terminal
    /\ Resumed(k) \/ v = session.version
    /\ session.state = "FINALIZING" => ~session.live
    /\ ClaimFinalize(q)
    /\ keys' = [keys EXCEPT ![k] = [status |-> "PENDING", expected |-> v]]
    /\ request' = [request EXCEPT ![q] = [pc |-> "stat", key |-> k, seen |-> 0]]
    /\ UNCHANGED <<assets, source, cleanup, phase, due, puts>>

ClaimFinalized(q, k, v) ==
    /\ At(q, "idle") /\ session.state = "FINALIZED"
    /\ ~Conflict(k, v)
    /\ keys[k].status \in {"NONE", "PENDING"}
    /\ keys' = [keys EXCEPT ![k] = [status |-> "ASSET", expected |-> v]]
    /\ Goto(q, "done")
    /\ UNCHANGED <<session, assets, source, cleanup, phase, due, puts>>

-----------------------------------------------------------------------------
(* Finalize, verification of the object outside of any transaction *)

Stat(q) ==
    /\ At(q, "stat")
    /\ request' = [request EXCEPT ![q].pc = IF source.object = "none" THEN "release" ELSE "read",
                                  ![q].seen = source.version]
    /\ UNCHANGED <<session, keys, assets, source, cleanup, phase, due, puts>>

Read(q) ==
    /\ At(q, "read")
    /\ Goto(q, CASE source.object = "none" -> "release"
                 [] source.object # "none" /\ (source.version # request[q].seen \/ source.object = "bad") -> "reject"
                 [] OTHER -> "commit")
    /\ UNCHANGED <<session, keys, assets, source, cleanup, phase, due, puts>>

StorageUnavailable(q) ==
    /\ request[q].pc \in {"stat", "read"}
    /\ Goto(q, "release")
    /\ UNCHANGED <<session, keys, assets, source, cleanup, phase, due, puts>>

-----------------------------------------------------------------------------
(* Finalize, last transaction *)

(* Mutant: whoever still knows its token commits, although the session has ended. *)
CommitWithoutLease(q) ==
    /\ At(q, "commit")
    /\ session' = Entered("FINALIZED")
    /\ assets' = assets \cup {request[q].seen}
    /\ Complete(request[q].key, "ASSET")
    /\ Goto(q, "done")
    /\ UNCHANGED <<source, cleanup, phase, due, puts>>

Commit(q) ==
    /\ At(q, "commit")
    /\ CASE session.state = "FINALIZED" ->
              Complete(request[q].key, "ASSET") /\ UNCHANGED <<session, cleanup, assets>>
         [] session.state # "FINALIZED" /\ ExpireForRetention ->
              ScheduleCleanup(Entered("EXPIRED")) /\ UNCHANGED <<keys, assets>>
         [] session.state # "FINALIZED" /\ ~ExpireForRetention /\ HoldsLiveLease(q) ->
              /\ session' = Entered("FINALIZED")
              /\ assets' = assets \cup {request[q].seen}
              /\ Complete(request[q].key, "ASSET")
              /\ UNCHANGED cleanup
         [] OTHER -> UNCHANGED <<session, cleanup, keys, assets>>    \* LeaseConflictError
    /\ Goto(q, "done")
    /\ UNCHANGED <<source, phase, due, puts>>

Release(q) ==
    /\ At(q, "release")
    /\ IF HoldsLease(q)
       THEN ScheduleCleanup(Entered(IF phase > 0 THEN "EXPIRED" ELSE "OPEN"))
       ELSE UNCHANGED <<session, cleanup>>
    /\ Goto(q, "done")
    /\ UNCHANGED <<keys, assets, source, phase, due, puts>>

Reject(q) ==
    /\ At(q, "reject")
    /\ IF HoldsLiveLease(q)
       THEN ScheduleCleanup(Entered("ABORTED")) /\ Complete(request[q].key, "ERROR")
       ELSE UNCHANGED <<session, cleanup, keys>>
    /\ Goto(q, "done")
    /\ UNCHANGED <<assets, source, phase, due, puts>>

RequestDies(q) ==
    /\ request[q].pc \notin {"idle", "done"}
    /\ Goto(q, "done")
    /\ UNCHANGED <<session, keys, assets, source, cleanup, phase, due, puts>>

-----------------------------------------------------------------------------
(* The other entry points *)

(* abort: an OPEN session whose URL has expired ends as EXPIRED. *)
Abort ==
    /\ session.state = "OPEN"
    /\ ScheduleCleanup(Entered(IF ExpireIfDue THEN "EXPIRED" ELSE "ABORTED"))
    /\ UNCHANGED <<keys, request, assets, source, phase, due, puts>>

(* get, and the replay of create *)
Look ==
    /\ ExpireIfDue
    /\ ScheduleCleanup(Entered("EXPIRED"))
    /\ UNCHANGED <<keys, request, assets, source, phase, due, puts>>

ExpiryScan ==
    /\ ExpireAbandoned
    /\ ScheduleCleanup(Entered("EXPIRED"))
    /\ UNCHANGED <<keys, request, assets, source, phase, due, puts>>

-----------------------------------------------------------------------------
(* The cleanup operation *)

CleanupFacts == session.state \in Terminal /\ session.cleanup /\ session.version = cleanup.target

Over == cleanup.age = Horizon

(* A pass begins when it is due and the operation has attempts left. *)
PassDue == cleanup.status = "OPEN" /\ cleanup.ready /\ cleanup.passes < MaxPasses /\ phase = 2

Deleted == source' = [source EXCEPT !.object = "none"]

(* UploadObjectCleaner.cleanup: what is stored is removed by its etag. *)
Cleanup ==
    /\ PassDue /\ CleanupFacts
    /\ Deleted
    /\ cleanup' = [cleanup EXCEPT !.status = "DELETED", !.passes = @ + 1, !.missed = FALSE]
    /\ UNCHANGED <<session, keys, request, assets, phase, due, puts>>

Exhausted(passes) == passes >= MaxPasses

(* Mutant: the first pass ends the operation. *)
DecideOnce ==
    /\ cleanup.status = "DELETED"
    /\ cleanup' = [cleanup EXCEPT !.status = "DONE"]
    /\ UNCHANGED <<session, keys, request, assets, source, phase, due, puts>>

(* execute, reconcile: after the deletion the clock is read; a pass within the window waits  *)
(* an interval for the next one, and fails the operation if there is no attempt left.        *)
Decide ==
    /\ cleanup.status = "DELETED"
    /\ cleanup' = IF Over THEN [cleanup EXCEPT !.status = "DONE"]
                  ELSE IF Exhausted(cleanup.passes) THEN [cleanup EXCEPT !.status = "FAILED"]
                  ELSE [cleanup EXCEPT !.status = "OPEN", !.ready = FALSE]
    /\ UNCHANGED <<session, keys, request, assets, source, phase, due, puts>>

(* A pass that failed is retried at once or after some time; the operation fails with its    *)
(* last attempt or when the retry would come after its deadline.                             *)
GiveUpOrRetry(passes) ==
    \E status \in {"OPEN", "FAILED"} :
        /\ Exhausted(passes) => status = "FAILED"
        /\ cleanup' = [cleanup EXCEPT !.status = status, !.passes = passes, !.failed = TRUE]

(* The storage fails, or its answer is lost. *)
CleanupFails ==
    /\ PassDue /\ CleanupFacts
    /\ Deleted \/ UNCHANGED source
    /\ GiveUpOrRetry(cleanup.passes + 1)
    /\ UNCHANGED <<session, keys, request, assets, phase, due, puts>>

(* The worker dies, or its lease ends, after the deletion. *)
PassIsLost ==
    /\ cleanup.status = "DELETED"
    /\ GiveUpOrRetry(cleanup.passes)
    /\ UNCHANGED <<session, keys, request, assets, source, phase, due, puts>>

-----------------------------------------------------------------------------
(* The client's transfer and the clock *)

(* The URL carries If-None-Match: * and the declared checksum.  It cannot be revoked, and a *)
(* transfer that began in time may land until the reconciliation window is over.            *)
Put ==
    /\ source.object = "none" /\ puts < MaxPuts
    /\ phase < 2 \/ (cleanup.status # "NONE" /\ ~Over)
    /\ puts' = puts + 1
    /\ \E content \in {"good", "bad"} : source' = [object |-> content, version |-> puts + 1]
    /\ cleanup' = [cleanup EXCEPT !.missed = @ \/ cleanup.status = "DELETED"]
    /\ UNCHANGED <<session, keys, request, assets, phase, due>>

UrlAges ==
    /\ phase < 2
    /\ phase' = phase + 1
    /\ UNCHANGED <<session, keys, request, assets, source, cleanup, due, puts>>

(* expires_at is at most the retention deadline. *)
RetentionDeadlinePasses ==
    /\ phase > 0 /\ ~due
    /\ due' = TRUE
    /\ UNCHANGED <<session, keys, request, assets, source, cleanup, phase, puts>>

LeaseLapses ==
    /\ session.live
    /\ session' = [session EXCEPT !.live = FALSE]
    /\ UNCHANGED <<keys, request, assets, source, cleanup, phase, due, puts>>

(* An interval of the reconciliation window passes. *)
WindowAges ==
    /\ cleanup.status # "NONE" /\ phase = 2 /\ ~Over
    /\ cleanup' = [cleanup EXCEPT !.age = @ + 1, !.ready = TRUE]
    /\ UNCHANGED <<session, keys, request, assets, source, phase, due, puts>>

-----------------------------------------------------------------------------
FinalizeStep(q) ==
    \/ ClaimExpired(q)
    \/ \E k \in Keys, v \in 1..session.version : ClaimLease(q, k, v) \/ ClaimFinalized(q, k, v)
    \/ Stat(q) \/ Read(q) \/ StorageUnavailable(q)
    \/ Commit(q) \/ Release(q) \/ Reject(q) \/ RequestDies(q)

Next ==
    \/ \E q \in Requests : FinalizeStep(q)
    \/ Abort \/ Look \/ ExpiryScan
    \/ Cleanup \/ Decide \/ CleanupFails \/ PassIsLost
    \/ Put \/ UrlAges \/ RetentionDeadlinePasses \/ LeaseLapses \/ WindowAges

(* The clock moves on, the expiry scan and the workers of the cleanup keep running; no *)
(* client and no request has to do anything.                                           *)
Fairness ==
    /\ WF_vars(UrlAges) /\ WF_vars(LeaseLapses) /\ WF_vars(WindowAges)
    /\ WF_vars(ExpiryScan) /\ WF_vars(Cleanup) /\ WF_vars(Decide)

Spec == Init /\ [][Next]_vars /\ Fairness

-----------------------------------------------------------------------------
(* Properties *)

(* Every variable keeps its type; the version of the row counts its transitions. *)
TypeOK ==
    /\ session \in SessionRow
    /\ keys \in [Keys -> KeyRecord]
    /\ request \in [Requests -> RequestState]
    /\ assets \subseteq 1..MaxPuts
    /\ source \in [object : {"none", "good", "bad"}, version : 0..MaxPuts]
    /\ cleanup \in CleanupRow
    /\ phase \in 0..2 /\ due \in BOOLEAN /\ puts \in 0..MaxPuts

(* The constraints of the session's table: a lease belongs to FINALIZING sessions, an asset *)
(* version to FINALIZED ones, a cleanup to ended ones.  No transition is refused by them.    *)
UploadSessionTable ==
    /\ session.state = "FINALIZING" <=> session.token # None
    /\ session.live => session.state = "FINALIZING"
    /\ session.state = "FINALIZED" <=> assets # {}
    /\ session.cleanup => session.state \in {"EXPIRED", "ABORTED"}
    /\ session.cleanup <=> cleanup.status # "NONE"

(* upload_session_id is unique among the asset versions. *)
AssetVersionTable == \A v, w \in assets : v = w

RowsFitTables == UploadSessionTable /\ AssetVersionTable

(* A session yields one asset exactly when it is FINALIZED, its object is then never the    *)
(* prey of the upload cleanup, and the answers stored under the keys of its clients tell    *)
(* that fate and no other: whatever requests are repeated, overtaken or late after their    *)
(* lease, and whoever expires or aborts the session meanwhile (_commit, _reject).           *)
OneAsset ==
    /\ session.state = "FINALIZED" <=> assets # {}
    /\ session.state = "FINALIZED" =>
         /\ Cardinality(assets) = 1 /\ ~session.cleanup
         /\ source = [object |-> "good", version |-> CHOOSE a \in assets : TRUE]
    /\ \A k \in Keys : /\ keys[k].status = "ASSET" => session.state = "FINALIZED"
                       /\ keys[k].status = "ERROR" => session.state = "ABORTED"

(* Every session ends, and one that ends without an asset leaves nothing in quarantine, although *)
(* its URL stays usable after the end and requests die at any point; unless the cleanup gave up  *)
(* after a failed pass, or ended with a pass between whose deletion and decision a late object   *)
(* arrived: such an object stays (ExpiryScan, UploadSessionCleanupExecutor.execute, reconcile).  *)
GaveUp == cleanup.status = "FAILED" /\ cleanup.failed
Slipped == cleanup.status = "DONE" /\ cleanup.missed
AbandonedIsCleaned ==
    <>(\/ session.state = "FINALIZED"
       \/ [](session.state \in Terminal /\ (source.object = "none" \/ GaveUp \/ Slipped)))

-----------------------------------------------------------------------------
(* Why OneAsset holds *)

(* A cleanup is scheduled in the transaction that ends the session without an asset. *)
CleanupFollowsEnd ==
    session.state \notin {"EXPIRED", "ABORTED"} => ~session.cleanup /\ cleanup.status = "NONE"

(* A request about to commit has verified the very object that is in quarantine: as long as *)
(* no cleanup is allowed, the URL cannot replace what it has stored.                        *)
VerifiedObjectStays ==
    /\ source.object # "none" => source.version > 0
    /\ session.state \notin {"EXPIRED", "ABORTED"} =>
         \A q \in Requests : At(q, "commit") =>
             source = [object |-> "good", version |-> request[q].seen]

(* The inductive invariant. *)
UploadInv == TypeOK /\ CleanupFollowsEnd /\ VerifiedObjectStays /\ OneAsset
==============================================================================
