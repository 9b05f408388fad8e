-------------------------- MODULE DurableOperation --------------------------
(***************************************************************************)
(* One durable operation: the durable_operations row, the workers that     *)
(* execute and reconcile it, the recovery scanner of the scheduler, the    *)
(* recovery events that carry it between them, and the replay of its dead  *)
(* letters.                                                                *)
(*                                                                         *)
(* Every action is one transaction of OperationApplicationService or of    *)
(* the scanner, or a step between two transactions.  The row's version is  *)
(* only compared for equality with the version a worker read, so instead   *)
(* of the number a worker keeps whether what it read is still current.  An *)
(* instant is kept as its relation to now (later or due, open or elapsed); *)
(* the actions of the clock let it pass.  A lease token is a fresh uuid7:  *)
(* every claim increments its counter, so the counter names the token.     *)
(* The transport is DeliveryContract: an event is handled again and again  *)
(* until a handler returns or its budget is exhausted.                     *)
(***************************************************************************)
EXTENDS Naturals, Sequences, FiniteSets

CONSTANTS
    Workers,              \* processes running DurableOperationWorker
    MaxAttempts,          \* bound: max_attempts of the new operation
    MaxReconciliations,   \* max_reconciliation_attempts of the new operation
    MaxEvents,            \* bound: events stored for the operation
    MaxFaults             \* bound: faults, see Fault

ASSUME OperationAssumption ==
    /\ MaxAttempts \in Nat \ {0}
    /\ MaxReconciliations \in Nat \ {0}
    /\ MaxEvents \in Nat \ {0}
    /\ MaxFaults \in Nat

VARIABLES
    state, token, lease,                          \* state, lease_token, lease_expires_at
    attempts, maxAttempts, retryDue, execElapsed, \* attempt_count ... execution_deadline_at
    recAttempts, maxRec, recDue, recElapsed,      \* the reconciliation columns
    outcome,                                      \* reconciliation_outcome
    identified,                                   \* provider_request_id is not NULL
    deadLetter,                                   \* dead_letter_id, 0 for NULL
    replayOf,                                     \* the replay event last applied, 0 for none
    generation, consumed,                         \* the recovery generations
    terminals,                                    \* the recovery reasons of the terminal dead letters
    event,                                        \* the operation's outbox events
    replay,                                       \* the dead_letter_replays lifecycle of each event
    converged,                                    \* failures the target aggregate was told of
    worker,
    holder,                                       \* the worker with the Inbox lease of an event
    faults

leaseVars == <<token, lease>>
execVars == <<attempts, maxAttempts, retryDue, execElapsed>>
recVars == <<recAttempts, maxRec, recDue, recElapsed, outcome>>
deadVars == <<deadLetter, terminals>>
genVars == <<generation, consumed>>
rowVars == <<state, leaseVars, execVars, recVars, identified, deadVars, replayOf, genVars>>
vars == <<state, token, lease, attempts, maxAttempts, retryDue, execElapsed, recAttempts,
          maxRec, recDue, recElapsed, outcome, identified, deadLetter, terminals, replayOf,
          generation, consumed, event, replay, converged, worker, holder, faults>>

-----------------------------------------------------------------------------
(* State *)

States == {"PENDING", "CLAIMED", "RUNNING", "RECONCILING", "WAITING_HUMAN",
           "RETRYABLE_FAILED", "SUCCEEDED", "FAILED", "CANCELLED"}
Terminal == {"SUCCEEDED", "FAILED", "CANCELLED"}

Outcomes == {"NOT_REQUIRED", "PENDING", "CONFIRMED_SUCCESS", "CONFIRMED_FAILURE"}

Reasons == {"NONE", "EXPIRED_CLAIM", "UNKNOWN_EXTERNAL_OUTCOME", "READY_RETRY",
            "RECONCILIATION_PENDING", "TERMINAL_FAILURE"}

Token == [kind : {"none", "execution", "reconciliation", "callback"}, number : Nat]
NoToken == [kind |-> "none", number |-> 0]
ExecutionToken(n) == [kind |-> "execution", number |-> n]
ReconciliationToken(n) == [kind |-> "reconciliation", number |-> n]
CallbackToken(e) == [kind |-> "callback", number |-> e]

EventIds == 1..MaxEvents

\* A dead letter is a terminal failure of the operation or an event that the
\* transport gave up.
Letter == [kind : {"none", "terminal", "transport"}, number : Nat]
NoLetter == [kind |-> "none", number |-> 0]
TerminalLetter(k) == [kind |-> "terminal", number |-> k]
TransportLetter(e) == [kind |-> "transport", number |-> e]

Event ==
    [status : {"absent", "unpublished", "published", "processed", "dead"},
     reason : Reasons,
     gen    : Nat,       \* recovery_generation of the payload, 0 for none
     source : Letter]    \* source_dead_letter_id

NewEvent(reason, gen, source) ==
    [status |-> "unpublished", reason |-> reason, gen |-> gen, source |-> source]

Lifecycle ==
    [stage : {"NONE", "RECORDED", "PREPARED", "CLAIMED", "COMPLETED"}, claim : Token]

Stage(stage, claim) == [stage |-> stage, claim |-> claim]

\* current: the version the worker read is the version of the row.
\* failure: the terminal failure it is about to tell the target of.
WorkerState ==
    [pc      : {"idle", "execute", "claim", "retry", "start", "running", "exhaust",
                "claim_reconciliation", "read_claim", "reconciling", "exhausted",
                "converge", "prepare", "claim_replay", "complete_replay",
                "prepare_terminal", "complete_terminal", "consume", "done"},
     event   : 0..MaxEvents,
     token   : Token,
     current : BOOLEAN,
     failure : Nat]

At(pc, e) == [pc |-> pc, event |-> e, token |-> NoToken, current |-> FALSE, failure |-> 0]
Holding(pc, e, t) == [pc |-> pc, event |-> e, token |-> t, current |-> FALSE, failure |-> 0]
Reading(pc, e, t) == [pc |-> pc, event |-> e, token |-> t, current |-> TRUE, failure |-> 0]
Telling(e, t, k) == [pc |-> "converge", event |-> e, token |-> t, current |-> FALSE,
                     failure |-> k]

Init ==
    /\ state = "PENDING" /\ token = NoToken /\ lease = "none"
    /\ attempts = 0 /\ maxAttempts \in 1..MaxAttempts /\ retryDue = "none" /\ execElapsed = FALSE
    /\ recAttempts = 0 /\ maxRec = MaxReconciliations /\ recDue = "none"
    /\ recElapsed = FALSE /\ outcome = "NOT_REQUIRED"
    /\ identified = FALSE
    /\ deadLetter = 0 /\ terminals = << >>
    /\ replayOf = 0
    /\ generation = 0 /\ consumed = 0
    /\ event = [e \in EventIds |->
          [status |-> IF e = 1 THEN "unpublished" ELSE "absent",
           reason |-> "NONE", gen |-> 0, source |-> NoLetter]]
    /\ replay = [e \in EventIds |-> Stage("NONE", NoToken)]
    /\ converged = {}
    /\ worker = [w \in Workers |-> At("idle", 0)]
    /\ holder = [e \in EventIds |-> {}]
    /\ faults = 0

-----------------------------------------------------------------------------
(* What the transactions do to the row *)

EventOf(w) == event[worker[w].event]

Move(w, next) == worker' = [worker EXCEPT ![w] = next]

\* A step of the worker that leaves the row alone.
Step(w, next) == Move(w, next) /\ UNCHANGED <<holder, faults>>

\* The row is saved with a new version: nobody else's reading is current.
Touch(w, next) ==
    /\ worker' = [v \in Workers |->
          IF v = w THEN next ELSE [worker[v] EXCEPT !.current = FALSE]]
    /\ UNCHANGED <<holder, faults>>

\* Mutant: the scanner saves the row without advancing its version.
OutdateNobody == UNCHANGED worker

OutdateAll == worker' = [v \in Workers |-> [worker[v] EXCEPT !.current = FALSE]]

TouchAll == OutdateAll /\ UNCHANGED <<holder, faults>>

\* A fault the instance still has.
Disturb == faults < MaxFaults /\ faults' = faults + 1

\* The handler ends: mark_processed or schedule_retry, if it still has the
\* Inbox lease.
End(w, status) ==
    LET e == worker[w].event IN
    /\ Move(w, At("idle", 0))
    /\ holder' = [holder EXCEPT ![e] = @ \ {w}]
    /\ event' = IF w \in holder[e] /\ event[e].status = "published"
                THEN [event EXCEPT ![e] = [@ EXCEPT !.status = status]] ELSE event
    /\ UNCHANGED <<rowVars, replay, converged>>

\* The handler raises: the transport schedules another delivery.
Abandon(w) == End(w, "unpublished")
Raise(w) == Abandon(w) /\ UNCHANGED faults

ClearLease == token' = NoToken /\ lease' = "none"

Identify(known) == identified' = (identified \/ known)

\* Mutant: the dead letter forgets that the outcome is unknown.
FailureReasonRetry(out) == "READY_RETRY"

FailureReason(out) == IF out = "PENDING" THEN "RECONCILIATION_PENDING" ELSE "READY_RETRY"

\* record_terminal_operation_failure of a row that has just failed.
RecordTerminalFailure(out) ==
    /\ terminals' = Append(terminals, FailureReason(out))
    /\ deadLetter' = Len(terminals) + 1

\* complete_claimed_replays: skipped by its callers when the operation failed.
CompleteClaimedReplays(t) ==
    replay' = [e \in EventIds |->
        IF replay[e].stage = "CLAIMED" /\ replay[e].claim = t
        THEN Stage("COMPLETED", NoToken) ELSE replay[e]]

ReconciliationExhausted == recAttempts >= maxRec \/ recElapsed

\* A replayed recovery event follows the replay lifecycle; a replayed request
\* event (reason NONE) is handled as the first delivery was.
IsReplay(e) == event[e].source # NoLetter /\ event[e].reason # "NONE"
IsTerminalReplay(e) == IsReplay(e) /\ event[e].reason = "TERMINAL_FAILURE"

\* Where a handler goes on once the operation's own work is done.
Afterwards(e) ==
    IF IsTerminalReplay(e) THEN "complete_terminal"
    ELSE IF IsReplay(e) THEN "complete_replay" ELSE "consume"

\* _claim: the caller checks state, due time and deadline.
TakeExecution(next) ==
    /\ attempts < maxAttempts
    /\ state' = next
    /\ token' = ExecutionToken(attempts + 1) /\ lease' = "live"
    /\ attempts' = attempts + 1 /\ retryDue' = "none"
    /\ UNCHANGED <<maxAttempts, execElapsed, recVars, identified, deadVars>>

ExhaustExecutionDeadline ==
    /\ state \in {"PENDING", "RETRYABLE_FAILED"}
    /\ state' = "FAILED" /\ retryDue' = "none"
    /\ ClearLease
    /\ RecordTerminalFailure(outcome)
    /\ UNCHANGED <<attempts, maxAttempts, execElapsed, recVars, identified>>

\* The external outcome is unknown: only reconciliation may go on.
EnterReconciliation ==
    /\ state' = "RECONCILING" /\ outcome' = "PENDING"
    /\ recDue' = "due" /\ recElapsed' = FALSE /\ retryDue' = "none"
    /\ ClearLease
    /\ UNCHANGED <<attempts, maxAttempts, execElapsed, recAttempts, maxRec, deadVars>>

TakeReconciliation ==
    /\ state = "RECONCILING" /\ lease # "live"
    /\ ~ReconciliationExhausted /\ recDue # "later"
    /\ token' = ReconciliationToken(recAttempts + 1) /\ lease' = "live"
    /\ recAttempts' = recAttempts + 1 /\ recDue' = "none"
    /\ UNCHANGED <<state, execVars, maxRec, recElapsed, outcome, identified, deadVars>>

ExhaustReconciliation ==
    /\ state = "RECONCILING" /\ lease # "live"
    /\ state' = "FAILED" /\ recDue' = "none"
    /\ ClearLease
    /\ RecordTerminalFailure(outcome)
    /\ UNCHANGED <<execVars, recAttempts, maxRec, recElapsed, outcome, identified>>

ApplySuccess(known) ==
    /\ state' = "SUCCEEDED"
    /\ outcome' = IF outcome = "NOT_REQUIRED" THEN outcome ELSE "CONFIRMED_SUCCESS"
    /\ Identify(known)
    /\ ClearLease
    /\ UNCHANGED <<execVars, recAttempts, maxRec, recDue, recElapsed, deadVars>>

\* Mutant: one retry more than the attempts allow.
ApplyFailureOneMore(retryable, out) ==
    /\ outcome' = out
    /\ ClearLease
    /\ \/ /\ retryable /\ attempts <= maxAttempts /\ ~execElapsed
          /\ state' = "RETRYABLE_FAILED" /\ retryDue' \in {"later", "due"}
          /\ UNCHANGED deadVars
       \/ /\ ~(retryable /\ attempts <= maxAttempts /\ ~execElapsed)
          /\ state' = "FAILED" /\ retryDue' = "none"
          /\ RecordTerminalFailure(out)
    /\ UNCHANGED <<attempts, maxAttempts, execElapsed, recAttempts, maxRec, recDue, recElapsed>>

\* _apply_failure: out is the reconciliation outcome after it.  The retry
\* policy gives up an error whose retry would come after the deadline.
ApplyFailure(retryable, out) ==
    /\ outcome' = out
    /\ ClearLease
    /\ \/ /\ retryable /\ attempts < maxAttempts /\ ~execElapsed
          /\ state' = "RETRYABLE_FAILED" /\ retryDue' \in {"later", "due"}
          /\ UNCHANGED deadVars
       \/ /\ ~(retryable /\ attempts < maxAttempts /\ ~execElapsed)
          /\ state' = "FAILED" /\ retryDue' = "none"
          /\ RecordTerminalFailure(out)
    /\ UNCHANGED <<attempts, maxAttempts, execElapsed, recAttempts, maxRec, recDue, recElapsed>>

-----------------------------------------------------------------------------
(* The transport, seen from the operation *)

Publish(e) ==
    /\ event[e].status = "unpublished"
    /\ event' = [event EXCEPT ![e] = [@ EXCEPT !.status = "published"]]
    /\ UNCHANGED <<rowVars, replay, converged, worker, holder, faults>>

\* InboxRepository.claim: the lease goes to the worker of the newest delivery.
Handling(w, e) ==
    /\ worker[w].pc = "idle"
    /\ event[e].status = "published"
    /\ Move(w, At(IF IsTerminalReplay(e) THEN "prepare_terminal"
                  ELSE IF IsReplay(e) THEN "prepare" ELSE "execute", e))
    /\ holder' = [holder EXCEPT ![e] = {w}]
    /\ UNCHANGED <<rowVars, event, replay, converged>>

Deliver(w, e) ==
    /\ holder[e] = {}
    /\ Handling(w, e)
    /\ UNCHANGED faults

\* The Inbox lease of a handler expired: it goes on without it.
Overtake(w, e) ==
    /\ holder[e] # {}
    /\ Handling(w, e)
    /\ Disturb

\* The handler returned.
Settle(w) ==
    /\ worker[w].pc = "done"
    /\ End(w, "processed")
    /\ UNCHANGED faults

\* The delivery budget is exhausted.
GiveUp(e) ==
    /\ event[e].status = "published"
    /\ event' = [event EXCEPT ![e] = [@ EXCEPT !.status = "dead"]]
    /\ Disturb
    /\ UNCHANGED <<rowVars, replay, converged, worker, holder>>

\* The process dies; the broker delivers the event again.
WorkerCrash(w) ==
    /\ worker[w].pc # "idle"
    /\ Move(w, At("idle", 0))
    /\ holder' = [holder EXCEPT ![worker[w].event] = @ \ {w}]
    /\ Disturb
    /\ UNCHANGED <<rowVars, event, replay, converged>>

\* A transaction rolls back, or the executor or the callback raises something
\* the handler does not catch.
HandlerFails(w) ==
    /\ worker[w].pc \notin {"idle", "done"}
    /\ Abandon(w)
    /\ Disturb

FirstFree(e) ==
    /\ event[e].status = "absent"
    /\ \A f \in EventIds : f < e => event[f].status # "absent"

-----------------------------------------------------------------------------
(* DurableOperationWorker.execute *)

ReadOperation(w) ==
    LET e == worker[w].event IN
    /\ worker[w].pc = "execute"
    /\ \/ state = "PENDING" /\ Step(w, At("claim", e))
       \/ state = "RETRYABLE_FAILED" /\ Step(w, At("retry", e))
       \/ state = "RECONCILING" /\ ReconciliationExhausted /\ Step(w, At("exhaust", e))
       \/ state = "RECONCILING" /\ ~ReconciliationExhausted
          /\ Step(w, At("claim_reconciliation", e))
       \/ state = "FAILED" /\ Step(w, Telling(e, NoToken, deadLetter))
       \/ state \in {"SUCCEEDED", "CANCELLED"} /\ Step(w, At("consume", e))
    /\ UNCHANGED <<rowVars, event, replay, converged>>

ExecuteRefused(w) ==
    /\ worker[w].pc = "execute"
    /\ state \in {"CLAIMED", "RUNNING", "WAITING_HUMAN"}
    /\ Raise(w)

\* claim and retry: the deadline is checked in the transaction that claims.
MayClaim(w) ==
    \/ worker[w].pc = "claim" /\ state = "PENDING"
    \/ worker[w].pc = "retry" /\ state = "RETRYABLE_FAILED" /\ retryDue = "due"

ClaimExecution(w) ==
    /\ worker[w].pc \in {"claim", "retry"}
    /\ \/ /\ execElapsed
          /\ ExhaustExecutionDeadline
          /\ Touch(w, At("exhausted", worker[w].event))
       \/ /\ ~execElapsed /\ MayClaim(w)
          /\ TakeExecution("CLAIMED")
          /\ Touch(w, Holding("start", worker[w].event, ExecutionToken(attempts + 1)))
    /\ UNCHANGED <<replayOf, genVars, event, replay, converged>>

ClaimRefused(w) ==
    /\ worker[w].pc \in {"claim", "retry"}
    /\ IF execElapsed THEN state \notin {"PENDING", "RETRYABLE_FAILED"} ELSE ~MayClaim(w)
    /\ Raise(w)

\* RetryExhaustedError: the operation is read again.
ReadExhausted(w) ==
    /\ worker[w].pc = "exhausted"
    /\ Step(w, IF state = "FAILED" THEN Telling(worker[w].event, NoToken, deadLetter)
               ELSE At("consume", worker[w].event))
    /\ UNCHANGED <<rowVars, event, replay, converged>>

\* start uses the instant of the claim, at which the lease was live.
Start(w) ==
    /\ worker[w].pc = "start"
    /\ state = "CLAIMED" /\ token = worker[w].token
    /\ state' = "RUNNING"
    /\ Touch(w, Reading("running", worker[w].event, worker[w].token))
    /\ UNCHANGED <<leaseVars, execVars, recVars, identified, deadVars, replayOf, genVars,
                   event, replay, converged>>

StartRefused(w) ==
    /\ worker[w].pc = "start"
    /\ state # "CLAIMED" \/ token # worker[w].token
    /\ Raise(w)

-----------------------------------------------------------------------------
(* _execute_claimed: the result of the external execution *)

GoOn(w) == Holding(Afterwards(worker[w].event), worker[w].event, worker[w].token)
Converge(w, k) == Telling(worker[w].event, worker[w].token, k)

\* _assert_execution_result_authority: the version read at the start is the
\* row's; the lease may have expired.
ExecutionAuthority(w) ==
    /\ worker[w].pc = "running" /\ worker[w].current
    /\ state = "RUNNING" /\ token = worker[w].token

Succeed(w) ==
    /\ ExecutionAuthority(w)
    /\ \E known \in BOOLEAN : ApplySuccess(known)
    /\ CompleteClaimedReplays(worker[w].token)
    /\ Touch(w, GoOn(w))
    /\ UNCHANGED <<replayOf, genVars, event, converged>>

WaitForHuman(w) ==
    /\ ExecutionAuthority(w)
    /\ state' = "WAITING_HUMAN"
    /\ \E known \in BOOLEAN : Identify(known)
    /\ ClearLease
    /\ Touch(w, GoOn(w))
    /\ UNCHANGED <<execVars, recVars, deadVars, replayOf, genVars, event, replay, converged>>

RequireReconciliation(w) ==
    /\ ExecutionAuthority(w)
    /\ EnterReconciliation
    /\ \E known \in BOOLEAN : Identify(known)
    /\ CompleteClaimedReplays(worker[w].token)
    /\ Touch(w, GoOn(w))
    /\ UNCHANGED <<replayOf, genVars, event, converged>>

\* A result saved: a failed operation is not settled before its callback.
SettleFailure(w) ==
    \/ state' # "FAILED" /\ CompleteClaimedReplays(worker[w].token) /\ Touch(w, GoOn(w))
    \/ state' = "FAILED" /\ UNCHANGED replay /\ Touch(w, Converge(w, deadLetter'))

Fail(w) ==
    /\ ExecutionAuthority(w)
    /\ \E retryable, known \in BOOLEAN : ApplyFailure(retryable, outcome) /\ Identify(known)
    /\ SettleFailure(w)
    /\ UNCHANGED <<replayOf, genVars, event, converged>>

\* A result whose version is no longer current settles nothing: only an
\* unknown provider request id is kept, and a handler whose own result was a
\* failure converges the failure it finds.
LateResult(w) ==
    /\ \/ UNCHANGED identified /\ Step(w, GoOn(w))
       \/ UNCHANGED identified /\ state = "FAILED" /\ Step(w, Converge(w, deadLetter))
       \/ ~identified /\ identified' = TRUE /\ Touch(w, GoOn(w))
       \/ ~identified /\ identified' = TRUE
          /\ state = "FAILED" /\ Touch(w, Converge(w, deadLetter))
    /\ UNCHANGED <<state, leaseVars, execVars, recVars, deadVars, replayOf, genVars,
                   event, replay, converged>>

LateExecutionAdmitted(w) ==
    /\ attempts = worker[w].token.number
    /\ state \in {"RECONCILING", "RETRYABLE_FAILED"} \cup Terminal

LateExecution(w) ==
    /\ worker[w].pc = "running" /\ ~worker[w].current
    /\ LateExecutionAdmitted(w)
    /\ LateResult(w)

LateExecutionRefused(w) ==
    /\ worker[w].pc = "running" /\ ~worker[w].current
    /\ ~LateExecutionAdmitted(w)
    /\ Raise(w)

-----------------------------------------------------------------------------
(* _reconcile and _reconcile_claimed *)

\* The budget is not read again in the transaction that exhausts it.
Exhaust(w) ==
    /\ worker[w].pc = "exhaust"
    /\ ExhaustReconciliation
    /\ Touch(w, Telling(worker[w].event, NoToken, deadLetter'))
    /\ UNCHANGED <<replayOf, genVars, event, replay, converged>>

ExhaustRefused(w) ==
    /\ worker[w].pc = "exhaust"
    /\ state # "RECONCILING" \/ lease = "live"
    /\ Raise(w)

ClaimReconciliation(w) ==
    /\ worker[w].pc = "claim_reconciliation"
    /\ \/ /\ ReconciliationExhausted
          /\ ExhaustReconciliation
          /\ UNCHANGED replay
          /\ Touch(w, At("exhausted", worker[w].event))
       \/ /\ TakeReconciliation
          /\ IF lease = "expired" THEN CompleteClaimedReplays(token) ELSE UNCHANGED replay
          /\ Touch(w, Holding("read_claim", worker[w].event,
                              ReconciliationToken(recAttempts + 1)))
    /\ UNCHANGED <<replayOf, genVars, event, converged>>

ReconciliationUnavailable ==
    \/ state # "RECONCILING" \/ lease = "live"
    \/ ~ReconciliationExhausted /\ recDue = "later"

ClaimReconciliationRefused(w) ==
    /\ worker[w].pc = "claim_reconciliation"
    /\ ReconciliationUnavailable
    /\ Raise(w)

\* The claimed operation is read in another transaction than its claim.
ReadClaim(w) ==
    /\ worker[w].pc = "read_claim"
    /\ Step(w, Reading("reconciling", worker[w].event, worker[w].token))
    /\ UNCHANGED <<rowVars, event, replay, converged>>

ReconciliationAuthority(w) ==
    /\ worker[w].pc = "reconciling" /\ worker[w].current
    /\ state = "RECONCILING" /\ token = worker[w].token

ConfirmSuccess(w) ==
    /\ ReconciliationAuthority(w)
    /\ \E known \in BOOLEAN : ApplySuccess(known)
    /\ CompleteClaimedReplays(worker[w].token)
    /\ Touch(w, GoOn(w))
    /\ UNCHANGED <<replayOf, genVars, event, converged>>

ConfirmFailure(w) ==
    /\ ReconciliationAuthority(w)
    /\ \E retryable, known \in BOOLEAN :
          ApplyFailure(retryable, "CONFIRMED_FAILURE") /\ Identify(known)
    /\ SettleFailure(w)
    /\ UNCHANGED <<replayOf, genVars, event, converged>>

\* PENDING, NOT_FOUND and errors of the query; a next query at or after the
\* deadline is no query.
DeferReconciliation(w) ==
    /\ ReconciliationAuthority(w)
    /\ \E known \in BOOLEAN : Identify(known)
    /\ ClearLease
    /\ \/ /\ ~ReconciliationExhausted
          /\ recDue' = "later"
          /\ UNCHANGED <<state, deadVars>>
       \/ /\ state' = "FAILED" /\ recDue' = "none"
          /\ RecordTerminalFailure(outcome)
    /\ SettleFailure(w)
    /\ UNCHANGED <<execVars, recAttempts, maxRec, recElapsed, outcome, replayOf, genVars,
                   event, converged>>

WaitForHumanAfterReconciliation(w) ==
    /\ ReconciliationAuthority(w)
    /\ state' = "WAITING_HUMAN" /\ outcome' = "CONFIRMED_SUCCESS" /\ recDue' = "none"
    /\ \E known \in BOOLEAN : Identify(known)
    /\ ClearLease
    /\ Touch(w, GoOn(w))
    /\ UNCHANGED <<execVars, recAttempts, maxRec, recElapsed, deadVars, replayOf, genVars,
                   event, replay, converged>>

LateReconciliation(w) ==
    /\ worker[w].pc = "reconciling" /\ ~worker[w].current
    /\ state \in {"RECONCILING"} \cup Terminal
    /\ LateResult(w)

\* A late wait for a human is refused whatever the state.
ReconciliationRefused(w) ==
    /\ worker[w].pc = "reconciling"
    /\ ~ReconciliationAuthority(w)
    /\ Raise(w)

\* record_terminal_failure of the executor, outside any transaction.
RecordConvergence(w) ==
    /\ worker[w].pc = "converge"
    /\ converged' = converged \cup {worker[w].failure}
    /\ Step(w, GoOn(w))
    /\ UNCHANGED <<rowVars, event, replay>>

\* consume_recovery_generation, the last transaction of the handler.
Consume(w) ==
    LET g == EventOf(w).gen IN
    /\ worker[w].pc = "consume"
    /\ \/ g <= consumed /\ UNCHANGED consumed /\ Step(w, At("done", worker[w].event))
       \/ g > consumed /\ g = generation
          /\ consumed' = g /\ Touch(w, At("done", worker[w].event))
    /\ UNCHANGED <<state, leaseVars, execVars, recVars, identified, deadVars, replayOf,
                   generation, event, replay, converged>>

-----------------------------------------------------------------------------
(* handle_recovery_event of a replayed dead letter *)

ReconcileOnly(e) == event[e].reason = "RECONCILIATION_PENDING"

SetReplay(e, stage, claim) == replay' = [replay EXCEPT ![e] = Stage(stage, claim)]

\* Mutant: the operation keeps the dead letter it was replayed from.
ReplayFailureKeepsLetter(e) ==
    /\ replayOf' = e
    /\ ClearLease
    /\ \/ /\ ReconcileOnly(e)
          /\ state' = "RECONCILING" /\ outcome' = "PENDING"
          /\ maxRec' = recAttempts + 1 /\ recDue' = "due" /\ recElapsed' = FALSE
          /\ UNCHANGED <<execVars, recAttempts>>
       \/ /\ ~ReconcileOnly(e)
          /\ state' = "RETRYABLE_FAILED"
          /\ maxAttempts' = attempts + 1 /\ retryDue' = "due" /\ execElapsed' = FALSE
          /\ UNCHANGED <<attempts, recVars>>
    /\ UNCHANGED <<identified, deadVars, genVars>>

\* Mutant: a replay buys two executions.
ReplayFailureTwoMore(e) ==
    /\ deadLetter' = 0 /\ replayOf' = e
    /\ ClearLease
    /\ \/ /\ ReconcileOnly(e)
          /\ state' = "RECONCILING" /\ outcome' = "PENDING"
          /\ maxRec' = recAttempts + 1 /\ recDue' = "due" /\ recElapsed' = FALSE
          /\ UNCHANGED <<execVars, recAttempts>>
       \/ /\ ~ReconcileOnly(e)
          /\ state' = "RETRYABLE_FAILED"
          /\ maxAttempts' = attempts + 2 /\ retryDue' = "due" /\ execElapsed' = FALSE
          /\ UNCHANGED <<attempts, recVars>>
    /\ UNCHANGED <<identified, terminals, genVars>>

\* replay_failure: one more execution, or one more reconciliation.
ReplayFailure(e) ==
    /\ deadLetter' = 0 /\ replayOf' = e
    /\ ClearLease
    /\ \/ /\ ReconcileOnly(e)
          /\ state' = "RECONCILING" /\ outcome' = "PENDING"
          /\ maxRec' = recAttempts + 1 /\ recDue' = "due" /\ recElapsed' = FALSE
          /\ UNCHANGED <<execVars, recAttempts>>
       \/ /\ ~ReconcileOnly(e)
          /\ state' = "RETRYABLE_FAILED"
          /\ maxAttempts' = attempts + 1 /\ retryDue' = "due" /\ execElapsed' = FALSE
          /\ UNCHANGED <<attempts, recVars>>
    /\ UNCHANGED <<identified, terminals, genVars>>

\* apply_transport_replay: the event's own generation, delivered after all.
ApplyTransportReplay(e) ==
    /\ consumed' = event[e].gen /\ replayOf' = e
    /\ UNCHANGED <<state, leaseVars, execVars, recVars, identified, deadVars, generation>>

TerminalReplayApplies(e) ==
    event[e].gen = 0 /\ state = "FAILED" /\ event[e].source = TerminalLetter(deadLetter)

TransportReplayApplies(e) ==
    event[e].gen > consumed /\ state \in {"RETRYABLE_FAILED", "RECONCILING"}

\* apply_recovery_replay
ApplyReplay(w) ==
    LET e == worker[w].event IN
    /\ worker[w].pc = "prepare" /\ replay[e].stage = "RECORDED"
    /\ \/ TerminalReplayApplies(e) /\ ReplayFailure(e)
       \/ TransportReplayApplies(e) /\ ApplyTransportReplay(e)
    /\ SetReplay(e, "PREPARED", NoToken)
    /\ Touch(w, At("claim_replay", e))
    /\ UNCHANGED <<event, converged>>

ReplayMoot(w) ==
    LET e == worker[w].event IN
    /\ worker[w].pc = "prepare" /\ replay[e].stage = "RECORDED"
    /\ ~TerminalReplayApplies(e) /\ ~TransportReplayApplies(e)
    /\ SetReplay(e, "COMPLETED", NoToken)
    /\ Step(w, At("consume", e))
    /\ UNCHANGED <<rowVars, event, converged>>

ResumeReplay(w) ==
    LET e == worker[w].event IN
    /\ worker[w].pc = "prepare" /\ replay[e].stage # "RECORDED"
    /\ Step(w, At(IF replay[e].stage = "COMPLETED" THEN "consume" ELSE "claim_replay", e))
    /\ UNCHANGED <<rowVars, event, replay, converged>>

\* _replay_claim_is_in_flight
InFlight(e) ==
    /\ token # NoToken /\ token = replay[e].claim
    /\ IF ReconcileOnly(e) THEN state = "RECONCILING" ELSE state \in {"CLAIMED", "RUNNING"}

\* claim_recovery_replay of a replay claimed or completed before: the provider
\* is not called again.
ClaimReplayAgain(w) ==
    LET e == worker[w].event IN
    /\ worker[w].pc = "claim_replay"
    /\ \/ /\ replay[e].stage = "COMPLETED" \/ (replay[e].stage = "CLAIMED" /\ InFlight(e))
          /\ Step(w, At("consume", e)) /\ UNCHANGED replay
       \/ /\ replay[e].stage = "CLAIMED" /\ ~InFlight(e) /\ state = "FAILED"
          /\ Step(w, Telling(e, replay[e].claim, deadLetter)) /\ UNCHANGED replay
       \/ /\ replay[e].stage = "CLAIMED" /\ ~InFlight(e) /\ state # "FAILED"
          /\ SetReplay(e, "COMPLETED", NoToken) /\ Step(w, At("consume", e))
    /\ UNCHANGED <<rowVars, event, converged>>

\* The first claim of a prepared replay takes the execution or the
\* reconciliation and starts it in the same transaction.
ClaimReplayWork(w) ==
    LET e == worker[w].event IN
    /\ worker[w].pc = "claim_replay"
    /\ replay[e].stage = "PREPARED" /\ replayOf = e
    /\ \/ /\ ~ReconcileOnly(e)
          /\ state = "RETRYABLE_FAILED" /\ ~execElapsed /\ retryDue = "due"
          /\ TakeExecution("RUNNING")
          /\ Touch(w, Reading("running", e, token'))
       \/ /\ ReconcileOnly(e)
          /\ TakeReconciliation
          /\ Touch(w, Reading("reconciling", e, token'))
    /\ SetReplay(e, "CLAIMED", token')
    /\ UNCHANGED <<replayOf, genVars, event, converged>>

\* Another handler's lease already does the work.
JoinReplayWork(w) ==
    LET e == worker[w].event IN
    /\ worker[w].pc = "claim_replay"
    /\ replay[e].stage = "PREPARED" /\ replayOf = e
    /\ IF ReconcileOnly(e) THEN state = "RECONCILING" /\ lease = "live"
                           ELSE state \in {"CLAIMED", "RUNNING"}
    /\ SetReplay(e, "CLAIMED", token)
    /\ Step(w, At("consume", e))
    /\ UNCHANGED <<rowVars, event, converged>>

\* The budget of the replay has elapsed, or the operation failed since.
ClaimReplayFailed(w) ==
    LET e == worker[w].event IN
    /\ worker[w].pc = "claim_replay"
    /\ replay[e].stage = "PREPARED" /\ replayOf = e
    /\ \/ /\ state = "FAILED"
          /\ UNCHANGED <<state, leaseVars, execVars, recVars, identified, deadVars>>
          /\ Step(w, Telling(e, CallbackToken(e), deadLetter))
       \/ /\ ~ReconcileOnly(e) /\ state = "RETRYABLE_FAILED" /\ execElapsed
          /\ ExhaustExecutionDeadline
          /\ Touch(w, Telling(e, CallbackToken(e), deadLetter'))
       \/ /\ ReconcileOnly(e) /\ ReconciliationExhausted
          /\ ExhaustReconciliation
          /\ Touch(w, Telling(e, CallbackToken(e), deadLetter'))
    /\ SetReplay(e, "CLAIMED", CallbackToken(e))
    /\ UNCHANGED <<replayOf, genVars, event, converged>>

\* A later replay was applied, or the operation has moved on by itself.
ReplaySuperseded(w) ==
    LET e == worker[w].event IN
    /\ worker[w].pc = "claim_replay" /\ replay[e].stage = "PREPARED"
    /\ \/ replayOf # e
       \/ ReconcileOnly(e) /\ state \notin {"RECONCILING", "FAILED"}
       \/ ~ReconcileOnly(e) /\ state \notin {"RETRYABLE_FAILED", "CLAIMED", "RUNNING", "FAILED"}
    /\ SetReplay(e, "COMPLETED", NoToken)
    /\ Step(w, At("consume", e))
    /\ UNCHANGED <<rowVars, event, converged>>

\* RetryNotReadyError
ClaimReplayRefused(w) ==
    LET e == worker[w].event IN
    /\ worker[w].pc = "claim_replay" /\ replay[e].stage = "PREPARED" /\ replayOf = e
    /\ \/ /\ ~ReconcileOnly(e)
          /\ state = "RETRYABLE_FAILED" /\ ~execElapsed /\ retryDue = "later"
       \/ /\ ReconcileOnly(e)
          /\ state = "RECONCILING" /\ lease # "live"
          /\ ~ReconciliationExhausted /\ recDue = "later"
    /\ Raise(w)

\* complete_recovery_replay
MayCompleteReplay(w) ==
    LET e == worker[w].event IN
    replay[e].stage = "CLAIMED" /\ replay[e].claim = worker[w].token /\ ~InFlight(e)

CompleteReplay(w) ==
    LET e == worker[w].event IN
    /\ worker[w].pc = "complete_replay"
    /\ \/ replay[e].stage = "COMPLETED" /\ UNCHANGED replay
       \/ MayCompleteReplay(w) /\ SetReplay(e, "COMPLETED", NoToken)
    /\ Step(w, At("consume", e))
    /\ UNCHANGED <<rowVars, event, converged>>

CompleteReplayRefused(w) ==
    LET e == worker[w].event IN
    /\ worker[w].pc = "complete_replay"
    /\ replay[e].stage # "COMPLETED" /\ ~MayCompleteReplay(w)
    /\ Raise(w)

\* _assert_terminal_generation
TerminalGeneration(e) ==
    state = "FAILED" /\ generation = event[e].gen /\ consumed < event[e].gen

\* prepare_terminal_recovery_replay
PrepareTerminal(w) ==
    LET e == worker[w].event IN
    /\ worker[w].pc = "prepare_terminal"
    /\ \/ /\ replay[e].stage = "COMPLETED" \/ consumed >= event[e].gen
          /\ SetReplay(e, "COMPLETED", NoToken)
          /\ Step(w, At("done", e))
       \/ /\ replay[e].stage \in {"RECORDED", "PREPARED"} /\ TerminalGeneration(e)
          /\ SetReplay(e, "PREPARED", NoToken)
          /\ Step(w, Telling(e, NoToken, deadLetter))
    /\ UNCHANGED <<rowVars, event, converged>>

PrepareTerminalRefused(w) ==
    LET e == worker[w].event IN
    /\ worker[w].pc = "prepare_terminal"
    /\ replay[e].stage # "COMPLETED" /\ consumed < event[e].gen
    /\ ~TerminalGeneration(e)
    /\ Raise(w)

\* complete_terminal_recovery_replay: the generation is consumed only after
\* the callback.
CompleteTerminal(w) ==
    LET e == worker[w].event IN
    /\ worker[w].pc = "complete_terminal"
    /\ \/ /\ replay[e].stage = "COMPLETED"
          /\ UNCHANGED <<consumed, replay>>
          /\ Step(w, At("done", e))
       \/ /\ replay[e].stage = "PREPARED" /\ TerminalGeneration(e)
          /\ consumed' = event[e].gen
          /\ SetReplay(e, "COMPLETED", NoToken)
          /\ Touch(w, At("done", e))
    /\ UNCHANGED <<state, leaseVars, execVars, recVars, identified, deadVars, replayOf,
                   generation, event, converged>>

CompleteTerminalRefused(w) ==
    LET e == worker[w].event IN
    /\ worker[w].pc = "complete_terminal"
    /\ replay[e].stage = "PREPARED" /\ ~TerminalGeneration(e)
    /\ Raise(w)

-----------------------------------------------------------------------------
(* OperationRecoveryScanner.recover_once, operators and the clock *)

NoUnpublishedRecovery ==
    \A e \in EventIds : event[e].status = "unpublished" => event[e].reason = "NONE"

\* Mutant: a generation is reserved while another is outstanding.
EmitAlways(reason) ==
    /\ generation' = generation + 1
    /\ \E e \in EventIds :
          FirstFree(e) /\ event' = [event EXCEPT ![e] = NewEvent(reason, generation + 1, NoLetter)]

\* One outstanding generation at a time.
Emit(reason) ==
    \/ /\ generation = consumed
       /\ generation' = generation + 1
       /\ \E e \in EventIds :
             FirstFree(e) /\ event' = [event EXCEPT ![e] = NewEvent(reason, generation + 1, NoLetter)]
    \/ generation # consumed /\ UNCHANGED <<generation, event>>

\* The work had not started: it may be claimed again.
RecoverClaimed ==
    /\ NoUnpublishedRecovery
    /\ state = "CLAIMED" /\ lease = "expired"
    /\ ClearLease
    /\ \/ /\ attempts < maxAttempts
          /\ state' = "RETRYABLE_FAILED" /\ retryDue' = "due"
          /\ Emit("EXPIRED_CLAIM")
          /\ CompleteClaimedReplays(token)
          /\ UNCHANGED deadVars
       \/ /\ attempts >= maxAttempts
          /\ state' = "FAILED"
          /\ RecordTerminalFailure(outcome)
          /\ Emit("TERMINAL_FAILURE")
          /\ UNCHANGED <<retryDue, replay>>
    /\ TouchAll
    /\ UNCHANGED <<attempts, maxAttempts, execElapsed, recVars, identified, replayOf,
                   consumed, converged>>

\* The work had started: its outcome is unknown.
RecoverRunning ==
    /\ NoUnpublishedRecovery
    /\ state = "RUNNING" /\ lease = "expired"
    /\ EnterReconciliation
    /\ Emit("UNKNOWN_EXTERNAL_OUTCOME")
    /\ CompleteClaimedReplays(token)
    /\ TouchAll
    /\ UNCHANGED <<identified, replayOf, consumed, converged>>

ScanReadyRetry ==
    /\ NoUnpublishedRecovery /\ generation = consumed
    /\ state = "RETRYABLE_FAILED" /\ retryDue = "due"
    /\ Emit("READY_RETRY")
    /\ TouchAll
    /\ UNCHANGED <<state, leaseVars, execVars, recVars, identified, deadVars, replayOf,
                   consumed, replay, converged>>

ScanReconciliation ==
    /\ NoUnpublishedRecovery /\ generation = consumed
    /\ state = "RECONCILING" /\ lease # "live"
    /\ recDue = "due" \/ recElapsed \/ (recDue = "none" /\ lease = "expired")
    /\ \/ /\ ReconciliationExhausted
          /\ ExhaustReconciliation
          /\ Emit("TERMINAL_FAILURE")
          /\ UNCHANGED replay
       \/ /\ ~ReconciliationExhausted
          /\ Emit("RECONCILIATION_PENDING")
          /\ IF lease = "expired" THEN CompleteClaimedReplays(token) ELSE UNCHANGED replay
          /\ UNCHANGED <<state, leaseVars, execVars, recVars, identified, deadVars>>
    /\ TouchAll
    /\ UNCHANGED <<replayOf, consumed, converged>>

Cancel ==
    /\ state \notin Terminal
    /\ state' = "CANCELLED" /\ retryDue' = "none"
    /\ ClearLease
    /\ OutdateAll /\ Disturb /\ UNCHANGED holder
    /\ UNCHANGED <<attempts, maxAttempts, execElapsed, recVars, identified, deadVars,
                   replayOf, genVars, event, replay, converged>>

CompleteHumanWait ==
    /\ state = "WAITING_HUMAN"
    /\ state' = "SUCCEEDED"
    /\ TouchAll
    /\ UNCHANGED <<leaseVars, execVars, recVars, identified, deadVars, replayOf, genVars,
                   event, replay, converged>>

\* OperatorApplicationService.replay: a new event with the dead letter's
\* payload and an open replay lifecycle.
Replay(e) ==
    /\ FirstFree(e)
    /\ \/ \E k \in DOMAIN terminals :
             event' = [event EXCEPT ![e] = NewEvent(terminals[k], 0, TerminalLetter(k))]
       \/ \E f \in EventIds :
             /\ event[f].status = "dead"
             /\ event' = [event EXCEPT ![e] =
                    NewEvent(event[f].reason, event[f].gen, TransportLetter(f))]
    /\ SetReplay(e, "RECORDED", NoToken)
    /\ UNCHANGED <<rowVars, converged, worker, holder, faults>>

LeaseExpires ==
    /\ lease = "live" /\ lease' = "expired"
    /\ UNCHANGED <<state, token, execVars, recVars, identified, deadVars, replayOf, genVars,
                   event, replay, converged, worker, holder, faults>>

RetryBecomesDue ==
    /\ retryDue = "later" /\ retryDue' = "due"
    /\ UNCHANGED <<state, leaseVars, attempts, maxAttempts, execElapsed, recVars, identified,
                   deadVars, replayOf, genVars, event, replay, converged, worker, holder, faults>>

ReconciliationBecomesDue ==
    /\ recDue = "later" /\ recDue' = "due"
    /\ UNCHANGED <<state, leaseVars, execVars, recAttempts, maxRec, recElapsed, outcome,
                   identified, deadVars, replayOf, genVars, event, replay, converged, worker, holder, faults>>

ExecutionDeadlineElapses ==
    /\ ~execElapsed /\ execElapsed' = TRUE
    /\ Disturb
    /\ UNCHANGED <<state, leaseVars, attempts, maxAttempts, retryDue, recVars, identified,
                   deadVars, replayOf, genVars, event, replay, converged, worker, holder>>

ReconciliationDeadlineElapses ==
    /\ outcome # "NOT_REQUIRED" /\ ~recElapsed /\ recElapsed' = TRUE
    /\ Disturb
    /\ UNCHANGED <<state, leaseVars, execVars, recAttempts, maxRec, recDue, outcome,
                   identified, deadVars, replayOf, genVars, event, replay, converged, worker, holder>>

Clock == LeaseExpires \/ RetryBecomesDue \/ ReconciliationBecomesDue

Scanner == RecoverClaimed \/ RecoverRunning \/ ScanReadyRetry \/ ScanReconciliation

Execute(w) ==
    \/ ReadOperation(w) \/ ExecuteRefused(w) \/ ClaimExecution(w) \/ ClaimRefused(w) \/ ReadExhausted(w)
    \/ Start(w) \/ StartRefused(w)
    \/ Succeed(w) \/ WaitForHuman(w) \/ RequireReconciliation(w) \/ Fail(w)
    \/ LateExecution(w) \/ LateExecutionRefused(w)

Reconcile(w) ==
    \/ Exhaust(w) \/ ExhaustRefused(w)
    \/ ClaimReconciliation(w) \/ ClaimReconciliationRefused(w) \/ ReadClaim(w)
    \/ ConfirmSuccess(w) \/ ConfirmFailure(w) \/ DeferReconciliation(w)
    \/ WaitForHumanAfterReconciliation(w)
    \/ LateReconciliation(w) \/ ReconciliationRefused(w)

HandleReplay(w) ==
    \/ ApplyReplay(w) \/ ReplayMoot(w) \/ ResumeReplay(w)
    \/ ClaimReplayAgain(w) \/ ClaimReplayWork(w) \/ JoinReplayWork(w)
    \/ ClaimReplayFailed(w) \/ ReplaySuperseded(w) \/ ClaimReplayRefused(w)
    \/ CompleteReplay(w) \/ CompleteReplayRefused(w)
    \/ PrepareTerminal(w) \/ PrepareTerminalRefused(w)
    \/ CompleteTerminal(w) \/ CompleteTerminalRefused(w)

WorkerStep(w) ==
    \/ Execute(w) \/ Reconcile(w) \/ HandleReplay(w)
    \/ RecordConvergence(w) \/ Consume(w) \/ Settle(w)

\* What an instance meets at most MaxFaults times.
Fault ==
    \/ \E w \in Workers : WorkerCrash(w) \/ HandlerFails(w)
    \/ \E w \in Workers : \E e \in EventIds : Overtake(w, e)
    \/ \E e \in EventIds : GiveUp(e)
    \/ ExecutionDeadlineElapses \/ ReconciliationDeadlineElapses
    \/ Cancel

Next ==
    \/ \E e \in EventIds : Publish(e) \/ Replay(e)
    \/ \E w \in Workers : \E e \in EventIds : Deliver(w, e)
    \/ \E w \in Workers : WorkerStep(w)
    \/ Scanner \/ CompleteHumanWait \/ Clock
    \/ Fault

Spec == Init /\ [][Next]_vars

-----------------------------------------------------------------------------
(* Properties *)

\* The columns of the row, the events and the workers keep their types, and
\* no budget is overdrawn.
TypeOK ==
    /\ state \in States /\ token \in Token /\ lease \in {"none", "live", "expired"}
    /\ attempts \in Nat /\ maxAttempts \in Nat /\ attempts <= maxAttempts
    /\ recAttempts \in Nat /\ maxRec \in Nat /\ recAttempts <= maxRec
    /\ retryDue \in {"none", "later", "due"} /\ recDue \in {"none", "later", "due"}
    /\ execElapsed \in BOOLEAN /\ recElapsed \in BOOLEAN /\ outcome \in Outcomes
    /\ identified \in BOOLEAN
    /\ deadLetter \in Nat /\ terminals \in Seq(Reasons) /\ replayOf \in 0..MaxEvents
    /\ generation \in Nat /\ consumed \in Nat
    /\ event \in [EventIds -> Event] /\ replay \in [EventIds -> Lifecycle]
    /\ converged \in SUBSET Nat
    /\ worker \in [Workers -> WorkerState]
    /\ holder \in [EventIds -> SUBSET Workers] /\ faults \in Nat

\* While the outcome of an external execution is unknown, and once it is known
\* to be a success, the operation cannot be executed again, whatever expires,
\* is redelivered or is replayed.
NoBlindReexecution ==
    state \in {"PENDING", "CLAIMED", "RUNNING", "RETRYABLE_FAILED"} =>
        outcome \in {"NOT_REQUIRED", "CONFIRMED_FAILURE"}

\* A row that waits can always be taken up again: a retry has an attempt left
\* and a due time, a lease names its attempt, and a reconciliation without a
\* lease has a time for its next query.
RowRecoverable ==
    /\ state = "RETRYABLE_FAILED" => retryDue # "none" /\ attempts < maxAttempts
    /\ state \in {"CLAIMED", "RUNNING"} => token = ExecutionToken(attempts) /\ lease # "none"
    /\ state = "RECONCILING" => outcome = "PENDING" /\ (recDue # "none" \/ lease # "none")

\* A failed operation has the dead letter of its last failure, and an
\* operation that has not failed, or that was replayed, has none.
FailedHasDeadLetter ==
    deadLetter = IF state = "FAILED" THEN Len(terminals) ELSE 0

\* A worker whose version is current when its execution ends still owns the
\* execution it started: no other worker or scanner step has come between.
ExecutorOwnsRow ==
    \A w \in Workers :
        worker[w].pc = "running" /\ worker[w].current =>
            state = "RUNNING" /\ token = worker[w].token

\* At most one recovery generation is outstanding, and until it is consumed
\* its event is not settled.
OneGeneration ==
    /\ consumed <= generation /\ generation <= consumed + 1
    /\ generation > consumed =>
          \E e \in EventIds :
              /\ event[e].gen = generation /\ event[e].source = NoLetter
              /\ event[e].status \in {"unpublished", "published", "dead"}

Applied == {e \in EventIds : replay[e].stage \in {"PREPARED", "CLAIMED", "COMPLETED"}}

\* Redeliveries, lost leases and duplicated replay events never buy an
\* execution or a query: only an operator's replay does, one of each at a time.
ReplayBudget ==
    /\ attempts <= MaxAttempts + Cardinality({e \in Applied : ~ReconcileOnly(e)})
    /\ recAttempts <= MaxReconciliations + Cardinality({e \in Applied : ReconcileOnly(e)})

\* SUCCEEDED and CANCELLED are final, and FAILED is left only by the first
\* handling of a replay of its own dead letter.
TerminalIsFinal ==
    [][(state \in Terminal /\ state' # state) =>
          /\ state = "FAILED"
          /\ \E e \in EventIds :
                /\ event[e].source = TerminalLetter(deadLetter)
                /\ replay[e].stage = "RECORDED" /\ replay'[e].stage = "PREPARED"]_vars

-----------------------------------------------------------------------------
(* Why the properties hold *)

\* A confirmed success is never executed or failed again.
SuccessIsFinal ==
    outcome = "CONFIRMED_SUCCESS" => state \in {"WAITING_HUMAN", "SUCCEEDED", "CANCELLED"}

\* The reason of a dead letter remembers whether the outcome was unknown, and
\* a replay carries the reason of the letter it replays.
ReasonRemembers ==
    /\ state = "FAILED" =>
          /\ Len(terminals) > 0
          /\ terminals[Len(terminals)] = FailureReason(outcome)
    /\ \A e \in EventIds :
          event[e].source.kind = "terminal" =>
              /\ event[e].source.number \in DOMAIN terminals
              /\ event[e].reason = terminals[event[e].source.number]

\* A worker that is not idle handles an event.
BusyHasEvent == \A w \in Workers : worker[w].pc # "idle" => worker[w].event \in EventIds

\* The inductive invariant: every conjunct is kept by every transaction of the
\* workers and the scanner, given the others.
OperationInv ==
    /\ TypeOK /\ NoBlindReexecution /\ RowRecoverable /\ FailedHasDeadLetter
    /\ ExecutorOwnsRow /\ SuccessIsFinal /\ ReasonRemembers /\ BusyHasEvent

\* A generation is numbered when its event is stored, and an event that is not
\* stored yet has no replay.
EventsNumbered ==
    \A e \in EventIds : /\ event[e].gen <= generation
                        /\ event[e].status = "absent" => replay[e].stage = "NONE"

\* A handler that is about to return has consumed the generation of its event,
\* unless the event is a replay; only a replay is handled as one.
HandlersConsume ==
    \A w \in Workers : worker[w].pc # "idle" =>
        /\ EventOf(w).status # "absent"
        /\ worker[w].pc = "done" => EventOf(w).source # NoLetter \/ EventOf(w).gen <= consumed
        /\ worker[w].pc \in {"prepare_terminal", "complete_terminal"} =>
              EventOf(w).source # NoLetter

\* Every attempt and query beyond the first budget was bought by a replay.
BudgetsPaid ==
    /\ maxAttempts <= MaxAttempts + Cardinality({e \in Applied : ~ReconcileOnly(e)})
    /\ maxRec <= MaxReconciliations + Cardinality({e \in Applied : ReconcileOnly(e)})

\* The second layer: what the events and the replays remember of the past.
HistoryInv == EventsNumbered /\ HandlersConsume /\ OneGeneration /\ BudgetsPaid
=============================================================================
