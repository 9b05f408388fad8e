------------------------------ MODULE Generation ------------------------------
(***************************************************************************)
(* Image generation for one workflow whose creative plan was approved: the *)
(* command that creates the batch of a direction, with one candidate slot  *)
(* and one durable operation per image; the executor that submits each     *)
(* slot to a paid provider behind a dispatch fence; the transaction that   *)
(* publishes the image; and the continuation of the workflow once a batch  *)
(* is complete.                                                            *)
(*                                                                         *)
(* An operation is the one of module DurableOperation reduced to what this *)
(* executor sees: an attempt number that names its holder, a lease that    *)
(* may be lost at any time, retries, a reconciliation that this executor   *)
(* always refuses, and audited replay.  The route of a direction is chosen *)
(* by module ControlPlane.                                                 *)
(***************************************************************************)
EXTENDS Naturals, FiniteSets

CONSTANTS
    Workers,
    Keys,         \* idempotency keys of the clients
    Directions,   \* directions of the plan, each with one generation intent
    Routes,       \* persisted route decisions
    Synchronous,  \* the routes to an adapter that answers with the image
    Count,        \* candidate_count of each direction
    None,
    MaxAttempts,  \* max_attempts of an operation
    MaxReplays,   \* bound: audited replays of an operation
    MaxRights,    \* bound: rights records of the source assets
    MaxFaults,    \* bound: lost answers, crashes, late leases, provider failures, redeliveries
    MaxChanges    \* bound: observations, rights records, decisions, cancellation, replays

ASSUME GenerationAssumption ==
    /\ Count \in [Directions -> Nat \ {0}]
    /\ Synchronous \subseteq Routes /\ None \notin [route : Routes, rights : Nat]
    /\ MaxAttempts \in Nat \ {0}
    /\ {MaxReplays, MaxRights, MaxFaults, MaxChanges} \subseteq Nat

Slots == UNION {{<<d, i>> : i \in 1..Count[d]} : d \in Directions}
SlotsOf(d) == {<<d, i>> : i \in 1..Count[d]}
Numbers == 1..(MaxAttempts + MaxReplays)

VARIABLES
    workflow,    \* status and current node
    observed,    \* quota in the latest usable observation of each route's endpoint
    rights,      \* current rights record of the source assets, 0 when not usable
    batch,       \* generation batch of each direction
    key,         \* idempotency records, with the client that works under each
    op,          \* durable operation of each slot
    attempt,     \* dispatch attempts: the fence of each paid call
    produced,    \* images the provider made for each slot
    objects,     \* controlled objects, <<slot, attempt number>>
    candidate,   \* attempt whose image was published, 0 when none
    ready,       \* candidate-ready events not yet settled
    evaluation,  \* evaluation step of each batch
    worker,
    faults, changes

commandVars == <<batch, key>>
environment == <<workflow, observed, rights>>
vars == <<workflow, observed, rights, batch, key, op, attempt, produced, objects, candidate,
          ready, evaluation, worker, faults, changes>>

-----------------------------------------------------------------------------
(* State *)

Command == [direction : Directions, route : Routes]

WorkflowStatus == {"GENERATING", "EVALUATING", "AWAITING_RESULT_APPROVAL", "EXPORTING", "CLOSED"}

Outcomes == {"SUCCESS", "PENDING", "RETRY", "FAILURE", "UNKNOWN"}

(* unknown: the failure was an unknown outcome *)
Operation == [state : {"NONE", "READY", "RUNNING", "RECONCILING", "FAILED", "SUCCEEDED"},
              attempts : Nat, budget : Nat, replays : 0..MaxReplays, unknown : BOOLEAN]

Executor == [pc : {"idle", "prepare", "claim", "submit", "record", "publish", "commit", "finish"},
             slot : Slots \cup {None}, number : Nat, outcome : {"NONE"} \cup Outcomes]

(* A direction has one batch, with the route and the rights it was authorised with; *)
(* a slot has one image at most, told by the attempt that made it.                  *)
Batches == [route : Routes, rights : Nat]
CandidateImages == [Slots -> Nat]

(* What AsyncVisionHttpTransport.send and an adapter tell apart: not sent because
   unsupported or unreachable; no answer or part of one; an HTTP status; an answer
   that is understood or garbled. *)
Wire == {"unsupported", "unreachable", "lost", "rejected", "throttled", "failing",
         "garbled", "answered"}

(* Whether the provider makes an image. *)
Makes(e) ==
    CASE e \in {"unsupported", "unreachable", "rejected", "throttled"} -> {FALSE}
      [] e = "answered" -> {TRUE}
      [] OTHER -> BOOLEAN

Idle == [pc |-> "idle", slot |-> None, number |-> 0, outcome |-> "NONE"]
NewBatch(route) == [route |-> route, rights |-> rights]

NewOperation == [state |-> "READY", attempts |-> 0, budget |-> MaxAttempts, replays |-> 0,
                 unknown |-> FALSE]

Init ==
    /\ workflow = [status |-> "GENERATING", node |-> "approve_plan"]
    /\ \E n \in {Count[d] : d \in Directions} :
          (\A d \in Directions : Count[d] <= n) /\ observed = [r \in Routes |-> n]
    /\ rights = 1
    /\ batch = [d \in Directions |-> None]
    /\ key = [k \in Keys |-> [command |-> None, done |-> FALSE]]
    /\ op = [s \in Slots |-> [NewOperation EXCEPT !.state = "NONE", !.budget = 0]]
    /\ attempt = [s \in Slots |-> [n \in Numbers |-> "NONE"]]
    /\ produced = [s \in Slots |-> 0]
    /\ objects = {}
    /\ candidate = [s \in Slots |-> 0]
    /\ ready = {}
    /\ evaluation = [d \in Directions |-> "NONE"]
    /\ worker = [w \in Workers |-> Idle]
    /\ faults = 0 /\ changes = 0

Disturb == faults < MaxFaults /\ faults' = faults + 1 /\ UNCHANGED changes
Calm == UNCHANGED <<faults, changes>>
Change == changes < MaxChanges /\ changes' = changes + 1 /\ UNCHANGED faults

-----------------------------------------------------------------------------
(* The authority of a batch *)

(* load_current_authority: the plan was just approved, and the routed endpoint
   can take the whole batch *)
PlanIsCurrent == workflow = [status |-> "GENERATING", node |-> "approve_plan"]
Dispatchable(d, r) == observed[r] >= Count[d]
SourceRights == rights > 0
Authorized(d, r) == PlanIsCurrent /\ Dispatchable(d, r) /\ SourceRights

(* _validate_approved_batch: and nothing the batch was created from has changed *)
SameFacts(d) == batch[d].rights = rights
StillAuthorized(d) == Authorized(d, batch[d].route) /\ SameFacts(d)

-----------------------------------------------------------------------------
(* ApprovedPlanGenerationService.start *)

(* An existing batch answers a command for the same route decision only. *)
Answers(c) == batch[c.direction] # None /\ batch[c.direction].route = c.route

Replays(k) == Answers(key[k].command)
Complete(k) == key' = [key EXCEPT ![k].done = TRUE]

(* The key is claimed and the batch looked for, before the workflow is locked. *)
StartOnce(k, c) ==
    /\ key[k].command = None
    /\ batch[c.direction] = None
    /\ key' = [key EXCEPT ![k].command = c]
    /\ Calm
    /\ UNCHANGED <<environment, batch, op, attempt, produced, objects, candidate, ready,
                   evaluation, worker>>

StartExisting(k, c) ==
    /\ key[k].command = None
    /\ Answers(c)
    /\ key' = [key EXCEPT ![k] = [command |-> c, done |-> TRUE]]
    /\ Calm
    /\ UNCHANGED <<environment, batch, op, attempt, produced, objects, candidate, ready,
                   evaluation, worker>>

(* The transaction that creates the batch, its slots and their operations. *)
CreateBatch(k) ==
    LET c == key[k].command IN
    /\ c # None /\ ~key[k].done
    /\ batch[c.direction] = None
    /\ Authorized(c.direction, c.route)
    /\ batch' = [batch EXCEPT ![c.direction] = NewBatch(c.route)]
    /\ op' = [s \in Slots |-> IF s \in SlotsOf(c.direction) THEN NewOperation ELSE op[s]]
    /\ Complete(k)
    /\ Calm
    /\ UNCHANGED <<environment, attempt, produced, objects, candidate, ready, evaluation, worker>>

(* Another key won: its batch is the answer, if it took the same route. *)
ConvergeLogicalWinner(k) ==
    LET c == key[k].command IN
    /\ c # None /\ ~key[k].done
    /\ batch[c.direction] # None
    /\ Authorized(c.direction, c.route)
    /\ Replays(k)
    /\ Complete(k)
    /\ Calm
    /\ UNCHANGED <<environment, batch, op, attempt, produced, objects, candidate, ready,
                   evaluation, worker>>

(* The claim is rolled back with everything else. *)
StartRefused(k) ==
    LET c == key[k].command IN
    /\ c # None /\ ~key[k].done
    /\ ~Authorized(c.direction, c.route) \/ (batch[c.direction] # None /\ ~Replays(k))
    /\ key' = [key EXCEPT ![k].command = None]
    /\ Calm
    /\ UNCHANGED <<environment, batch, op, attempt, produced, objects, candidate, ready,
                   evaluation, worker>>

-----------------------------------------------------------------------------
(* GenerationOperationExecutor and AtomicGenerationProviderDispatcher *)

SlotOf(w) == worker[w].slot
DirectionOf(w) == SlotOf(w)[1]
Number(w) == worker[w].number
Goto(w, pc) == worker' = [worker EXCEPT ![w].pc = pc]
End(w, outcome) == worker' = [worker EXCEPT ![w].pc = "finish", ![w].outcome = outcome]

(* _validate_operation: the operation runs this very attempt, under a lease *)
Holds(w) == op[SlotOf(w)].state = "RUNNING" /\ op[SlotOf(w)].attempts = Number(w)

Take(w, s) ==
    /\ worker[w].pc = "idle"
    /\ op[s].state = "READY"
    /\ op' = [op EXCEPT ![s].state = "RUNNING", ![s].attempts = @ + 1]
    /\ worker' = [worker EXCEPT ![w] = [Idle EXCEPT !.pc = "prepare", !.slot = s,
                                                    !.number = op[s].attempts + 1]]
    /\ Calm
    /\ UNCHANGED <<environment, commandVars, attempt, produced, objects, candidate, ready,
                   evaluation>>

(* prepare_dispatch; a denial is a permanent failure *)
Prepare(w) ==
    /\ worker[w].pc = "prepare"
    /\ IF StillAuthorized(DirectionOf(w)) /\ Holds(w) THEN Goto(w, "claim") ELSE End(w, "FAILURE")
    /\ Calm
    /\ UNCHANGED <<environment, commandVars, op, attempt, produced, objects, candidate, ready,
                   evaluation>>

AdapterUnavailable(w) ==
    /\ worker[w].pc = "claim"
    /\ End(w, "FAILURE")
    /\ Disturb
    /\ UNCHANGED <<environment, commandVars, op, attempt, produced, objects, candidate, ready,
                   evaluation>>

Fence(w, state) == attempt' = [attempt EXCEPT ![SlotOf(w)][Number(w)] = state]

(* The fence of the paid call: one row per operation attempt. *)
Claim(w) ==
    /\ worker[w].pc = "claim"
    /\ \/ Holds(w) /\ Fence(w, "DISPATCHING") /\ Goto(w, "submit")
       \/ ~Holds(w) /\ UNCHANGED attempt /\ End(w, "UNKNOWN")
    /\ Calm
    /\ UNCHANGED <<environment, commandVars, op, produced, objects, candidate, ready, evaluation>>

(* A fence whose commit was not confirmed is not crossed. *)
ClaimUnknown(w) ==
    /\ worker[w].pc = "claim" /\ Holds(w)
    /\ Fence(w, "DISPATCHING") /\ End(w, "UNKNOWN")
    /\ Disturb
    /\ UNCHANGED <<environment, commandVars, op, produced, objects, candidate, ready, evaluation>>

Produce(w) == produced' = [produced EXCEPT ![SlotOf(w)] = @ + 1]

RouteOf(w) == batch[DirectionOf(w)].route

(* Mutant: a failing server is asked again. *)
KuaipaoRetries(e) ==
    CASE e \in {"unsupported", "rejected"} -> "FAILURE"
      [] e \in {"unreachable", "throttled", "failing"} -> "RETRY"
      [] e = "answered" -> "SUCCESS"
      [] OTHER -> "UNKNOWN"

(* KuaipaoSyncImageAdapter.submit: the answer holds the image *)
Kuaipao(e) ==
    CASE e \in {"unsupported", "rejected"} -> "FAILURE"
      [] e = "unreachable" -> "RETRY"
      [] e = "answered" -> "SUCCESS"
      [] OTHER -> "UNKNOWN"

(* AlibabaWanAsyncImageAdapter.submit: the answer names a task *)
Wan(e) ==
    CASE e \in {"unsupported", "rejected", "throttled"} -> "FAILURE"
      [] e = "unreachable" -> "RETRY"
      [] e = "answered" -> "PENDING"
      [] OTHER -> "UNKNOWN"

Adapter(r, e) == IF r \in Synchronous THEN Kuaipao(e) ELSE Wan(e)

(* One POST: the adapter says what it knows, the provider did what it did. *)
Submit(w, e) ==
    /\ worker[w].pc = "submit"
    /\ \E made \in Makes(e) : IF made THEN Produce(w) ELSE UNCHANGED produced
    /\ worker' = [worker EXCEPT ![w].pc = "record", ![w].outcome = Adapter(RouteOf(w), e)]
    /\ IF e = "answered" THEN Calm ELSE Disturb
    /\ UNCHANGED <<environment, commandVars, op, attempt, objects, candidate, ready, evaluation>>

(* The adapter raises, or the process loses its answer. *)
SubmitLost(w) ==
    /\ worker[w].pc = "submit"
    /\ Produce(w) \/ UNCHANGED produced
    /\ End(w, "UNKNOWN")
    /\ Disturb
    /\ UNCHANGED <<environment, commandVars, op, attempt, objects, candidate, ready, evaluation>>

(* record_outcome needs no lease: what is known of a paid call is kept. *)
RecordOutcome(w) ==
    /\ worker[w].pc = "record"
    /\ Fence(w, worker[w].outcome)
    /\ Goto(w, IF worker[w].outcome = "SUCCESS" THEN "publish" ELSE "finish")
    /\ Calm
    /\ UNCHANGED <<environment, commandVars, op, produced, objects, candidate, ready, evaluation>>

RecordUnknown(w) ==
    /\ worker[w].pc = "record"
    /\ Fence(w, worker[w].outcome) \/ UNCHANGED attempt
    /\ End(w, "UNKNOWN")
    /\ Disturb
    /\ UNCHANGED <<environment, commandVars, op, produced, objects, candidate, ready, evaluation>>

ObjectKey(w) == <<SlotOf(w), Number(w)>>

(* Admission and write_generation_media_if_absent *)
Publish(w) ==
    /\ worker[w].pc = "publish"
    /\ objects' = objects \cup {ObjectKey(w)}
    /\ Goto(w, "commit")
    /\ Calm
    /\ UNCHANGED <<environment, commandVars, op, attempt, produced, candidate, ready, evaluation>>

(* Admission or the write fails; the object may be there all the same. *)
PublishUnknown(w) ==
    /\ worker[w].pc = "publish"
    /\ objects' = objects \cup {ObjectKey(w)} \/ UNCHANGED objects
    /\ End(w, "UNKNOWN")
    /\ Disturb
    /\ UNCHANGED <<environment, commandVars, op, attempt, produced, candidate, ready, evaluation>>

(* _load_current_facts and _validate_dispatch_attempt *)
MayCommit(w) ==
    /\ StillAuthorized(DirectionOf(w)) /\ Holds(w)
    /\ attempt[SlotOf(w)][Number(w)] = "SUCCESS"

(* Mutant: only the last candidate of the batch announces itself. *)
AnnounceLast(s) == IF s[2] = Count[s[1]] THEN ready \cup {s} ELSE ready

(* The candidate-ready event, in the transaction of the image. *)
Announce(s) == ready \cup {s}

(* _candidate_facts: the asset, the image, the call and its usage are all named
   after the call of this attempt *)
CandidateImage(w) == Number(w)

(* Mutant: the operation is completed after the transaction, by the caller. *)
CommitImageOnly(w) ==
    /\ candidate' = [candidate EXCEPT ![SlotOf(w)] = CandidateImage(w)]
    /\ ready' = Announce(SlotOf(w))
    /\ UNCHANGED op

(* commit_success: call, usage, asset, image, operation and event at once *)
CommitSuccess(w) ==
    /\ candidate' = [candidate EXCEPT ![SlotOf(w)] = CandidateImage(w)]
    /\ op' = [op EXCEPT ![SlotOf(w)].state = "SUCCEEDED"]
    /\ ready' = Announce(SlotOf(w))

Commit(w) ==
    /\ worker[w].pc = "commit" /\ MayCommit(w)
    /\ CommitSuccess(w)
    /\ worker' = [worker EXCEPT ![w] = Idle]
    /\ Calm
    /\ UNCHANGED <<environment, commandVars, attempt, produced, objects, evaluation>>

CommitUnknown(w) ==
    /\ worker[w].pc = "commit" /\ MayCommit(w)
    /\ CommitSuccess(w)
    /\ End(w, "UNKNOWN")
    /\ Disturb
    /\ UNCHANGED <<environment, commandVars, attempt, produced, objects, evaluation>>

(* The authority was lost while the provider worked: the image stays unpublished. *)
CommitRefused(w) ==
    /\ worker[w].pc = "commit" /\ ~MayCommit(w)
    /\ End(w, "UNKNOWN")
    /\ Calm
    /\ UNCHANGED <<environment, commandVars, op, attempt, produced, objects, candidate, ready,
                   evaluation>>

-----------------------------------------------------------------------------
(* The durable operation around the executor *)

Failed(o, unknown) == [o EXCEPT !.state = "FAILED", !.unknown = unknown]
Settled(o, outcome) ==
    CASE outcome \in {"UNKNOWN", "PENDING"} -> [o EXCEPT !.state = "RECONCILING"]
      [] outcome = "RETRY" /\ o.attempts < o.budget -> [o EXCEPT !.state = "READY"]
      [] OTHER -> Failed(o, FALSE)

Finish(w) ==
    /\ worker[w].pc = "finish"
    /\ op' = IF Holds(w) THEN [op EXCEPT ![SlotOf(w)] = Settled(@, worker[w].outcome)] ELSE op
    /\ worker' = [worker EXCEPT ![w] = Idle]
    /\ Calm
    /\ UNCHANGED <<environment, commandVars, attempt, produced, objects, candidate, ready,
                   evaluation>>

Crash(w) ==
    /\ worker[w].pc # "idle"
    /\ worker' = [worker EXCEPT ![w] = Idle]
    /\ Disturb
    /\ UNCHANGED <<environment, commandVars, op, attempt, produced, objects, candidate, ready,
                   evaluation>>

Held(s) == \E w \in Workers : worker[w].pc # "idle" /\ SlotOf(w) = s /\ Holds(w)

(* The scanner finds an expired lease. *)
Recover(s) ==
    /\ op[s].state = "RUNNING"
    /\ op' = [op EXCEPT ![s].state = "RECONCILING"]
    /\ IF Held(s) THEN Disturb ELSE Calm
    /\ UNCHANGED <<environment, commandVars, attempt, produced, objects, candidate, ready,
                   evaluation, worker>>

(* reconcile of this executor: refused every time, until the budget is used up *)
ReconciliationDisabled(s) ==
    /\ op[s].state = "RECONCILING"
    /\ op' = [op EXCEPT ![s] = Failed(@, TRUE)]
    /\ Calm
    /\ UNCHANGED <<environment, commandVars, attempt, produced, objects, candidate, ready,
                   evaluation, worker>>

(* replay_failure: an unknown outcome is only asked for again *)
Replayed(o) ==
    IF o.unknown
    THEN [o EXCEPT !.state = "RECONCILING", !.replays = @ + 1]
    ELSE [o EXCEPT !.state = "READY", !.budget = o.attempts + 1, !.replays = @ + 1]

Replay(s) ==
    /\ op[s].state = "FAILED" /\ op[s].replays < MaxReplays
    /\ op' = [op EXCEPT ![s] = Replayed(@)]
    /\ Change
    /\ UNCHANGED <<environment, commandVars, attempt, produced, objects, candidate, ready,
                   evaluation, worker>>

-----------------------------------------------------------------------------
(* claim_ready_batch and the evaluation it starts *)

BatchComplete(d) == \A s \in SlotsOf(d) : candidate[s] # 0 /\ op[s].state = "SUCCEEDED"

(* The first complete batch takes the workflow on; the event is settled when
   the evaluation it started is over. *)
Continue(s) ==
    /\ s \in ready /\ BatchComplete(s[1]) /\ PlanIsCurrent
    /\ workflow' = [status |-> "EVALUATING", node |-> "evaluate_results"]
    /\ evaluation' = [evaluation EXCEPT ![s[1]] = "RUNNING"]
    /\ Calm
    /\ UNCHANGED <<observed, rights, commandVars, op, attempt, produced, objects, candidate,
                   ready, worker>>

Evaluate(s) ==
    /\ s \in ready /\ workflow.status = "EVALUATING" /\ evaluation[s[1]] = "RUNNING"
    /\ workflow' = [status |-> "AWAITING_RESULT_APPROVAL", node |-> "approve_results"]
    /\ evaluation' = [evaluation EXCEPT ![s[1]] = "SUCCEEDED"]
    /\ ready' = ready \ {s}
    /\ Calm
    /\ UNCHANGED <<observed, rights, commandVars, op, attempt, produced, objects, candidate, worker>>

(* Acknowledged with nothing to do, or rejected: the batch is not complete yet,
   another batch went first, or the workflow is past generation. *)
Settles(s) ==
    ~BatchComplete(s[1]) \/ ~(PlanIsCurrent \/ (workflow.status = "EVALUATING"
                                                /\ evaluation[s[1]] = "RUNNING"))

SettleReady(s) ==
    /\ s \in ready /\ Settles(s)
    /\ \/ ready' = ready \ {s} /\ Calm
       \/ UNCHANGED ready /\ Disturb
    /\ UNCHANGED <<environment, commandVars, op, attempt, produced, objects, candidate,
                   evaluation, worker>>

-----------------------------------------------------------------------------
(* Everybody else *)

(* approve of the results: a regeneration does not pass the plan again *)
DecideResults ==
    /\ workflow.status = "AWAITING_RESULT_APPROVAL"
    /\ workflow' \in {[workflow EXCEPT !.status = "EXPORTING"], [workflow EXCEPT !.status = "GENERATING"]}
    /\ Change
    /\ UNCHANGED <<observed, rights, commandVars, op, attempt, produced, objects, candidate,
                   ready, evaluation, worker>>

(* Cancellation, failure and retention; a submission in flight does not prevent it. *)
Close ==
    /\ workflow.status \notin {"EXPORTING", "CLOSED"}
    /\ workflow' = [workflow EXCEPT !.status = "CLOSED"]
    /\ Change
    /\ UNCHANGED <<observed, rights, commandVars, op, attempt, produced, objects, candidate,
                   ready, evaluation, worker>>

(* record_endpoint_observation; an open circuit or an old observation counts as none *)
Observe(r) ==
    /\ observed' \in {[observed EXCEPT ![r] = 0]} \cup {[observed EXCEPT ![r] = Count[d]] : d \in Directions}
    /\ observed' # observed
    /\ Change
    /\ UNCHANGED <<workflow, rights, commandVars, op, attempt, produced, objects, candidate,
                   ready, evaluation, worker>>

ChangeRights ==
    /\ rights' \in {0} \cup (IF rights < MaxRights THEN {rights + 1} ELSE {})
    /\ rights' # rights
    /\ Change
    /\ UNCHANGED <<workflow, observed, commandVars, op, attempt, produced, objects, candidate,
                   ready, evaluation, worker>>

Next ==
    \/ \E k \in Keys :
          \/ \E c \in Command : StartOnce(k, c) \/ StartExisting(k, c)
          \/ CreateBatch(k) \/ ConvergeLogicalWinner(k) \/ StartRefused(k)
    \/ \E w \in Workers :
          \/ \E s \in Slots : Take(w, s)
          \/ Prepare(w) \/ AdapterUnavailable(w) \/ Claim(w) \/ ClaimUnknown(w)
          \/ SubmitLost(w) \/ RecordOutcome(w) \/ RecordUnknown(w)
          \/ \E e \in Wire : Submit(w, e)
          \/ Publish(w) \/ PublishUnknown(w) \/ Commit(w) \/ CommitUnknown(w) \/ CommitRefused(w)
          \/ Finish(w) \/ Crash(w)
    \/ \E s \in Slots :
          \/ Recover(s) \/ ReconciliationDisabled(s) \/ Replay(s)
          \/ Continue(s) \/ Evaluate(s) \/ SettleReady(s)
    \/ DecideResults \/ Close \/ ChangeRights
    \/ \E r \in Routes : Observe(r)

Spec == Init /\ [][Next]_vars

-----------------------------------------------------------------------------
(* Properties *)

(* Every row keeps its type. *)
TypeOK ==
    /\ workflow \in [status : WorkflowStatus, node : {"approve_plan", "evaluate_results", "approve_results"}]
    /\ observed \in [Routes -> Nat] /\ rights \in Nat
    /\ batch \in [Directions -> Batches \cup {None}]
    /\ key \in [Keys -> [command : Command \cup {None}, done : BOOLEAN]]
    /\ op \in [Slots -> Operation]
    /\ attempt \in [Slots -> [Numbers -> {"NONE", "DISPATCHING"} \cup Outcomes]]
    /\ produced \in [Slots -> Nat] /\ candidate \in CandidateImages
    /\ objects \subseteq Slots \X Nat /\ ready \subseteq Slots
    /\ evaluation \in [Directions -> {"NONE", "RUNNING", "SUCCEEDED"}]
    /\ worker \in [Workers -> Executor]
    /\ faults \in Nat /\ changes \in Nat

(* The provider makes at most one image for a candidate slot, whatever is
   lost, expires, is retried or is replayed: a submission that may have been
   accepted is never repeated (ADR-009-candidate-slot-durable-operation.md:29). *)
PaidOnce == \A s \in Slots : produced[s] <= 1

(* An operation has succeeded exactly when its candidate is published, and the
   published image is the stored result of the recorded call of its last attempt. *)
CandidateIsWhole ==
    \A s \in Slots :
        /\ op[s].state = "SUCCEEDED" <=> candidate[s] # 0
        /\ candidate[s] # 0 =>
              /\ candidate[s] = op[s].attempts
              /\ <<s, candidate[s]>> \in objects
              /\ attempt[s][candidate[s]] = "SUCCESS"

(* A complete batch is never forgotten: as long as the workflow waits for it,
   or evaluates it, an event that continues the workflow is outstanding, even
   though every event but the last finds the batch incomplete. *)
ReadyNotLost ==
    \A d \in Directions :
        (BatchComplete(d) /\ PlanIsCurrent)
            \/ (workflow.status = "EVALUATING" /\ evaluation[d] = "RUNNING")
        => SlotsOf(d) \cap ready # {}

-----------------------------------------------------------------------------
(* Why the properties hold *)

Busy(w) == worker[w].pc # "idle"

(* Nobody has been able to submit since the operation was created, or every
   submission is known to have been refused. *)
Free(o) == o.state \in {"NONE", "READY"} \/ (o.state = "FAILED" /\ ~o.unknown)

(* A busy executor runs the latest attempt of its operation, alone. *)
OneExecutor ==
    /\ \A w \in Workers : Busy(w) =>
          /\ SlotOf(w) \in Slots /\ Number(w) \in Numbers
          /\ Number(w) = op[SlotOf(w)].attempts
          /\ ~Free(op[SlotOf(w)])
    /\ \A v, w \in Workers : Busy(v) /\ Busy(w) /\ SlotOf(v) = SlotOf(w) => v = w

(* Nothing was paid while an operation may be attempted again, nor for a call
   that has not been made or that ended in a refusal. *)
UnpaidUntilSubmitted ==
    /\ \A s \in Slots : Free(op[s]) => produced[s] = 0
    /\ \A w \in Workers : Busy(w) =>
          /\ worker[w].pc \in {"prepare", "claim", "submit"} \/ worker[w].outcome \in {"FAILURE", "RETRY"}
                => produced[SlotOf(w)] = 0
          /\ worker[w].pc = "record" => worker[w].outcome \in Outcomes
          /\ worker[w].pc = "finish" => worker[w].outcome \in Outcomes \ {"SUCCESS"}

(* An attempt that may begin is within the budget and what replays have added. *)
WithinBudget ==
    \A s \in Slots :
        /\ op[s].budget <= MaxAttempts + op[s].replays
        /\ op[s].attempts <= op[s].budget
        /\ op[s].state = "READY" => op[s].attempts < op[s].budget

(* An image is committed after its object is stored, and nobody writes the
   records of an operation that has succeeded. *)
StoredBeforeCommit ==
    \A w \in Workers :
        /\ worker[w].pc = "commit" => ObjectKey(w) \in objects
        /\ Busy(w) /\ op[SlotOf(w)].state = "SUCCEEDED" => worker[w].pc = "finish"

(* Operations exist from the creation of their batch. *)
CreatedWithBatch == \A d \in Directions : batch[d] = None => \A s \in SlotsOf(d) : op[s].state = "NONE"

(* The workflow leaves the approved plan with the first evaluation, for good,
   and only a complete batch is evaluated. *)
EvaluatedOnce ==
    /\ workflow.node = "approve_plan" =>
          /\ workflow.status \in {"GENERATING", "CLOSED"}
          /\ \A d \in Directions : evaluation[d] = "NONE"
    /\ \A d \in Directions : evaluation[d] = "RUNNING" => BatchComplete(d)

(* The inductive invariant. *)
GenerationInv ==
    /\ TypeOK /\ OneExecutor /\ UnpaidUntilSubmitted /\ WithinBudget /\ StoredBeforeCommit
    /\ CreatedWithBatch /\ EvaluatedOnce
    /\ PaidOnce /\ CandidateIsWhole /\ ReadyNotLost
=============================================================================
