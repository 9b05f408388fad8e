------------------------------ MODULE ToolNode ------------------------------
(***************************************************************************)
(* The execute_tool node of one workflow: the workflow row, the row of the *)
(* node's step with its lease, the row of the tool attempt, the events     *)
(* that make a worker run the graph, the workers, and the recovery scan of *)
(* the scheduler.  The workflow is a fixture workflow: it has no           *)
(* ProductBrief continuation.                                              *)
(*                                                                         *)
(* Every action is one transaction of DurableNodeLifecycle, of             *)
(* RecoveryService or of WorkflowApplicationService, or a step between two *)
(* of them.  PENDING, QUEUED and CLAIMED are passed inside a transaction   *)
(* and are never stored.  An instant is kept as its relation to now.  A    *)
(* lease token is fresh at every claim and a worker forgets its token when *)
(* its handler ends, so the worker names the token.  attempt_count is only *)
(* compared with max_attempts: MaxAttempts + 1 stands for all larger       *)
(* counts, and no bound on it is needed.  A slot holds one event; when the *)
(* event is settled, the slot is free for another.                         *)
(***************************************************************************)
EXTENDS Naturals, FiniteSets

CONSTANTS
    Workers,      \* processes running the agent graph
    None,         \* no lease token, no event
    Slots,        \* bound: events of the workflow that are not settled
    MaxAttempts,  \* default_max_attempts of the node lifecycle
    Faults,       \* kinds of faults that may happen
    MaxFaults     \* bound: how many of them

FaultKinds == {"crash", "slow", "inbox", "database"}

ASSUME NodeAssumption ==
    /\ None \notin Workers \cup Slots
    /\ IsFiniteSet(Slots) /\ Slots # {}
    /\ MaxAttempts \in Nat \ {0}
    /\ Faults \subseteq FaultKinds
    /\ MaxFaults \in Nat

VARIABLES
    wf,        \* the workflow: READY (approved), RUNNING the node, DONE with it, FAILED, CANCELLED
    resumed,   \* the human step of the approval has succeeded
    step,      \* the workflow_steps row of the node
    attempt,   \* the status of the workflow_attempts row
    event,     \* what each slot holds
    holder,    \* the worker with the Inbox lease of each slot's event
    worker,
    lost,      \* some call of the tool will never be recorded
    faults     \* how many, and whether one hit the last attempt of the step

stepVars == <<wf, step, attempt>>
vars == <<wf, resumed, step, attempt, event, holder, worker, lost, faults>>

-----------------------------------------------------------------------------
(* State *)

Settled == {"DONE", "FAILED", "CANCELLED"}

StepRow ==
    [status : {"NONE", "RUNNING", "RETRYABLE_FAILED", "SUCCEEDED", "FAILED", "CANCELLED"},
     lessee : Workers \cup {None},       \* lease_token
     lease  : {"none", "live", "expired"},   \* lease_expires_at
     count  : 0..(MaxAttempts + 1),          \* attempt_count
     due    : {"none", "later", "due"}]      \* next_attempt_at

AttemptStatus == {"NONE", "SUBMITTING", "SUCCEEDED", "RETRYABLE_FAILED", "PERMANENT_FAILED"}

EventState ==
    [kind   : {"resume", "run"},
     status : {"free", "unpublished", "published"}]

NoEvent == [kind |-> "run", status |-> "free"]

\* call: open while its call of the tool is not recorded.
\* error: what the handler is failing with.
WorkerState ==
    [pc     : {"idle", "resume", "node", "claimed", "calling", "returned", "known",
               "failing", "raised", "done"},
     slot   : Slots \cup {None},
     call   : {"none", "open"},
     error  : {"none", "retryable", "permanent", "lease", "infrastructure"}]

At(pc, s) == [pc |-> pc, slot |-> s, call |-> "none", error |-> "none"]

Idle == At("idle", None)

Init ==
    /\ wf = "READY" /\ resumed = FALSE
    /\ step = [status |-> "NONE", lessee |-> None, lease |-> "none", count |-> 0,
               due |-> "none"]
    /\ attempt = "NONE"
    /\ event = [s \in Slots |-> IF s = CHOOSE first \in Slots : TRUE
                                THEN [kind |-> "resume", status |-> "unpublished"]
                                ELSE NoEvent]
    /\ holder = [s \in Slots |-> None]
    /\ worker = [w \in Workers |-> Idle]
    /\ lost = FALSE
    /\ faults = [number |-> 0, last |-> FALSE]

-----------------------------------------------------------------------------
(* Steps of a worker *)

Disturb(kind) ==
    /\ kind \in Faults /\ faults.number < MaxFaults
    /\ faults' = [number |-> faults.number + 1,
                  last   |-> faults.last \/ step.count >= MaxAttempts]

Open(w) == worker[w].call = "open"

Goto(w, pc) == worker' = [worker EXCEPT ![w].pc = pc]
Calls(w) == worker' = [worker EXCEPT ![w] = [@ EXCEPT !.pc = "calling", !.call = "open"]]
Records(w, pc) == worker' = [worker EXCEPT ![w] = [@ EXCEPT !.pc = pc, !.call = "none"]]
Fails(w, e) == worker' = [worker EXCEPT ![w] = [@ EXCEPT !.pc = "failing", !.error = e]]

\* An exception leaves the node: nobody will record the call it made.
Raises(w) ==
    /\ Records(w, "raised")
    /\ lost' = (lost \/ Open(w))

\* assert_lease
HasLease(w) == step.lessee = w /\ step.lease = "live"

\* The step's new status, without a lease.
Released(status, due) ==
    [step EXCEPT !.status = status, !.lessee = None, !.lease = "none", !.due = due]

Counted == IF step.count > MaxAttempts THEN step.count ELSE step.count + 1

PendingRun == {s \in Slots : event[s].kind = "run" /\ event[s].status = "unpublished"}
Free == {s \in Slots : event[s].status = "free"}

\* uow.outbox.add of a WORKFLOW_RUN_REQUESTED event.
AddRun ==
    \E s \in Free :
        event' = [event EXCEPT ![s] = [kind |-> "run", status |-> "unpublished"]]

-----------------------------------------------------------------------------
(* The transport *)

Publish(s) ==
    /\ event[s].status = "unpublished"
    /\ event' = [event EXCEPT ![s].status = "published"]
    /\ UNCHANGED <<stepVars, resumed, holder, worker, lost, faults>>

\* Where _handle_workflow_event enters.  An approval is only valid for the
\* version it produced and for the checkpoint that waits for it, which is
\* saved some time after complete_human_wait.  A run event continues from the
\* checkpoint, and one that finds it waiting for the approval stops there again.
Entry(s) ==
    IF event[s].kind = "resume"
    THEN (IF wf = "READY" THEN {"resume"} ELSE {})
         \cup (IF wf # "READY" \/ resumed THEN {"done"} ELSE {})
    ELSE {IF resumed THEN "node" ELSE "done"}

Handle(w, s) ==
    /\ worker[w].pc = "idle" /\ event[s].status = "published"
    /\ \E pc \in Entry(s) : worker' = [worker EXCEPT ![w] = At(pc, s)]
    /\ holder' = [holder EXCEPT ![s] = w]
    /\ UNCHANGED <<stepVars, resumed, event, lost>>

Deliver(w, s) == holder[s] = None /\ Handle(w, s) /\ UNCHANGED faults

\* The Inbox lease of the handler has expired; it goes on without it.
Overtake(w, s) == holder[s] # None /\ Handle(w, s) /\ Disturb("inbox")

\* The handler ends, and leaves e in the slot of its event.
End(w, e) ==
    LET s == worker[w].slot IN
    /\ worker' = [worker EXCEPT ![w] = Idle]
    /\ IF holder[s] = w
       THEN /\ event' = [event EXCEPT ![s] = e]
            /\ holder' = [holder EXCEPT ![s] = None]
       ELSE UNCHANGED <<event, holder>>
    /\ UNCHANGED <<stepVars, resumed, lost, faults>>

Return(w) == worker[w].pc = "done" /\ End(w, NoEvent)

\* _workflow_outcome_was_durably_recorded
OutcomeRecorded(w) == wf \in Settled \ {"DONE"} \/ PendingRun \ {worker[w].slot} # {}

\* An exception ends the handler: the event is processed if its outcome is
\* recorded, and otherwise scheduled again or, in the end, dead.  Bound: it is
\* dead when every slot is taken.
Absorb(w) ==
    /\ worker[w].pc = "raised"
    /\ \/ End(w, NoEvent)
       \/ /\ ~OutcomeRecorded(w) /\ Free # {}
          /\ End(w, [event[worker[w].slot] EXCEPT !.status = "unpublished"])

-----------------------------------------------------------------------------
(* The node *)

\* approve_plan: begin_human_wait and complete_human_wait.  Cancelling the
\* workflow cancels the human step, unless it has already succeeded.
Resume(w) ==
    /\ worker[w].pc = "resume"
    /\ \/ /\ wf = "CANCELLED" /\ ~resumed
          /\ Raises(w) /\ UNCHANGED resumed
       \/ /\ wf = "CANCELLED" => resumed
          /\ Goto(w, "node") /\ resumed' = TRUE /\ UNCHANGED lost
    /\ UNCHANGED <<stepVars, event, holder, faults>>

Claimable ==
    \/ step.status = "NONE"
    \/ step.status = "RETRYABLE_FAILED" /\ step.due # "later" /\ step.count < MaxAttempts
    \/ step.status = "RUNNING" /\ step.lease = "expired"

\* WorkflowStep.claim and start, and the workflow's transition to the node.
ClaimStep(w) ==
    /\ step' = [status |-> "RUNNING", lessee |-> w, lease |-> "live", count |-> Counted,
                due |-> "none"]
    /\ wf' = "RUNNING"

BeginNode(w) ==
    /\ worker[w].pc = "node"
    /\ \/ /\ wf \notin {"FAILED", "CANCELLED"} /\ step.status = "SUCCEEDED"
          /\ Goto(w, "done") /\ UNCHANGED <<wf, step, lost>>
       \/ /\ wf \notin {"FAILED", "CANCELLED"} /\ Claimable
          /\ ClaimStep(w) /\ Goto(w, "claimed") /\ UNCHANGED lost
       \/ /\ (wf \in {"FAILED", "CANCELLED"}) \/ (step.status # "SUCCEEDED" /\ ~Claimable)
          /\ Raises(w) /\ UNCHANGED <<wf, step>>
    /\ UNCHANGED <<resumed, attempt, event, holder, faults>>

\* Mutant: a call whose outcome is unknown is submitted again.
BeginAttemptAgain(w) ==
    /\ worker[w].pc = "claimed"
    /\ \/ /\ attempt = "SUCCEEDED"
          /\ Goto(w, "known") /\ UNCHANGED <<attempt, lost>>
       \/ /\ attempt \in {"NONE", "RETRYABLE_FAILED", "SUBMITTING"}
          /\ attempt' = "SUBMITTING" /\ Calls(w) /\ UNCHANGED lost
       \/ /\ attempt = "PERMANENT_FAILED"
          /\ Raises(w) /\ UNCHANGED attempt
    /\ UNCHANGED <<wf, step, resumed, event, holder, faults>>

\* A SUBMITTING attempt becomes UNKNOWN, and UNKNOWN -> SUBMITTING is no
\* transition of an attempt: begin_attempt raises and its transaction is
\* rolled back.  Without a continuation it does not look at the lease.
BeginAttempt(w) ==
    /\ worker[w].pc = "claimed"
    /\ \/ /\ attempt = "SUCCEEDED"
          /\ Goto(w, "known") /\ UNCHANGED <<attempt, lost>>
       \/ /\ attempt \in {"NONE", "RETRYABLE_FAILED"}
          /\ attempt' = "SUBMITTING" /\ Calls(w) /\ UNCHANGED lost
       \/ /\ attempt \in {"SUBMITTING", "PERMANENT_FAILED"}
          /\ Raises(w) /\ UNCHANGED attempt
    /\ UNCHANGED <<wf, step, resumed, event, holder, faults>>

\* tool_gateway.execute returns or raises.
ToolReturns(w) ==
    /\ worker[w].pc = "calling"
    /\ Goto(w, "returned") \/ Fails(w, "retryable") \/ Fails(w, "permanent")
    /\ UNCHANGED <<stepVars, resumed, event, holder, lost, faults>>

CompleteAttempt(w) ==
    /\ worker[w].pc = "returned"
    /\ \/ /\ attempt # "SUCCEEDED" => HasLease(w) /\ attempt = "SUBMITTING"
          /\ attempt' = "SUCCEEDED" /\ Records(w, "known")
       \/ /\ attempt # "SUCCEEDED" /\ ~(HasLease(w) /\ attempt = "SUBMITTING")
          /\ Fails(w, "lease") /\ UNCHANGED attempt
    /\ UNCHANGED <<wf, step, resumed, event, holder, lost, faults>>

CompleteNode(w) ==
    /\ worker[w].pc = "known"
    /\ \/ step.status = "SUCCEEDED" /\ Goto(w, "done") /\ UNCHANGED <<wf, step>>
       \/ /\ HasLease(w)
          /\ step' = Released("SUCCEEDED", step.due) /\ wf' = "DONE"
          /\ Goto(w, "done")
       \/ /\ step.status # "SUCCEEDED" /\ ~HasLease(w)
          /\ Fails(w, "lease") /\ UNCHANGED <<wf, step>>
    /\ UNCHANGED <<resumed, attempt, event, holder, lost, faults>>

\* _settle_failed_attempt: an attempt that succeeded stays so.
SettleAttempt(status) == attempt' = IF attempt = "SUBMITTING" THEN status ELSE attempt

\* Mutant: an error of the tool is retried without an end.
ShouldRetryAlways(w) == worker[w].error = "retryable"

\* Only an error of the tool is ever retryable.
ShouldRetry(w) == worker[w].error = "retryable" /\ step.count < MaxAttempts

FailNode(w) ==
    /\ worker[w].pc = "failing"
    /\ \/ /\ HasLease(w) /\ ShouldRetry(w)
          /\ SettleAttempt("RETRYABLE_FAILED")
          /\ step' = Released("RETRYABLE_FAILED", "later")
          /\ AddRun
          /\ Records(w, "raised")
          /\ UNCHANGED <<wf, lost>>
       \/ /\ HasLease(w) /\ ~ShouldRetry(w)
          /\ SettleAttempt("PERMANENT_FAILED")
          /\ step' = Released("FAILED", step.due) /\ wf' = "FAILED"
          /\ Records(w, "raised")
          /\ UNCHANGED <<event, lost>>
       \/ ~HasLease(w) /\ Raises(w) /\ UNCHANGED <<wf, step, attempt, event>>
    /\ UNCHANGED <<resumed, holder, faults>>

-----------------------------------------------------------------------------
(* The scheduler, the user, the clock and the faults *)

Request == IF PendingRun = {} THEN AddRun ELSE UNCHANGED event

\* recover_once, first loop.
RecoverExpiredLease ==
    /\ step.status = "RUNNING" /\ step.lease = "expired"
    /\ step' = Released("RETRYABLE_FAILED", "due")
    /\ Request
    /\ UNCHANGED <<wf, resumed, attempt, holder, worker, lost, faults>>

\* recover_once, second loop.  Bound: it leaves a slot for the events of the
\* node.
RecoverStaleWorkflow ==
    /\ wf \in {"READY", "RUNNING"} /\ PendingRun = {}
    /\ Cardinality(Free) > 1
    /\ AddRun
    /\ UNCHANGED <<stepVars, resumed, holder, worker, lost, faults>>

\* Mutant: the steps are left as they are.
CancelWorkflowOnly ==
    /\ wf \in {"READY", "RUNNING"}
    /\ wf' = "CANCELLED"
    /\ UNCHANGED <<step, resumed, attempt, event, holder, worker, lost, faults>>

\* WorkflowApplicationService.cancel: the attempt is not touched.
Cancel ==
    /\ wf \in {"READY", "RUNNING"}
    /\ wf' = "CANCELLED"
    /\ step' = IF step.status \in {"RUNNING", "RETRYABLE_FAILED"}
               THEN Released("CANCELLED", step.due) ELSE step
    /\ UNCHANGED <<resumed, attempt, event, holder, worker, lost, faults>>

RetryBecomesDue ==
    /\ step.status = "RETRYABLE_FAILED" /\ step.due = "later"
    /\ step' = [step EXCEPT !.due = "due"]
    /\ UNCHANGED <<wf, resumed, attempt, event, holder, worker, lost, faults>>

InNode(w) == worker[w].pc \in {"claimed", "calling", "returned", "known", "failing"}

LeaseExpires ==
    /\ step.lease = "live"
    /\ step' = [step EXCEPT !.lease = "expired"]
    /\ \/ ~InNode(step.lessee) /\ UNCHANGED faults
       \/ InNode(step.lessee) /\ Disturb("slow")
    /\ UNCHANGED <<wf, resumed, attempt, event, holder, worker, lost>>

\* The process dies; its delivery goes back to the broker.
WorkerCrash(w) ==
    /\ worker[w].pc # "idle"
    /\ worker' = [worker EXCEPT ![w] = Idle]
    /\ lost' = (lost \/ Open(w))
    /\ holder' = [s \in Slots |-> IF holder[s] = w THEN None ELSE holder[s]]
    /\ Disturb("crash")
    /\ UNCHANGED <<stepVars, resumed, event>>

\* A transaction fails and is rolled back.  complete_attempt and complete_node
\* are inside the node's try, the others are not.
TransactionFails(w) ==
    /\ \/ /\ worker[w].pc \in {"returned", "known"}
          /\ Fails(w, "infrastructure") /\ UNCHANGED lost
       \/ worker[w].pc \in {"resume", "node", "claimed", "failing"} /\ Raises(w)
    /\ Disturb("database")
    /\ UNCHANGED <<stepVars, resumed, event, holder>>

WorkerStep(w) ==
    Resume(w) \/ BeginNode(w) \/ BeginAttempt(w) \/ ToolReturns(w) \/ CompleteAttempt(w)
        \/ CompleteNode(w) \/ FailNode(w) \/ Absorb(w) \/ Return(w)

Scan == RecoverExpiredLease \/ RecoverStaleWorkflow

Next ==
    \/ \E w \in Workers :
          \/ WorkerStep(w) \/ WorkerCrash(w) \/ TransactionFails(w)
          \/ \E s \in Slots : Deliver(w, s) \/ Overtake(w, s)
    \/ \E s \in Slots : Publish(s)
    \/ Scan \/ Cancel \/ RetryBecomesDue \/ LeaseExpires

Spec == Init /\ [][Next]_vars

\* The broker delivers, workers go on, the tool returns, the scheduler scans
\* and time passes; nothing obliges the user to cancel or a fault to happen.
Fairness ==
    /\ \A w \in Workers : WF_vars(WorkerStep(w))
    /\ \A s \in Slots : WF_vars(Publish(s)) /\ SF_vars(\E w \in Workers : Deliver(w, s))
    /\ SF_vars(RecoverExpiredLease) /\ SF_vars(RecoverStaleWorkflow)
    /\ WF_vars(RetryBecomesDue) /\ WF_vars(LeaseExpires)

FairSpec == Spec /\ Fairness

-----------------------------------------------------------------------------
(* Properties *)

\* Every row, event and worker has its type; in particular a RUNNING step that
\* is claimed again and again beyond max_attempts (entities.py, claim) still
\* has a count the model can tell from the others.
TypeOK ==
    /\ wf \in {"READY", "RUNNING"} \cup Settled /\ resumed \in BOOLEAN
    /\ step \in StepRow /\ attempt \in AttemptStatus
    /\ event \in [Slots -> EventState]
    /\ holder \in [Slots -> Workers \cup {None}]
    /\ worker \in [Workers -> WorkerState]
    /\ lost \in BOOLEAN /\ faults \in [number : 0..MaxFaults, last : BOOLEAN]

\* begin_attempt never lets the tool be called while the outcome of another
\* call is unknown: there is at most one call that is not recorded, lost ones
\* included, and the attempt is SUBMITTING exactly as long as there is one.
OneCall ==
    /\ \A v, w \in Workers : Open(v) /\ Open(w) => v = w
    /\ lost => \A w \in Workers : ~Open(w)
    /\ (attempt = "SUBMITTING") <=> (lost \/ \E w \in Workers : Open(w))

\* complete_node, fail_node and cancel change the workflow and its step
\* together: the workflow has left the node exactly when the step says so, and
\* it goes on only with the result of a recorded call.
WorkflowFollowsStep ==
    /\ wf = "DONE" <=> step.status = "SUCCEEDED"
    /\ wf = "DONE" => attempt = "SUCCEEDED"
    /\ wf = "FAILED" <=> step.status = "FAILED"
    /\ wf = "CANCELLED" => step.status \in {"NONE", "CANCELLED"}
    /\ wf = "READY" => step.status = "NONE"

\* A workflow that is done with the node, failed or cancelled is not touched
\* by late workers, redelivered events or the scan.
SettledStays == [][(wf \in Settled) => UNCHANGED <<wf, step>>]_vars

\* Once begin_node has claimed the step, retries and recovery end: the node
\* completes, or the workflow fails or is cancelled.  Two dead ends are left: a
\* call of the tool that nobody will record, and a step that recover_once made
\* RETRYABLE_FAILED after a fault of its last attempt.  A fault of an earlier
\* attempt excuses nothing.
NodeSettles ==
    (step.status # "NONE") ~>
        \/ wf \in Settled \/ lost
        \/ /\ faults.last
           /\ step.status = "RETRYABLE_FAILED" /\ step.count >= MaxAttempts
=============================================================================
