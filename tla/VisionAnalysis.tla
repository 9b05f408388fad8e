--------------------------- MODULE VisionAnalysis ---------------------------
(***************************************************************************)
(* The analysis of a product brief by the vision provider: the executor of  *)
(* the durable operation, the ledger of what it sent and received, its       *)
(* reconciliation and the cancellation of the workflow.                      *)
(*                                                                         *)
(* Before a request leaves, its bytes are an artifact of the ledger and the  *)
(* submission has an intent; the answer is an artifact before it counts, and *)
(* the outcome is a call.  Each transaction locks the workflow, the brief    *)
(* and the operation, in that order, and is one step; the object store and   *)
(* the provider are met between transactions, where a worker may crash or    *)
(* lose its lease.  What a crashed or overtaken worker left is judged by     *)
(* another one from the ledger alone.  Claims, leases and retries are those  *)
(* of module DurableOperation, reduced to what the executor sees of them.    *)
(***************************************************************************)
EXTENDS ProductBrief

CONSTANTS
    MaxRepairs,    \* maximum_repair_attempts: further calls after a malformed answer
    MaxReplays     \* bound: operator replays of the brief's operations

ASSUME VisionAssumption ==
    /\ MaxRepairs \in Nat /\ MaxReplays \in Nat

VARIABLES
    intents,       \* the submission intents: keys
    calls,         \* the recorded outcome of each key
    artifact,      \* the ledger: the state of each artifact
    dropped,       \* history: the calls whose answer was given up for a short lease
    objects,       \* external: the artifacts the object store holds
    submitted,     \* external: the requests the provider has received
    worker         \* the executor of each worker

ledger == <<intents, calls, artifact, dropped, objects, submitted>>
rows == <<workflow, retained, brief, versions, operations, confirmations, continuations,
          usable>>
visionVars == <<briefVars, ledger, worker>>

Kinds == {"REQUEST", "RESPONSE"}

\* A key names a call: an operation, its attempt, the index of the call.
Keys == (1..MaxOperations) \X (1..(MaxAttempts + MaxReplays)) \X (0..MaxRepairs)

\* MALFORMED is an answer a repair may follow; REJECTED stands for the final
\* answers that are not retried, a response over its bound among them.
Retryable == {"THROTTLED", "UNAVAILABLE", "TIMEOUT"}
CallStatus == Retryable \cup {"SUCCEEDED", "MALFORMED", "REJECTED", "UNKNOWN"}

\* The local state of an executor; calls are the outcomes it has not lost yet.
Idle == [pc |-> "idle", op |-> NoOperation, attempt |-> 0, kind |-> "REQUEST",
         calls |-> << >>, result |-> "none"]

VisionInit ==
    /\ BriefInit
    /\ intents = {} /\ dropped = {} /\ objects = {} /\ submitted = {}
    /\ calls = [k \in Keys |-> "none"]
    /\ artifact = [k \in Keys |-> [kind \in Kinds |-> "none"]]
    /\ worker = [w \in Workers |-> Idle]

-----------------------------------------------------------------------------
(* What a worker knows and checks *)

OperationOf(w) == operations[worker[w].op]
Key(w) == <<worker[w].op, worker[w].attempt, Len(worker[w].calls)>>
KeysOf(w) == {k \in Keys : k[1] = worker[w].op /\ k[2] = worker[w].attempt}

Holds(w) == OperationOf(w).holder = w /\ OperationOf(w).attempts = worker[w].attempt

\* _assert_execution_identity: the lease, the brief and the workflow are the
\* ones the operation was requested for.
ExecutionIdentity(w) ==
    LET op == OperationOf(w) IN
    /\ Holds(w) /\ op.state = "RUNNING"
    /\ brief.state = "DRAFT" /\ brief.version = op.target /\ brief.operation = worker[w].op
    /\ Authorized
    /\ workflow.status = "UNDERSTANDING" /\ workflow.version = op.expected

\* _assert_submission_lease: the rest of the lease is shorter than the reserve
\* of a submission.  It is asked of the lease at any time, also after the answer.
ShortLease(short) == Unless(short)

\* The answer of the call k is not kept.
Drops(k) == dropped' = dropped \cup {k}

Goto(w, pc) == worker' = [worker EXCEPT ![w].pc = pc]
Finish(w, result) == worker' = [worker EXCEPT ![w].pc = "settle", ![w].result = result]

\* The outcome of the current call is known; what follows is at pc.
Called(w, status, pc) ==
    worker' = [worker EXCEPT ![w].pc = pc, ![w].calls = Append(@, status)]

Store(w, kind) == worker' = [worker EXCEPT ![w].pc = "store", ![w].kind = kind]

\* _bind_provider_artifact_ledger_rows: what the ledger must hold for a call
\* of this status to be recorded.
Bound(k, status) ==
    /\ artifact[k]["REQUEST"] = "STORED"
    /\ CASE status \in {"UNAVAILABLE", "TIMEOUT"} -> artifact[k]["RESPONSE"] = "none"
         [] status = "UNKNOWN" -> TRUE
         [] OTHER -> artifact[k]["RESPONSE"] = "STORED"

Outcomes(w) == worker[w].calls
Last(w) == Outcomes(w)[Len(Outcomes(w))]
CallKey(w, i) == <<worker[w].op, worker[w].attempt, i - 1>>

\* _store_provider_calls_once: the calls of the attempt not yet recorded.
CallsBound(w) == \A i \in DOMAIN Outcomes(w) : Bound(CallKey(w, i), Outcomes(w)[i])
StoreCalls(w) ==
    calls' = [k \in Keys |->
        IF k \in KeysOf(w) /\ k[3] + 1 \in DOMAIN Outcomes(w)
        THEN Outcomes(w)[k[3] + 1] ELSE calls[k]]

-----------------------------------------------------------------------------
(* The lease of an operation *)

ClaimAnalysis(w) ==
    /\ worker[w].pc = "idle"
    /\ \E o \in DOMAIN operations :
          /\ operations[o].state \in {"PENDING", "RETRY"}
          /\ operations' = [operations EXCEPT ![o].state = "RUNNING", ![o].attempts = @ + 1,
                                              ![o].holder = w]
          /\ worker' = [worker EXCEPT ![w] = [Idle EXCEPT !.pc = "begin", !.op = o,
                                              !.attempt = operations[o].attempts + 1]]
    /\ UNCHANGED <<workflow, retained, brief, versions, confirmations, continuations, usable,
                   faults, ledger>>

\* The lease ends; its worker may still be alive.
LeaseExpires ==
    /\ \E o \in DOMAIN operations :
          /\ operations[o].holder # Nobody
          /\ operations' = [operations EXCEPT ![o].holder = Nobody]
    /\ Fault
    /\ UNCHANGED <<workflow, retained, brief, versions, confirmations, continuations, usable,
                   ledger, worker>>

\* A worker stops anywhere, and with it everything it had not committed.
Crash(w) ==
    /\ worker[w].pc # "idle"
    /\ worker' = [worker EXCEPT ![w] = Idle]
    /\ Fault
    /\ UNCHANGED <<rows, ledger>>

\* The state an execution or reconciliation leaves its operation in.
SettledState(op, result) ==
    CASE result = "success" -> "SUCCEEDED"
      [] result = "wait" -> "WAITING_HUMAN"
      [] result = "unknown" -> "RECONCILING"
      [] result = "retry" /\ op.attempts < op.budget -> "RETRY"
      [] OTHER -> "FAILED"

\* The result is applied under the lease, or not at all.
Settle(w) ==
    /\ worker[w].pc = "settle"
    /\ worker' = [worker EXCEPT ![w] = Idle]
    /\ operations' = IF Holds(w)
                     THEN [operations EXCEPT
                             ![worker[w].op].state = SettledState(OperationOf(w), worker[w].result),
                             ![worker[w].op].holder = Nobody]
                     ELSE operations
    /\ UNCHANGED <<workflow, retained, brief, versions, confirmations, continuations, usable,
                   faults, ledger>>

\* An operator replays a failed operation: one more attempt, whose predecessors
\* the operator has reviewed.
ReplayAnalysis ==
    /\ \E o \in DOMAIN operations :
          /\ operations[o].state = "FAILED" /\ operations[o].attempts < MaxAttempts + MaxReplays
          /\ operations[o].reviewed = 0
          /\ operations' = [operations EXCEPT ![o].state = "RETRY",
                                ![o].budget = operations[o].attempts + 1,
                                ![o].reviewed = operations[o].attempts]
    /\ UNCHANGED <<workflow, retained, brief, versions, confirmations, continuations, usable,
                   faults, ledger, worker>>

-----------------------------------------------------------------------------
(* execute *)

\* The analysis is read and its identity checked, without locks.
BeginExecution(w) ==
    /\ worker[w].pc = "begin"
    /\ IF ExecutionIdentity(w)
       THEN IF KeysOf(w) \cap intents = {} THEN Goto(w, "source") ELSE Finish(w, "unknown")
       ELSE Finish(w, "fail")
    /\ UNCHANGED <<briefVars, ledger>>

\* The images are authorised and granted, the identity and the rights checked
\* again; the storage may not answer.
AuthorizeImages(w) ==
    /\ worker[w].pc = "source"
    /\ \E answered \in BOOLEAN :
          /\ Unless(~answered)
          /\ IF ~usable \/ ~ExecutionIdentity(w) THEN Finish(w, "fail")
             ELSE IF answered THEN Store(w, "REQUEST") ELSE Finish(w, "retry")
    /\ UNCHANGED <<rows, ledger>>

\* The intent of an artifact: its target is fixed before anything is written.
StoreIntent(w) ==
    /\ worker[w].pc = "store"
    /\ \E short \in BOOLEAN :
          /\ ShortLease(short)
          /\ IF ExecutionIdentity(w) /\ ~short
             THEN artifact' = [artifact EXCEPT ![Key(w)][worker[w].kind] = "INTENDED"]
                  /\ Goto(w, "write")
             ELSE UNCHANGED artifact
                  /\ Finish(w, IF ExecutionIdentity(w) THEN "retry" ELSE "fail")
          /\ IF ExecutionIdentity(w) /\ short /\ worker[w].kind = "RESPONSE"
             THEN Drops(Key(w)) ELSE UNCHANGED dropped
    /\ UNCHANGED <<rows, intents, calls, objects, submitted>>

\* write_prepared: written, certainly not written, or not known.
WriteObject(w) ==
    /\ worker[w].pc = "write"
    /\ \E answer \in {"written", "refused", "lost"} :
          /\ worker' = [worker EXCEPT ![w].pc = "mark", ![w].result = answer]
          /\ Unless(answer # "written")
          /\ \/ answer # "refused" /\ objects' = objects \cup {<<Key(w), worker[w].kind>>}
             \/ answer # "written" /\ UNCHANGED objects
    /\ UNCHANGED <<rows, intents, calls, artifact, dropped, submitted>>

\* What the executor makes of an artifact that could not be stored: a request
\* was not sent, a response leaves its call unknown.
ArtifactFailed(w) ==
    IF worker[w].kind = "RESPONSE" THEN Called(w, "UNKNOWN", "outcome")
    ELSE CASE worker[w].result = "refused" -> Finish(w, "retry")
           [] worker[w].result = "lost" -> Finish(w, "unknown")
           [] OTHER -> Finish(w, "fail")

\* Mutant: a lost write counts as written.
MarkStored(w) ==
    /\ worker[w].pc = "mark"
    /\ IF worker[w].result = "refused" THEN ArtifactFailed(w) /\ UNCHANGED artifact
       ELSE artifact' = [artifact EXCEPT ![Key(w)][worker[w].kind] = "STORED"]
            /\ Goto(w, IF worker[w].kind = "REQUEST" THEN "submit" ELSE "received")
    /\ UNCHANGED <<briefVars, intents, calls, dropped, objects, submitted>>

\* _mark_stored and _mark_unknown, in a transaction of their own without the
\* execution identity.
MarkArtifact(w) ==
    LET current == artifact[Key(w)][worker[w].kind] IN
    /\ worker[w].pc = "mark"
    /\ IF worker[w].result = "written" /\ current \in {"INTENDED", "STORED"}
       THEN artifact' = [artifact EXCEPT ![Key(w)][worker[w].kind] = "STORED"]
            /\ Goto(w, IF worker[w].kind = "REQUEST" THEN "submit" ELSE "received")
       ELSE artifact' = (IF worker[w].result = "lost" /\ current # "STORED"
                         THEN [artifact EXCEPT ![Key(w)][worker[w].kind] = "UNKNOWN"]
                         ELSE artifact)
            /\ ArtifactFailed(w)
    /\ UNCHANGED <<briefVars, intents, calls, dropped, objects, submitted>>

\* The deadline of the request passes before its submission.
DeadlinePasses(w) ==
    /\ worker[w].pc = "submit"
    /\ Called(w, "TIMEOUT", "outcome")
    /\ Fault
    /\ UNCHANGED <<rows, ledger>>

\* before_submission: the intent, under the locks and the submission lease.
RecordProviderAttempt(w) ==
    /\ worker[w].pc = "submit"
    /\ \E short \in BOOLEAN :
          /\ ShortLease(short)
          /\ IF ExecutionIdentity(w) /\ ~short /\ Key(w) \notin intents
             THEN intents' = intents \cup {Key(w)} /\ Goto(w, "send")
             ELSE UNCHANGED intents
                  /\ Finish(w, IF ~ExecutionIdentity(w) THEN "fail"
                               ELSE IF short THEN "retry" ELSE "unknown")
    /\ UNCHANGED <<rows, calls, artifact, dropped, objects, submitted>>

\* External: the provider receives the request and answers.
ProviderAnswers(w) ==
    /\ submitted' = submitted \cup {Key(w)}
    /\ Store(w, "RESPONSE") /\ UNCHANGED faults

\* The request certainly did not leave: no credential, or no connection.
ProviderNotReached(w) ==
    UNCHANGED submitted /\ Called(w, "UNAVAILABLE", "outcome") /\ Fault

\* The connection broke after the request may have left.
SubmissionLost(w) ==
    /\ \E reached \in BOOLEAN :
          submitted' = IF reached THEN submitted \cup {Key(w)} ELSE submitted
    /\ Called(w, "UNKNOWN", "outcome") /\ Fault

SendRequest(w) ==
    /\ worker[w].pc = "send"
    /\ ProviderAnswers(w) \/ ProviderNotReached(w) \/ SubmissionLost(w)
    /\ UNCHANGED <<rows, intents, calls, artifact, dropped, objects>>

\* What a stored answer may be: an HTTP failure, content that is valid or
\* not, or an answer that was not complete or came too late.
HttpFailures == {"THROTTLED", "REJECTED"}
Contents == {"SUCCEEDED", "MALFORMED"}
LateOrIncomplete == {"UNKNOWN"}

ReadAnswer(w) ==
    /\ worker[w].pc = "received"
    /\ \E status \in HttpFailures \cup Contents \cup LateOrIncomplete :
          /\ Unless(status # "SUCCEEDED")
          /\ Called(w, status, IF status = "MALFORMED" /\ Len(Outcomes(w)) < MaxRepairs
                               THEN "repair" ELSE "outcome")
    /\ UNCHANGED <<rows, ledger>>

\* persist_completed_call: a malformed answer is recorded before its repair.
PersistCompletedCall(w) ==
    /\ worker[w].pc = "repair"
    /\ \E short \in BOOLEAN :
          /\ ShortLease(short)
          /\ IF ExecutionIdentity(w) /\ ~short /\ CallsBound(w)
             THEN StoreCalls(w) /\ Store(w, "REQUEST")
             ELSE UNCHANGED calls
                  /\ Finish(w, IF ExecutionIdentity(w) /\ short THEN "retry" ELSE "fail")
          /\ IF ExecutionIdentity(w) /\ short
             THEN Drops(CallKey(w, Len(Outcomes(w)))) ELSE UNCHANGED dropped
    /\ UNCHANGED <<rows, intents, artifact, objects, submitted>>

\* _persist_outcome of a failed analysis: only the brief is locked, and the
\* calls are kept whoever holds the operation now.
PersistFailure(w) ==
    /\ worker[w].pc = "outcome" /\ Last(w) # "SUCCEEDED"
    /\ IF retained /\ CallsBound(w)
       THEN /\ StoreCalls(w)
            /\ Finish(w, IF Last(w) = "UNKNOWN" THEN "unknown"
                         ELSE IF Last(w) \in Retryable THEN "retry" ELSE "fail")
       ELSE Finish(w, "fail") /\ UNCHANGED calls
    /\ UNCHANGED <<briefVars, intents, artifact, dropped, objects, submitted>>

\* _persist_outcome of a successful one: the calls, the version, the brief and
\* the workflow, unless its evidence is not of the sources.
PersistSuccess(w) ==
    /\ worker[w].pc = "outcome" /\ Last(w) = "SUCCEEDED"
    /\ \E grounded, review \in BOOLEAN :
       /\ Unless(~grounded)
       /\ IF grounded /\ ExecutionIdentity(w) /\ CallsBound(w)
          THEN LET v == NewVersion("MODEL", worker[w].op, review) IN
               /\ StoreCalls(w)
               /\ versions' = Append(versions, v)
               /\ brief' = PublishVersion(brief, v)
               /\ workflow' = IF v.required
                              THEN Moved("AWAITING_PRODUCT_CONFIRMATION", "confirm_product_brief")
                              ELSE Moved("RETRIEVING", "retrieve_references")
               /\ continuations' = IF v.required THEN continuations
                                   ELSE continuations \cup {Continuation(NextVersionNumber, FALSE)}
               /\ Finish(w, IF v.required THEN "wait" ELSE "success")
          ELSE Finish(w, "fail") /\ UNCHANGED <<calls, versions, brief, workflow, continuations>>
    /\ UNCHANGED <<retained, operations, confirmations, usable, intents, artifact, dropped, objects,
                   submitted>>

-----------------------------------------------------------------------------
(* reconcile *)

\* A worker takes over an operation whose outcome is unknown or whose lease
\* ended while it ran.
ClaimReconciliation(w) ==
    /\ worker[w].pc = "idle"
    /\ \E o \in DOMAIN operations :
          /\ operations[o].state \in {"RUNNING", "RECONCILING"} /\ operations[o].holder = Nobody
          /\ operations' = [operations EXCEPT ![o].state = "RECONCILING", ![o].holder = w]
          /\ worker' = [worker EXCEPT ![w] = [Idle EXCEPT !.pc = "inspect", !.op = o,
                                              !.attempt = operations[o].attempts]]
    /\ UNCHANGED <<workflow, retained, brief, versions, confirmations, continuations, usable,
                   faults, ledger>>

\* reconcile_artifact: one object, exactly as intended, makes the artifact
\* stored; without an object an intent stays, and anything else is unknown.
Inspected(k, kind, intact) ==
    CASE artifact[k][kind] \in {"none", "STORED"} -> artifact[k][kind]
      [] OTHER -> IF <<k, kind>> \in objects THEN IF intact THEN "STORED" ELSE "UNKNOWN"
                  ELSE artifact[k][kind]

\* What is left unresolved: a response, a request of unknown outcome, or an
\* intent nothing followed.
Unresolved(w, state) ==
    LET left(kind) == {state[k][kind] : k \in KeysOf(w)} \ {"none", "STORED"} IN
    IF left("RESPONSE") # {} THEN "response"
    ELSE IF "UNKNOWN" \in left("REQUEST") THEN "lost"
    ELSE IF left("REQUEST") # {} THEN "intended" ELSE "none"

InspectArtifacts(w) ==
    /\ worker[w].pc = "inspect"
    /\ \E intact \in BOOLEAN :
          /\ Unless(~intact)
          /\ artifact' = [k \in Keys |-> [kind \in Kinds |->
                IF k \in KeysOf(w) THEN Inspected(k, kind, intact) ELSE artifact[k][kind]]]
          /\ worker' = [worker EXCEPT ![w].pc = "decide", ![w].result = Unresolved(w, artifact')]
    /\ UNCHANGED <<rows, intents, calls, dropped, objects, submitted>>

\* The model version an operation produced, if any.
OutputOf(o) == {n \in DOMAIN versions : versions[n].source = "MODEL" /\ versions[n].operation = o}

SubmissionWithoutCall(w) == \E k \in KeysOf(w) \cap intents : calls[k] = "none"

\* The recorded calls of an attempt are a prefix; the last one decides.
LastCallIn(w, statuses) ==
    LET recorded == {k \in KeysOf(w) : calls[k] # "none"}
    IN  \E k \in recorded : calls[k] \in statuses /\ \A other \in recorded : other[3] <= k[3]

\* Mutant: an intent without a call is no longer asked for.
DecideFromCalls(w) ==
    IF worker[w].result \in {"response", "lost"} THEN "fail"
    ELSE IF worker[w].result = "intended" THEN "retry"
    ELSE IF OutputOf(worker[w].op) # {}
         THEN IF \E n \in OutputOf(worker[w].op) : versions[n].required THEN "wait" ELSE "success"
    ELSE IF \E k \in KeysOf(w) : calls[k] # "none"
         THEN IF LastCallIn(w, Retryable) THEN "retry" ELSE "fail"
    ELSE "retry"

\* What the ledger says of the attempt.
Decision(w) ==
    IF worker[w].result # "none"
    THEN IF worker[w].result # "intended" \/ SubmissionWithoutCall(w) THEN "fail" ELSE "retry"
    ELSE IF OutputOf(worker[w].op) # {}
         THEN IF \E n \in OutputOf(worker[w].op) : versions[n].required THEN "wait" ELSE "success"
    ELSE IF SubmissionWithoutCall(w) THEN "fail"
    ELSE IF \E k \in KeysOf(w) : calls[k] # "none"
         THEN IF LastCallIn(w, Retryable) THEN "retry" ELSE "fail"
    ELSE "retry"

Reconcile(w) ==
    /\ worker[w].pc = "decide"
    /\ Finish(w, Decision(w))
    /\ UNCHANGED <<briefVars, ledger>>

-----------------------------------------------------------------------------
(* The cancellation of the workflow *)

\* Mutant: a cancellation does not ask for submissions.
NeverIrreversible == FALSE

\* has_irreversible_provider_submission: an intent without a call whose
\* operation runs.
IrreversibleSubmission ==
    \E k \in intents : calls[k] = "none" /\ operations[k[1]].state = "RUNNING"

CancelWorkflow ==
    /\ workflow.status \notin Terminal
    /\ ~IrreversibleSubmission
    /\ workflow' = Moved("CANCELLED", workflow.node)
    /\ UNCHANGED <<retained, brief, versions, operations, confirmations, continuations, usable,
                   faults, ledger, worker>>

-----------------------------------------------------------------------------

ExecutorStep(w) ==
    \/ ClaimAnalysis(w) \/ BeginExecution(w) \/ AuthorizeImages(w) \/ StoreIntent(w)
    \/ WriteObject(w) \/ MarkArtifact(w) \/ DeadlinePasses(w) \/ RecordProviderAttempt(w)
    \/ SendRequest(w) \/ ReadAnswer(w) \/ PersistCompletedCall(w) \/ PersistFailure(w)
    \/ PersistSuccess(w) \/ ClaimReconciliation(w) \/ InspectArtifacts(w) \/ Reconcile(w)
    \/ Settle(w)

VisionNext ==
    \/ (ReviewerStep \/ Expire \/ RevokeSource) /\ UNCHANGED <<ledger, worker>>
    \/ CancelWorkflow
    \/ \E w \in Workers : ExecutorStep(w) \/ Crash(w)
    \/ LeaseExpires \/ ReplayAnalysis

VisionSpec == VisionInit /\ [][VisionNext]_visionVars

-----------------------------------------------------------------------------
(* Properties *)

\* A request is sent to the provider only when every earlier request of the
\* same operation has a recorded outcome other than unknown, an operator
\* reviewed it, or its answer was received and then given up because the lease
\* was too short to keep it: no crash, lost lease, lost write or lost answer
\* makes an executor pay for the same analysis blindly (execute,
\* _record_provider_attempt, _assert_submission_lease, reconcile).
NoBlindResubmission ==
    [][\A k \in submitted' \ submitted : \A earlier \in submitted :
          /\ earlier[1] = k[1]
          /\ earlier[2] > operations[k[1]].reviewed /\ k[2] > operations[k[1]].reviewed
          => calls[earlier] \notin {"none", "UNKNOWN"} \/ earlier \in dropped]_visionVars

\* While a submission is under way, its workflow is not taken from it: from
\* the intent to the recorded outcome of an attempt that runs, whoever holds its
\* lease, the workflow stays at the version the analysis expects
\* (has_irreversible_provider_submission, workflows.cancel).
SubmissionKeepsWorkflow ==
    \A k \in intents :
        LET op == operations[k[1]] IN
        calls[k] = "none" /\ k[2] = op.attempts /\ op.state = "RUNNING"
            => workflow.status = "UNDERSTANDING" /\ workflow.version = op.expected

\* The ledger never says more than the world: an artifact marked as stored is
\* in the object store, a recorded call has its stored request, a successful
\* one its stored response, and a model version its successful call.
LedgerSound ==
    /\ \A k \in Keys : \A kind \in Kinds :
          artifact[k][kind] = "STORED" => <<k, kind>> \in objects
    /\ \A k \in Keys : calls[k] # "none" =>
          /\ artifact[k]["REQUEST"] = "STORED"
          /\ calls[k] = "SUCCEEDED" => artifact[k]["RESPONSE"] = "STORED"
    /\ \A n \in DOMAIN versions : versions[n].source = "MODEL" =>
          \E k \in Keys : k[1] = versions[n].operation /\ calls[k] = "SUCCEEDED"

\* The workflow, the brief and the operation tell one story, however commands,
\* executions and reconciliations interleave: a workflow that waits for a
\* confirmation has a brief that awaits one, a workflow that went on has the
\* exact current version confirmed by policy or by a human, an operation that
\* waits or succeeded has its output, and a failed one has none.
StatesAgree ==
    /\ workflow.status = "AWAITING_PRODUCT_CONFIRMATION" => brief.state = "AWAITING_CONFIRMATION"
    /\ workflow.status = "RETRIEVING" =>
          /\ brief.state = "CONFIRMED" /\ brief.confirmed = brief.current
          /\ versions[brief.current].required => brief.current \in confirmations
    /\ workflow.status = "UNDERSTANDING" => brief.state \in {"NONE", "DRAFT"}
    /\ \A o \in DOMAIN operations :
          /\ operations[o].state \in {"WAITING_HUMAN", "SUCCEEDED"} =>
                \E n \in DOMAIN versions : versions[n].operation = o
          /\ operations[o].state = "FAILED" => OutputOf(o) = {}

-----------------------------------------------------------------------------
(* The inductive invariant *)

WorkflowRow ==
    [status : {"UNDERSTANDING", "AWAITING_PRODUCT_CONFIRMATION", "RETRIEVING", "CANCELLED"},
     node : {"understand_product", "confirm_product_brief", "retrieve_references"}, version : Nat]

ArtifactState == {"none", "INTENDED", "STORED", "UNKNOWN"}
Executing == {"begin", "source", "store", "write", "mark", "submit", "send", "received",
              "repair", "outcome"}
Executor ==
    [pc : Executing \cup {"idle", "inspect", "decide", "settle"},
     op : Nat, attempt : Nat, kind : Kinds, calls : Seq(CallStatus),
     result : {"none", "written", "refused", "lost", "success", "wait", "unknown", "retry", "fail",
               "response", "intended"}]

\* The columns, the ledger and the workers keep their types.
VisionTypes ==
    /\ BriefTypes /\ workflow \in WorkflowRow
    /\ intents \subseteq Keys /\ dropped \subseteq Keys
    /\ submitted \subseteq intents /\ objects \subseteq Keys \X Kinds
    /\ calls \in [Keys -> CallStatus \cup {"none"}]
    /\ artifact \in [Keys -> [Kinds -> ArtifactState]]
    /\ worker \in [Workers -> Executor]

Active(w) == worker[w].pc # "idle"
Executes(w) == worker[w].pc \in Executing

\* An attempt is executed within the budget, a worker works on an attempt that
\* was begun, and only a pending operation has none.
AttemptsBudgeted ==
    /\ \A o \in DOMAIN operations :
          LET op == operations[o] IN
          /\ op.attempts <= op.budget /\ op.budget <= MaxAttempts + MaxReplays
          /\ op.state \in {"PENDING", "RETRY"} => op.attempts < op.budget
          /\ op.attempts = 0 => op.state = "PENDING"
    /\ \A w \in Workers : Active(w) =>
          /\ worker[w].op \in DOMAIN operations
          /\ worker[w].attempt \in 1..operations[worker[w].op].attempts

\* Nothing is in the ledger of an attempt that was not begun.
Blank(k) == k \notin intents /\ calls[k] = "none" /\ \A kind \in Kinds : artifact[k][kind] = "none"
LedgerBegun ==
    \A k \in Keys :
        k[1] \notin DOMAIN operations \/ k[2] > operations[k[1]].attempts => Blank(k)

SameAttempt(v, w) == worker[v].op = worker[w].op /\ worker[v].attempt = worker[w].attempt

\* One worker executes an attempt, and once another one reconciles it, the
\* attempt does not run any more.
OneExecutor ==
    \A v, w \in Workers :
        v # w /\ Executes(v) /\ Active(w) /\ SameAttempt(v, w) =>
            /\ ~Executes(w)
            /\ OperationOf(w).attempts = worker[w].attempt => OperationOf(w).state # "RUNNING"

\* The calls of an executor that are recorded; the next one is under way.
Recorded(w) == IF worker[w].pc \in {"repair", "outcome"} THEN Len(worker[w].calls) - 1
               ELSE Len(worker[w].calls)

\* The submission under way has its intent.
Awaiting(w) ==
    \/ worker[w].pc \in {"send", "received"}
    \/ worker[w].pc \in {"store", "write", "mark"} /\ worker[w].kind = "RESPONSE"

\* What an executor finds in the ledger of its attempt: the recorded calls, all
\* of them malformed answers, the call under way, and nothing beyond it.
Progress(w) ==
    /\ Len(worker[w].calls) <= IF worker[w].pc = "outcome" THEN MaxRepairs + 1 ELSE MaxRepairs
    /\ worker[w].pc \in {"repair", "outcome"} => worker[w].calls # << >>
    /\ worker[w].pc \in {"begin", "source"} => worker[w].calls = << >>
    /\ worker[w].pc = "repair" => Last(w) = "MALFORMED"
    /\ \A i \in 1..Recorded(w) : worker[w].calls[i] = "MALFORMED"
    /\ \A k \in KeysOf(w) :
          /\ k[3] < Recorded(w) => calls[k] = "MALFORMED"
          /\ k[3] >= Recorded(w) => calls[k] = "none"
          /\ k[3] > Recorded(w) \/ worker[w].pc \in {"begin", "source"} => Blank(k)
          /\ k[3] = Recorded(w) =>
                /\ Awaiting(w) => k \in intents
                /\ ~Awaiting(w) /\ worker[w].pc \notin {"repair", "outcome"} => k \notin intents
                /\ Awaiting(w) \/ worker[w].pc \in {"submit", "repair", "outcome"} =>
                      artifact[k]["REQUEST"] = "STORED"

ExecutorsProgress == \A w \in Workers : Executes(w) => Progress(w)

\* The recorded calls of an attempt are a prefix of it, every one but the last a
\* malformed answer; an unknown one follows requests that were all stored.
OfAttempt(k, other) == k[1] = other[1] /\ k[2] = other[2]
CallsArePrefix ==
    \A k, other \in Keys : OfAttempt(k, other) =>
        /\ calls[k] # "none" /\ other[3] < k[3] => calls[other] = "MALFORMED"
        /\ calls[k] = "UNKNOWN" => artifact[other]["REQUEST"] \in {"none", "STORED"}

\* What was written is there.
WrittenExists ==
    \A w \in Workers : worker[w].pc = "mark" /\ worker[w].result = "written" =>
        <<Key(w), worker[w].kind>> \in objects

\* While a submission of the running attempt has no call, the brief is its own.
SubmissionKeepsBrief ==
    \A k \in intents :
        LET op == operations[k[1]] IN
        calls[k] = "none" /\ k[2] = op.attempts /\ op.state = "RUNNING"
            => brief.state = "DRAFT" /\ brief.operation = k[1]

\* The attempt that produced a version is the last one, was executed to its end
\* and left a complete ledger.
OutputIsFinal ==
    /\ \A n \in DOMAIN versions : versions[n].operation \in DOMAIN operations
    /\ brief.state # "NONE" => brief.operation \in DOMAIN operations
    /\ brief.state \in {"AWAITING_CONFIRMATION", "CONFIRMED"} => brief.current \in DOMAIN versions
    /\ \A o \in DOMAIN operations : OutputOf(o) # {} =>
          /\ operations[o].state \in {"RUNNING", "RECONCILING", "WAITING_HUMAN", "SUCCEEDED"}
          /\ \A k \in Keys : k[1] = o /\ k[2] = operations[o].attempts =>
                \A kind \in Kinds : artifact[k][kind] \in {"none", "STORED"}
          /\ \A w \in Workers : Executes(w) /\ worker[w].op = o =>
                worker[w].attempt # operations[o].attempts

\* The holder of the lease ends with what the versions say.
HolderKnowsOutput ==
    \A w \in Workers : Active(w) /\ Holds(w) =>
        /\ worker[w].pc = "decide" /\ OutputOf(worker[w].op) # {} => worker[w].result = "none"
        /\ worker[w].pc = "settle" =>
              IF worker[w].result \in {"success", "wait"}
              THEN \E n \in DOMAIN versions : versions[n].operation = worker[w].op
              ELSE OutputOf(worker[w].op) = {}

\* An executor has submitted a request whose outcome it cannot tell.
Uncertain(w) == Awaiting(w) \/ (worker[w].pc = "outcome" /\ Last(w) = "UNKNOWN")

\* Who found nothing but an intended request meets no unknown outcome.
IntendedMeansUnsent ==
    \A w \in Workers : worker[w].pc = "decide" /\ worker[w].result = "intended" =>
        /\ \A k \in KeysOf(w) : calls[k] # "UNKNOWN"
        /\ \A v \in Workers : Executes(v) /\ SameAttempt(v, w) => ~Uncertain(v)

\* Every submission of the attempt n of the operation o has a known outcome, or
\* an answer that was given up.
Resolved(o, n) ==
    \A k \in intents : k[1] = o /\ k[2] = n =>
        calls[k] \notin {"none", "UNKNOWN"} \/ k \in dropped

\* An operation is attempted again only when all its submissions are resolved or
\* were reviewed.
RetriedWhenResolved ==
    /\ \A o \in DOMAIN operations : \A n \in 1..operations[o].attempts :
          /\ n > operations[o].reviewed
          /\ n < operations[o].attempts \/ operations[o].state \in {"PENDING", "RETRY"}
          => Resolved(o, n)
    /\ \A w \in Workers : worker[w].pc = "settle" /\ worker[w].result = "retry" =>
          Resolved(worker[w].op, worker[w].attempt)

\* The attempt of a given-up answer was begun, and nobody executes it any more.
DroppedIsOver ==
    \A k \in dropped :
        /\ k[1] \in DOMAIN operations /\ k[2] <= operations[k[1]].attempts
        /\ \A w \in Workers : Executes(w) => k \notin KeysOf(w)

VisionInv ==
    /\ VisionTypes /\ AttemptsBudgeted /\ LedgerBegun /\ OneExecutor /\ ExecutorsProgress
    /\ CallsArePrefix /\ WrittenExists /\ LedgerSound
    /\ SubmissionKeepsWorkflow /\ SubmissionKeepsBrief
    /\ StatesAgree /\ OutputIsFinal /\ HolderKnowsOutput
    /\ IntendedMeansUnsent /\ RetriedWhenResolved
=============================================================================
