---------------------------- MODULE ProductBrief ----------------------------
(***************************************************************************)
(* The product brief of one image-generation workflow and the commands of   *)
(* its reviewers: request an analysis, revise the brief, confirm it.        *)
(*                                                                         *)
(* A brief is DRAFT while an analysis is under way, AWAITING_CONFIRMATION   *)
(* when a version asks for a human, CONFIRMED otherwise.  Every command     *)
(* locks the workflow row, then the brief, then its operation, and commits  *)
(* before the retention deadline, so a command is one step.  It names the   *)
(* exact versions its reviewer read; with any other it is refused, so only  *)
(* a command on the current rows is a step.                                 *)
(* Idempotency keys are the subject of module Idempotency.                  *)
(***************************************************************************)
EXTENDS Naturals, Sequences, FiniteSets

CONSTANTS
    Workers,          \* the workers that execute operations
    Nobody,           \* no worker holds the operation
    MaxOperations,    \* bound: the analyses and revisions of the brief
    MaxVersions,      \* bound: the versions of the brief
    MaxAttempts,      \* operation_max_attempts
    MaxFaults         \* bound: how often something goes wrong

ASSUME BriefAssumption ==
    /\ Nobody \notin Workers
    /\ MaxOperations \in Nat \ {0} /\ MaxVersions \in Nat \ {0} /\ MaxAttempts \in Nat \ {0}
    /\ MaxFaults \in Nat

VARIABLES
    workflow,         \* the workflow's status, current node and version
    retained,         \* now is before the retention deadline, the workflow ACTIVE
    brief,            \* the brief: state, version, versions, current operation
    versions,         \* the append-only versions of the brief
    operations,       \* the durable operations of the brief, with their analyses
    confirmations,    \* the versions a human confirmed
    continuations,    \* the events that ask for the workflow to go on
    usable,           \* the rights of the source assets allow the analysis
    faults            \* the faults so far

briefVars == <<workflow, retained, brief, versions, operations, confirmations,
               continuations, usable, faults>>

NoVersion == 0
NoOperation == 0

Terminal == {"CANCELLED", "FAILED", "COMPLETED"}
Settled == {"SUCCEEDED", "WAITING_HUMAN", "FAILED"}

-----------------------------------------------------------------------------
(* The rows *)

NoBrief == [state |-> "NONE", version |-> 0, current |-> NoVersion,
            confirmed |-> NoVersion, operation |-> NoOperation]

\* ProductBrief.create, with the operation the row is added with.
NewBrief(o) == [NoBrief EXCEPT !.state = "DRAFT", !.version = 1, !.operation = o]

\* The operation of an analysis and the workflow version its record expects.
NewOperation(target, expected) ==
    [kind |-> "ANALYSIS", state |-> "PENDING", attempts |-> 0, budget |-> MaxAttempts,
     holder |-> Nobody, target |-> target, expected |-> expected, reviewed |-> 0]

\* The operation of a revision: claimed, started and left waiting by the API.
RevisionOperation(target, expected) ==
    [kind |-> "REVISION", state |-> "WAITING_HUMAN", attempts |-> 1, budget |-> 1,
     holder |-> Nobody, target |-> target, expected |-> expected, reviewed |-> 0]

\* A human version always asks for a confirmation, a model version when a
\* field does.
ConfirmationRequired(source, review) == review \/ source = "HUMAN"

NewVersion(source, o, review) ==
    [source |-> source, operation |-> o, required |-> ConfirmationRequired(source, review)]

Moved(status, node) ==
    [workflow EXCEPT !.status = status, !.node = node, !.version = @ + 1]

BriefRow == [state : {"NONE", "DRAFT", "AWAITING_CONFIRMATION", "CONFIRMED"}, version : Nat,
             current : Nat, confirmed : Nat, operation : Nat]

\* An analysis request has one operation and an operation one request: they are
\* one row here, the target and the expected version the request's.
AnalysisRow ==
    [kind : {"ANALYSIS", "REVISION"},
     state : {"PENDING", "RUNNING", "RECONCILING", "RETRY", "FAILED", "WAITING_HUMAN", "SUCCEEDED"},
     attempts : Nat, budget : Nat, holder : Workers \cup {Nobody},
     target : Nat, expected : Nat, reviewed : Nat]

VersionRow == {v \in [source : {"MODEL", "HUMAN"}, operation : Nat, required : BOOLEAN] :
                  v.source = "HUMAN" => v.required}

\* A version is confirmed once.
ConfirmationRows == SUBSET (DOMAIN versions)

\* evaluate_product_brief_workflow_authority: the binding of a brief to its
\* workflow never changes, the retention does.
Authorized == retained

Continuation(number, approved) ==
    [version |-> number, approved |-> approved, expected |-> workflow.version + 1]

BriefInit ==
    /\ workflow = [status |-> "UNDERSTANDING", node |-> "understand_product", version |-> 3]
    /\ retained = TRUE /\ usable = TRUE /\ faults = 0
    /\ brief = NoBrief /\ versions = << >> /\ operations = << >>
    /\ confirmations = {} /\ continuations = {}

-----------------------------------------------------------------------------
(* The brief's transitions *)

NextVersionNumber == Len(versions) + 1

\* publish_version: the new version supersedes the current one.
PublishVersion(b, v) ==
    LET number == NextVersionNumber IN
    IF v.required
    THEN [b EXCEPT !.state = "AWAITING_CONFIRMATION", !.current = number, !.version = @ + 1]
    ELSE [b EXCEPT !.state = "CONFIRMED", !.current = number, !.confirmed = number,
                   !.version = @ + 1]

ReopenForAnalysis(b) == [b EXCEPT !.state = "DRAFT", !.version = @ + 1]

ConfirmBrief(b) == [b EXCEPT !.state = "CONFIRMED", !.confirmed = b.current, !.version = @ + 1]

\* reopen_for_analysis accepts only the exact confirmed version.
Reopenable(b) == b.state = "CONFIRMED" /\ b.current # NoVersion /\ b.current = b.confirmed

-----------------------------------------------------------------------------
(* The reviewers' commands *)

\* request_analysis of a workflow without a brief, or of a confirmed one whose
\* workflow still retrieves.
RequestAnalysis ==
    /\ Len(operations) < MaxOperations
    /\ Authorized /\ usable
    /\ LET o == Len(operations) + 1 IN
       \/ /\ brief = NoBrief /\ workflow.status = "UNDERSTANDING"
          /\ brief' = NewBrief(o)
          /\ operations' = Append(operations, NewOperation(1, workflow.version))
          /\ UNCHANGED workflow
       \/ /\ brief # NoBrief /\ workflow.status = "RETRIEVING" /\ Reopenable(brief)
          /\ brief' = [ReopenForAnalysis(brief) EXCEPT !.operation = o]
          /\ workflow' = Moved("UNDERSTANDING", "understand_product")
          /\ operations' = Append(operations,
                NewOperation(brief.version + 1, workflow.version + 1))
    /\ UNCHANGED <<retained, versions, confirmations, continuations, usable, faults>>

\* Mutant: a revision of a confirmed brief leaves the workflow where it is.
ReviseInPlace ==
    /\ Len(versions) < MaxVersions
    /\ Authorized
    /\ LET v == NewVersion("HUMAN", brief.operation, FALSE) IN
       /\ versions' = Append(versions, v)
       /\ \/ brief.state = "AWAITING_CONFIRMATION"
             /\ workflow.status = "AWAITING_PRODUCT_CONFIRMATION"
          \/ brief.state = "CONFIRMED" /\ workflow.status = "RETRIEVING"
       /\ brief' = PublishVersion(brief, v)
       /\ UNCHANGED <<workflow, operations>>
    /\ UNCHANGED <<retained, confirmations, continuations, usable, faults>>

\* revise: a human version of the exact current one.  Revising a confirmed
\* brief takes the workflow back to its confirmation, under an operation of
\* the revision's own.
Revise ==
    /\ Len(versions) < MaxVersions
    /\ Authorized
    /\ \/ LET v == NewVersion("HUMAN", brief.operation, FALSE) IN
          /\ brief.state = "AWAITING_CONFIRMATION"
          /\ workflow.status = "AWAITING_PRODUCT_CONFIRMATION"
          /\ versions' = Append(versions, v)
          /\ brief' = PublishVersion(brief, v)
          /\ UNCHANGED <<workflow, operations>>
       \/ LET o == Len(operations) + 1
              v == NewVersion("HUMAN", o, FALSE)
          IN
          /\ Len(operations) < MaxOperations
          /\ brief.state = "CONFIRMED" /\ workflow.status = "RETRIEVING"
          /\ versions' = Append(versions, v)
          /\ brief' = [PublishVersion(brief, v) EXCEPT !.operation = o]
          /\ workflow' = Moved("AWAITING_PRODUCT_CONFIRMATION", "confirm_product_brief")
          /\ operations' = Append(operations,
                RevisionOperation(brief.version + 1, workflow.version + 1))
    /\ UNCHANGED <<retained, confirmations, continuations, usable, faults>>

\* confirm: the exact current version, once, while its operation waits.
Confirm ==
    /\ Authorized
    /\ workflow.status = "AWAITING_PRODUCT_CONFIRMATION"
    /\ brief.current \notin confirmations
    /\ brief.state = "AWAITING_CONFIRMATION"
    /\ operations[brief.operation].state = "WAITING_HUMAN"
    /\ brief' = ConfirmBrief(brief)
    /\ workflow' = Moved("RETRIEVING", "retrieve_references")
    /\ operations' = [operations EXCEPT ![brief.operation].state = "SUCCEEDED"]
    /\ confirmations' = confirmations \cup {brief.current}
    /\ continuations' = continuations \cup {Continuation(brief.current, TRUE)}
    /\ UNCHANGED <<retained, versions, usable, faults>>

-----------------------------------------------------------------------------
(* The environment of the brief *)

Fault == faults < MaxFaults /\ faults' = faults + 1

\* A step with a choice, one side of which is a fault.
Unless(fault) == IF fault THEN Fault ELSE UNCHANGED faults

\* The retention deadline passes.
Expire ==
    /\ retained /\ retained' = FALSE
    /\ Fault
    /\ UNCHANGED <<workflow, brief, versions, operations, confirmations, continuations,
                   usable>>

\* The rights of a source asset are revoked.
RevokeSource ==
    /\ usable /\ usable' = FALSE
    /\ Fault
    /\ UNCHANGED <<workflow, retained, brief, versions, operations, confirmations,
                   continuations>>

ReviewerStep == RequestAnalysis \/ Revise \/ Confirm

BriefTypes ==
    /\ retained \in BOOLEAN /\ usable \in BOOLEAN /\ faults \in Nat
    /\ brief \in BriefRow /\ versions \in Seq(VersionRow) /\ operations \in Seq(AnalysisRow)
    /\ Len(operations) <= MaxOperations /\ confirmations \in ConfirmationRows

=============================================================================
