------------------------------ MODULE Planning ------------------------------
(***************************************************************************)
(* From the confirmed product brief of a workflow to the approved creative  *)
(* plan: the agent graph's nodes retrieve_references, create_plan and       *)
(* approve_plan, with their durable steps, the checkpoints of the graph,    *)
(* the append-only plan versions, the reviewers' edits and decisions, the   *)
(* events that start or resume the graph, and the recovery scan.            *)
(*                                                                         *)
(* A run of the graph is one worker's handling of one event.  Every         *)
(* transaction is a step of its own.  The graph hands a checkpoint to its   *)
(* saver after every node and goes on; the saver puts them in order and a   *)
(* crash loses those it has not put.  Checkpoints live in the namespace of  *)
(* a generation; the one made last is the one that is read.                *)
(*                                                                         *)
(* The nodes after the approval are the subject of modules ToolNode and     *)
(* Generation: here the run ends when execute_tool has claimed its step.    *)
(***************************************************************************)
EXTENDS ProductBrief, SequencesExt

CONSTANTS
    MaxIterations,    \* the rejections of a plan (_MAX_CREATIVE_PLAN_REJECTIONS)
    MaxSetbacks,      \* bound: the briefs revised, plans edited and plans rejected
    MaxGenerations,   \* bound: the claims of retrieval steps
    MaxRecoveries,    \* bound: the recovery events
    MaxDeliveries,    \* the deliveries after which an event is a dead letter
    MaxStepAttempts,  \* the claims a step that failed has (default_max_attempts)
    MaxBacklog        \* bound: the checkpoints a saver has not put while its run goes on

ASSUME PlanningAssumption ==
    /\ {MaxIterations, MaxSetbacks, MaxRecoveries} \subseteq Nat
    /\ {MaxGenerations, MaxDeliveries, MaxStepAttempts, MaxBacklog} \subseteq Nat \ {0}

VARIABLES
    steps,            \* the durable steps by key
    plans,            \* the versions of the creative plan; the last is the head
    approvals,        \* the reviewers' decisions on plans
    recoveries,       \* the run events of the recovery scan
    mail,             \* what became of the events that were published
    checkpoints,      \* the last checkpoint of every generation
    generations,      \* the generations so far
    run,              \* what every worker is doing
    executed          \* execute_tool has been started

planningVars == <<steps, plans, approvals, recoveries, mail, checkpoints, generations, run,
                  executed>>
vars == <<briefVars, planningVars>>

-----------------------------------------------------------------------------
(* Rows *)

RetrieveKey(n) == <<"retrieve_references", n>>
PlanKey(i) == <<"create_plan", i>>
ApproveKey(i) == <<"approve_plan", i>>
ExecuteKey == <<"execute_tool", 0>>

StepKeys == {RetrieveKey(n) : n \in 1..MaxVersions} \cup {ExecuteKey}
            \cup {PlanKey(i) : i \in 0..MaxIterations}
            \cup {ApproveKey(i) : i \in 0..MaxIterations}

NoStep == [status |-> "NONE", token |-> Nobody, live |-> FALSE, attempts |-> 0,
           expected |-> 0, output |-> 0, generation |-> 0]

StepTerminal(k) == steps[k].status \in {"SUCCEEDED", "FAILED", "CANCELLED"}

\* FixtureAgentState, as far as the nodes read it; next is the node to run.
\* decision: the decision the interrupted node is resumed with.
\* serial: the place of a checkpoint among those of its generation.
AgentState(next, version, number) ==
    [next |-> next, version |-> version, brief |-> number, iteration |-> 0, plan |-> 0,
     decision |-> 0, serial |-> 0]

NoCheckpoint == AgentState("none", 0, 0)

NoEvent == [kind |-> "none", number |-> 0, expected |-> 0, serial |-> 0]

\* The events that make a worker run the graph: a brief confirmed by its policy
\* or by a reviewer, a decision on a plan, a recovery.
ConfirmedEvent(c) ==
    [kind |-> IF c.approved THEN "approved" ELSE "policy", number |-> c.version,
     expected |-> c.expected, serial |-> 0]

ResumeEvent(a) ==
    [kind |-> "resume", number |-> a, expected |-> approvals[a].expected + 1, serial |-> 0]

RecoveryEvent(r) ==
    [kind |-> "recover", number |-> recoveries[r].number,
     expected |-> recoveries[r].expected, serial |-> r]

Events == {ConfirmedEvent(c) : c \in continuations}
          \cup {ResumeEvent(a) : a \in DOMAIN approvals}
          \cup {RecoveryEvent(r) : r \in DOMAIN recoveries}

\* The rows of an event in Outbox and Inbox: waiting to be published, sent, or
\* over, processed or dead, and the claims it has had.
NewMail == [status |-> "waiting", tries |-> 0]

\* An event that is over is not claimed any more, whatever became of it.
Ended == [status |-> "over", tries |-> 0]

MailOf(e) == IF e \in DOMAIN mail THEN mail[e] ELSE NewMail

SetMail(e, m) == mail' = [x \in DOMAIN mail \cup {e} |-> IF x = e THEN m ELSE mail[x]]

\* WorkflowStepModel; the output of a step is a brief version, a plan or a decision.
StepRow ==
    [status : {"NONE", "RUNNING", "WAITING_HUMAN", "SUCCEEDED", "RETRYABLE_FAILED", "FAILED",
               "CANCELLED"},
     token : Workers \cup {Nobody}, live : BOOLEAN, attempts : Nat, expected : Nat,
     output : Nat, generation : 0..MaxGenerations]

\* CreativePlanVersionModel; expected is the workflow version of the request.
PlanRow == [source : {"AGENT", "USER"}, brief : 1..MaxVersions, iteration : 0..MaxIterations,
            expected : Nat]

PlanVersion(source, number, iteration, expected) ==
    [source |-> source, brief |-> number, iteration |-> iteration, expected |-> expected]

\* ApprovalModel; expected is the workflow version the reviewer saw.
ApprovalRow == [decision : {"APPROVE", "REJECT"}, subject : Nat \ {0}, expected : Nat \ {0}]

\* AgentCheckpointModel: what a checkpoint says of the run.
CheckpointRow ==
    [next : {"none", "retrieve_references", "create_plan", "approve_plan", "execute_tool"},
     version : Nat, brief : 0..MaxVersions, iteration : 0..MaxIterations, plan : Nat,
     decision : Nat, serial : Nat]

PlanningTypes ==
    /\ steps \in [StepKeys -> StepRow] /\ plans \in Seq(PlanRow)
    /\ approvals \in Seq(ApprovalRow)
    /\ \A a \in DOMAIN approvals : approvals[a].subject \in DOMAIN plans
    /\ checkpoints \in [1..MaxGenerations -> CheckpointRow]
    /\ generations \in 0..MaxGenerations /\ executed \in BOOLEAN

\* owns: the Inbox claim of its event is still the worker's.
\* claimed: the workflow version of its node claim.  prior: the head it read.
Idle == [pc |-> "idle", event |-> NoEvent, owns |-> FALSE, generation |-> 0,
         state |-> NoCheckpoint, claimed |-> 0, prior |-> 0, resume |-> 0,
         saves |-> << >>, outcome |-> "none"]

\* A model version that needs no confirmation has been published.
PlanningInit ==
    /\ workflow = [status |-> "RETRIEVING", node |-> "retrieve_references", version |-> 4]
    /\ retained = TRUE /\ usable = TRUE /\ faults = 0
    /\ versions = <<NewVersion("MODEL", 1, FALSE)>>
    /\ brief = [NewBrief(1) EXCEPT !.state = "CONFIRMED", !.current = 1, !.confirmed = 1,
                                   !.version = 2]
    /\ operations = <<[NewOperation(1, 3) EXCEPT !.state = "SUCCEEDED", !.attempts = 1]>>
    /\ confirmations = {}
    /\ continuations = {[version |-> 1, approved |-> FALSE, expected |-> 4]}
    /\ steps = [k \in StepKeys |-> NoStep]
    /\ plans = << >> /\ approvals = << >> /\ recoveries = << >>
    /\ mail = << >>
    /\ checkpoints = [g \in 1..MaxGenerations |-> NoCheckpoint]
    /\ generations = 0
    /\ run = [w \in Workers |-> Idle]
    /\ executed = FALSE

-----------------------------------------------------------------------------
(* What the transactions share *)

PlanHead == Len(plans)

WorkflowTerminal == workflow.status \in Terminal

\* _product_brief_continuation_stale_reason for version n.
Stale(n) == ~(Authorized /\ brief.state = "CONFIRMED" /\ brief.current = n
              /\ brief.confirmed = n)

\* The same, for a transaction that expects a workflow version.
StaleAt(n, expected) == Stale(n) \/ workflow.version # expected

\* Workflow.transition: a step to the same status and node is none.
Transition(status, node) ==
    workflow' = IF workflow.status = status /\ workflow.node = node THEN workflow
                ELSE Moved(status, node)

Settle(k, status, output) ==
    [steps EXCEPT ![k] = [@ EXCEPT !.status = status, !.token = Nobody, !.live = FALSE,
                                   !.output = output]]

\* _cancel_stale_step: a step somebody else has claimed is left alone.
CancelStaleStep(k, token) ==
    steps' = IF StepTerminal(k) \/ steps[k].status = "NONE"
                \/ (steps[k].status = "RUNNING" /\ steps[k].token # token)
             THEN steps
             ELSE Settle(k, "CANCELLED", 0)

\* WorkflowStep.claim: who may have the step.
Claimable(k) ==
    \/ steps[k].status = "NONE"
    \/ steps[k].status = "RETRYABLE_FAILED" /\ steps[k].attempts < MaxStepAttempts
    \/ steps[k].status = "RUNNING" /\ ~steps[k].live

\* _begin_node_locked refuses: the workflow is over, a new step at another
\* version, a step that has a lease, has no attempts left or ended.
CannotBegin(k, expected) ==
    \/ WorkflowTerminal
    \/ steps[k].status = "NONE" /\ workflow.version # expected
    \/ ~Claimable(k)

ClaimedStep(w, k, generation) ==
    [status |-> "RUNNING", token |-> w, live |-> TRUE, attempts |-> steps[k].attempts + 1,
     expected |-> workflow'.version, output |-> 0, generation |-> generation]

HasLease(w, k) == steps[k].token = w /\ steps[k].live

\* The events of the scan and of a brief its policy confirmed ask for a run.
AsksForRun(e) == e.kind \in {"policy", "recover"}

\* OutboxRepository.has_unpublished.  An event that is retried waits again.
UnpublishedRun(except) ==
    \E e \in Events \ except : AsksForRun(e) /\ MailOf(e).status = "waiting"

-----------------------------------------------------------------------------
(* The handling of an event *)

Goto(w, pc) == run' = [run EXCEPT ![w].pc = pc]

\* Nothing is left of a run but its event and what its saver has not put yet; a
\* run whose claim of the event was taken over does not decide about it.
EndRun(w, outcome) ==
    run' = [run EXCEPT ![w] =
        [Idle EXCEPT !.pc = "ending", !.outcome = IF run[w].owns THEN outcome ELSE "done",
                     !.event = run[w].event, !.owns = run[w].owns, !.saves = run[w].saves,
                     !.generation = IF run[w].saves = << >> THEN 0 ELSE run[w].generation]]

\* The checkpoints of a generation that other runs have not put yet.
Unsaved(w, g) ==
    UNION {ToSet(run[v].saves) : v \in {u \in Workers \ {w} : run[u].generation = g}}

\* The checkpoint of the state s.  Its identifier is in the order of the making:
\* it comes after those of other runs.
NewCheckpoint(w, g, s) ==
    [s EXCEPT !.serial = 1 + Max({0} \cup {c.serial : c \in Unsaved(w, g)})]

\* A node has returned: the graph goes on in the state s and hands its saver a
\* checkpoint.
NodeReturns(w, s) ==
    /\ Len(run[w].saves) < MaxBacklog
    /\ run' = [run EXCEPT ![w] =
        [@ EXCEPT !.pc = s.next, !.state = s, !.claimed = 0, !.prior = 0,
                  !.saves = Append(@, NewCheckpoint(w, run[w].generation, s))]]

\* put of the checkpoint c; mine is what w is doing next.  The checkpoint that is
\* read is the last one made, not the last one put: the older ones of other runs
\* do not matter any more.
Put(w, c, mine) ==
    LET g == run[w].generation
        Newer(x) == x.serial > c.serial
    IN
    /\ checkpoints' = [checkpoints EXCEPT ![g] = [c EXCEPT !.serial = 0]]
    /\ run' = [v \in Workers |->
          IF v = w THEN mine
          ELSE IF run[v].generation = g THEN [run[v] EXCEPT !.saves = SelectSeq(@, Newer)]
          ELSE run[v]]

\* The publisher gives an event to the broker; of one that asks for no run
\* nobody sees whether it is published.
Publish(e) ==
    /\ AsksForRun(e) /\ MailOf(e).status = "waiting"
    /\ SetMail(e, [MailOf(e) EXCEPT !.status = "sent"])
    /\ UNCHANGED <<briefVars, steps, plans, approvals, recoveries, checkpoints, generations, run,
                   executed>>

Holders(e) == {v \in Workers : run[v].event = e /\ run[v].owns}

\* A worker that is free claims an event in the Inbox.  Every claim counts; the
\* one after the last makes the event dead.  The claim of a slow holder ends
\* and is taken over.
Receive(w, e) ==
    /\ run[w].pc = "idle"
    /\ MailOf(e).status = IF AsksForRun(e) \/ MailOf(e).tries > 0 THEN "sent" ELSE "waiting"
    /\ Unless(Holders(e) # {})
    /\ LET over == MailOf(e).tries >= MaxDeliveries IN
       /\ SetMail(e, IF over THEN Ended ELSE [status |-> "sent", tries |-> MailOf(e).tries + 1])
       /\ run' = [v \in Workers |->
             IF v = w /\ ~over THEN [Idle EXCEPT !.pc = "received", !.event = e, !.owns = TRUE]
             ELSE IF v \in Holders(e) THEN [run[v] EXCEPT !.owns = FALSE]
             ELSE run[v]]
    /\ UNCHANGED <<workflow, retained, brief, versions, operations, confirmations,
                   continuations, usable, steps, plans, approvals, recoveries, checkpoints,
                   generations, executed>>

\* A claim of the retrieval step makes a new generation of checkpoints.  A
\* refusal is raised before the graph is run: the event is tried again.
BeginRetrieval(w) ==
    LET e == run[w].event
        k == RetrieveKey(e.number)
        g == generations + 1
        s == AgentState("retrieve_references", workflow'.version, e.number)
    IN
    IF CannotBegin(k, e.expected)
    THEN EndRun(w, "retry") /\ UNCHANGED <<workflow, steps, generations>>
    ELSE /\ g <= MaxGenerations
         /\ Transition("RETRIEVING", "retrieve_references")
         /\ generations' = g
         /\ steps' = [steps EXCEPT ![k] = ClaimedStep(w, k, g)]
         /\ run' = [run EXCEPT ![w] =
               [@ EXCEPT !.pc = "retrieve_references", !.generation = g, !.state = s,
                         !.claimed = workflow'.version,
                         !.saves = <<NewCheckpoint(w, g, s)>>]]

\* The event is of a brief that is not current any more.
DropEvent(w) ==
    LET k == RetrieveKey(run[w].event.number) IN
    /\ CancelStaleStep(k, steps[k].token)
    /\ EndRun(w, "done")
    /\ UNCHANGED <<workflow, generations>>

\* claim_product_brief_continuation
ClaimContinuation(w) ==
    LET e == run[w].event IN
    /\ run[w].pc = "received" /\ e.kind \in {"policy", "approved"}
    /\ IF StaleAt(e.number, e.expected)
          \/ workflow.status # "RETRIEVING" \/ workflow.node # "retrieve_references"
       THEN DropEvent(w)
       ELSE BeginRetrieval(w)
    /\ UNCHANGED <<retained, brief, versions, operations, confirmations, continuations,
                   usable, faults, plans, approvals, recoveries, mail, checkpoints, executed>>

\* recover_product_brief_continuation: a run that was at its retrieval claims
\* the step again; a later one goes on in the generation of the retrieval.
RecoverContinuation(w) ==
    LET e == run[w].event
        k == RetrieveKey(e.number)
    IN
    /\ run[w].pc = "received" /\ e.kind = "recover"
    /\ \/ Stale(e.number) /\ DropEvent(w)
       \/ /\ ~Stale(e.number) /\ workflow.version # e.expected
          /\ EndRun(w, "done") /\ UNCHANGED <<workflow, steps, generations>>
       \/ /\ ~StaleAt(e.number, e.expected) /\ workflow.node = "retrieve_references"
          /\ BeginRetrieval(w)
       \/ /\ ~StaleAt(e.number, e.expected) /\ workflow.node # "retrieve_references"
          /\ IF steps[k].status = "SUCCEEDED"
             THEN run' = [run EXCEPT ![w].pc = "load", ![w].generation = steps[k].generation]
             ELSE EndRun(w, "dead")
          /\ UNCHANGED <<workflow, steps, generations>>
    /\ UNCHANGED <<retained, brief, versions, operations, confirmations, continuations,
                   usable, faults, plans, approvals, recoveries, mail, checkpoints, executed>>

\* A recovered run goes on from its checkpoint; without one it would need a
\* live lease of the retrieval.
LoadCheckpoint(w) ==
    LET s == checkpoints[run[w].generation] IN
    /\ run[w].pc = "load"
    /\ run' = [run EXCEPT ![w] =
          IF s = NoCheckpoint THEN [@ EXCEPT !.pc = "ending", !.outcome = "raised"]
          ELSE [@ EXCEPT !.pc = s.next, !.state = s, !.claimed = s.version]]
    /\ UNCHANGED <<briefVars, steps, plans, approvals, recoveries, mail, checkpoints,
                   generations, executed>>

\* The saver puts the oldest checkpoint it was handed, while the graph goes on.
SaveCheckpoint(w) ==
    /\ run[w].saves # << >> /\ run[w].pc # "ending"
    /\ Put(w, run[w].saves[1], [run[w] EXCEPT !.saves = Tail(@)])
    /\ UNCHANGED <<briefVars, steps, plans, approvals, recoveries, mail, generations, executed>>

\* The graph returns or raises when its saver has put its checkpoints.
Flush(w, mine) ==
    IF run[w].saves # << >> THEN Put(w, Last(run[w].saves), mine)
    ELSE run' = [run EXCEPT ![w] = mine] /\ UNCHANGED checkpoints

\* _workflow_outcome_was_durably_recorded: an error of the graph is dropped when
\* the workflow is over or another run was asked for.
JudgeError(w) ==
    LET e == run[w].event
        outcome == IF WorkflowTerminal \/ UnpublishedRun({e}) THEN "done" ELSE "retry"
    IN
    /\ run[w].pc = "ending" /\ run[w].outcome = "raised"
    /\ Flush(w, [run[w] EXCEPT !.outcome = outcome, !.saves = << >>, !.generation = 0])
    /\ UNCHANGED <<briefVars, steps, plans, approvals, recoveries, mail, generations, executed>>

\* mark_processed, mark_permanent_failed or schedule_retry, by the worker whose
\* claim of the event it still is.
Finish(w) ==
    LET e == run[w].event
        after == CASE run[w].outcome \in {"done", "dead"} -> Ended
                   [] run[w].outcome = "retry" ->
                        [MailOf(e) EXCEPT !.status = IF AsksForRun(e) THEN "waiting" ELSE "sent"]
    IN
    /\ run[w].pc = "ending" /\ run[w].outcome # "raised"
    /\ Flush(w, Idle)
    /\ IF run[w].owns THEN SetMail(e, after) ELSE UNCHANGED mail
    /\ UNCHANGED <<briefVars, steps, plans, approvals, recoveries, generations, executed>>

-----------------------------------------------------------------------------
(* complete_node of retrieve_references and of create_plan *)

\* Mutant: a completion does not ask whether its brief is still current.
CompletionAlways(w, k) == FALSE

\* A completed step asks only for the brief, a running one also for the
\* version its claim saw.
CompletionStale(w, k) ==
    IF steps[k].status = "SUCCEEDED" THEN Stale(run[w].state.brief)
    ELSE StaleAt(run[w].state.brief, run[w].claimed)

\* The node of the step k is completed with an output, and the workflow moves
\* to its next node; s is the state of the graph after the node.
CompleteNode(w, k, output, status, next, s) ==
    \/ /\ CompletionStale(w, k)
       /\ CancelStaleStep(k, w) /\ EndRun(w, "done") /\ UNCHANGED workflow
    \/ /\ ~CompletionStale(w, k) /\ steps[k].status = "SUCCEEDED"
       /\ NodeReturns(w, [s EXCEPT !.version = workflow.version])
       /\ UNCHANGED <<workflow, steps>>
    \/ /\ ~CompletionStale(w, k) /\ steps[k].status # "SUCCEEDED"
       /\ IF HasLease(w, k)
          THEN /\ steps' = Settle(k, "SUCCEEDED", output)
               /\ workflow' = Moved(status, next)
               /\ NodeReturns(w, [s EXCEPT !.version = workflow'.version])
          ELSE EndRun(w, "raised") /\ UNCHANGED <<workflow, steps>>

\* retrieve_references, whose step was claimed with the event.
CompleteRetrieval(w) ==
    LET s == run[w].state IN
    /\ run[w].pc = "retrieve_references"
    /\ CompleteNode(w, RetrieveKey(s.brief), 0, "PLANNING", "create_plan",
                    [s EXCEPT !.next = "create_plan"])
    /\ UNCHANGED <<retained, brief, versions, operations, confirmations, continuations,
                   usable, faults, plans, approvals, recoveries, mail, checkpoints,
                   generations, executed>>

-----------------------------------------------------------------------------
(* create_plan *)

\* begin_node of create_plan: a plan that is there is not made again.
BeginPlan(w) ==
    LET s == run[w].state
        k == PlanKey(s.iteration)
    IN
    /\ run[w].pc = "create_plan"
    /\ \/ Stale(s.brief) /\ EndRun(w, "done") /\ UNCHANGED <<workflow, steps>>
       \/ /\ ~Stale(s.brief) /\ ~WorkflowTerminal /\ steps[k].status = "SUCCEEDED"
          /\ NodeReturns(w, [s EXCEPT !.next = "approve_plan", !.plan = steps[k].output,
                                      !.version = workflow.version])
          /\ UNCHANGED <<workflow, steps>>
       \/ /\ ~Stale(s.brief) /\ steps[k].status # "SUCCEEDED" /\ ~CannotBegin(k, s.version)
          /\ Transition("PLANNING", "create_plan")
          /\ steps' = [steps EXCEPT ![k] = ClaimedStep(w, k, 0)]
          /\ run' = [run EXCEPT ![w].pc = "read", ![w].claimed = workflow'.version]
       \/ /\ ~Stale(s.brief)
          /\ WorkflowTerminal \/ (steps[k].status # "SUCCEEDED" /\ CannotBegin(k, s.version))
          /\ EndRun(w, "raised") /\ UNCHANGED <<workflow, steps>>
    /\ UNCHANGED <<retained, brief, versions, operations, confirmations, continuations,
                   usable, faults, plans, approvals, recoveries, mail, checkpoints,
                   generations, executed>>

\* The workflow takes plan versions of the planner.
PlanningWrite == workflow.status = "PLANNING" /\ workflow.node = "create_plan"

\* The planner's own errors fail the node; a transition that is not legal
\* is not among them.
Refused(w) ==
    IF workflow.version # run[w].claimed THEN Goto(w, "fail") ELSE EndRun(w, "raised")

\* _validate_replay: the version the planner would have made, made by a planner.
ReplayOf(w, number) ==
    /\ PlanHead = number
    /\ plans[number].source = "AGENT" /\ plans[number].brief = run[w].state.brief

\* The planner has its version.
Planned(w, number) == run' = [run EXCEPT ![w].pc = "planned", ![w].prior = number]

\* SqlAlchemyFixturePlannerAuthority.load
AuthorityHolds(w) == workflow.version = run[w].claimed /\ PlanningWrite /\ Authorized

\* DurableFixturePlanner._create_plan loads its authority and then reads the
\* head: an earlier run of the node may have made the version already.
ReadHead(w) ==
    LET prior == run[w].state.plan
        current == AuthorityHolds(w) /\ ~Stale(run[w].state.brief)
    IN
    /\ run[w].pc = "read"
    /\ \/ ~AuthorityHolds(w) /\ Refused(w)
       \/ /\ current /\ PlanHead = prior
          /\ run' = [run EXCEPT ![w].pc = "context", ![w].prior = PlanHead]
       \/ current /\ PlanHead # prior /\ ReplayOf(w, prior + 1) /\ Planned(w, PlanHead)
       \/ /\ AuthorityHolds(w)
          /\ Stale(run[w].state.brief) \/ (PlanHead # prior /\ ~ReplayOf(w, prior + 1))
          /\ Goto(w, "fail")
    /\ UNCHANGED <<briefVars, steps, plans, approvals, recoveries, mail, checkpoints,
                   generations, executed>>

\* load_authorized_source: the brief the context is built from, with nothing
\* of a brand profile and no citation, as the planner asks for none.
ContextSource(n) == ~Stale(n)

\* PlanningContextApplicationService.build: the snapshot is stored under its
\* hash, so the same snapshot again changes nothing.
BuildContext(w) ==
    /\ run[w].pc = "context"
    /\ IF ContextSource(run[w].state.brief) THEN Goto(w, "append") ELSE Goto(w, "fail")
    /\ UNCHANGED <<briefVars, steps, plans, approvals, recoveries, mail, checkpoints,
                   generations, executed>>

\* The head is locked and must be the one the writer read.
HeadIs(prior) == PlanHead = prior

\* append_version: the new version is the head.
AppendVersion(plan) == plans' = Append(plans, plan)

\* The plan the deterministic planner drafts from the context and the prompt.
Draft(s, claimed) == PlanVersion("AGENT", s.brief, s.iteration, claimed)

\* _require_provenance_authority: the brief named by a version is still current.
ProvenanceHolds(n) == ~Stale(n)

\* The first version is made under the idempotency key of the step, by a request
\* that names the brief and the version of the workflow.
MadeBefore(w) == run[w].prior = 0 /\ PlanHead # 0

SameRequest(w) == plans[1].brief = run[w].state.brief /\ plans[1].expected = run[w].claimed

\* create_plan and _append_authorized: a first version written under the step's
\* key is returned again to the same request; another request raises a conflict
\* that is not the planner's own.
StorePlan(w, plan) ==
    LET accepted == HeadIs(run[w].prior) /\ ProvenanceHolds(plan.brief) IN
    \/ MadeBefore(w) /\ SameRequest(w) /\ Planned(w, 1) /\ UNCHANGED plans
    \/ MadeBefore(w) /\ ~SameRequest(w) /\ EndRun(w, "raised") /\ UNCHANGED plans
    \/ ~MadeBefore(w) /\ ~AuthorityHolds(w) /\ Refused(w) /\ UNCHANGED plans
    \/ /\ ~MadeBefore(w) /\ AuthorityHolds(w) /\ accepted
       /\ AppendVersion(plan) /\ Planned(w, PlanHead + 1)
    \/ /\ ~MadeBefore(w) /\ AuthorityHolds(w) /\ ~accepted
       /\ Goto(w, "fail") /\ UNCHANGED plans

\* The production prompt is resolved, the plan drafted and stored.  The prompt
\* may be missing, or superseded when the plan is stored.
AppendPlan(w) ==
    /\ run[w].pc = "append"
    /\ \/ StorePlan(w, Draft(run[w].state, run[w].claimed)) /\ UNCHANGED faults
       \/ Fault /\ Goto(w, "fail") /\ UNCHANGED plans
    /\ UNCHANGED <<workflow, retained, brief, versions, operations, confirmations,
                   continuations, usable, steps, approvals, recoveries, mail, checkpoints,
                   generations, executed>>

\* complete_node of create_plan
CompletePlan(w) ==
    LET s == run[w].state IN
    /\ run[w].pc = "planned"
    /\ CompleteNode(w, PlanKey(s.iteration), run[w].prior, "AWAITING_PLAN_APPROVAL",
                    "approve_plan", [s EXCEPT !.next = "approve_plan", !.plan = run[w].prior])
    /\ UNCHANGED <<retained, brief, versions, operations, confirmations, continuations,
                   usable, faults, plans, approvals, recoveries, mail, checkpoints,
                   generations, executed>>

\* fail_node of create_plan, which is never retried.
FailNode(w) ==
    LET s == run[w].state
        k == PlanKey(s.iteration)
        stale == StaleAt(s.brief, run[w].claimed)
    IN
    /\ run[w].pc = "fail"
    /\ \/ stale /\ CancelStaleStep(k, w) /\ EndRun(w, "done") /\ UNCHANGED workflow
       \/ /\ ~stale /\ HasLease(w, k)
          /\ steps' = Settle(k, "FAILED", 0)
          /\ workflow' = Moved("FAILED", workflow.node)
          /\ EndRun(w, "raised")
       \/ ~stale /\ ~HasLease(w, k) /\ EndRun(w, "raised") /\ UNCHANGED <<workflow, steps>>
    /\ UNCHANGED <<retained, brief, versions, operations, confirmations, continuations,
                   usable, faults, plans, approvals, recoveries, mail, checkpoints,
                   generations, executed>>

-----------------------------------------------------------------------------
(* approve_plan *)

\* The human decided: an approved plan is executed, a rejected one revised.
AfterDecision(s, a) ==
    IF approvals[a].decision = "APPROVE"
    THEN [s EXCEPT !.next = "execute_tool", !.version = approvals[a].expected + 1,
                   !.decision = 0]
    ELSE [s EXCEPT !.next = "create_plan", !.version = approvals[a].expected + 1,
                   !.iteration = @ + 1, !.decision = 0]

\* begin_human_wait.  Without a decision the graph is interrupted and its run
\* ends; a decision must be on the version the step waits at.
BeginHumanWait(w) ==
    LET s == run[w].state
        k == ApproveKey(s.iteration)
        new == steps[k].status = "NONE"
        at == IF new THEN workflow.version ELSE steps[k].expected
        a == s.decision
    IN
    /\ run[w].pc = "approve_plan"
    /\ \/ Stale(s.brief) /\ EndRun(w, "done") /\ UNCHANGED steps
       \/ /\ ~Stale(s.brief) /\ steps[k].status = "SUCCEEDED"
          /\ NodeReturns(w, AfterDecision(s, steps[k].output))
          /\ UNCHANGED steps
       \/ /\ ~Stale(s.brief)
          /\ steps[k].status \in {"FAILED", "CANCELLED"} \/ (new /\ workflow.version # s.version)
          /\ EndRun(w, "raised") /\ UNCHANGED steps
       \/ /\ ~Stale(s.brief)
          /\ steps[k].status = "WAITING_HUMAN" \/ (new /\ workflow.version = s.version)
          /\ steps' = [steps EXCEPT ![k].status = "WAITING_HUMAN", ![k].expected = at]
          /\ \/ a = 0 /\ EndRun(w, "done")
             \/ a # 0 /\ approvals[a].expected = at /\ Goto(w, "decided")
             \/ a # 0 /\ approvals[a].expected # at /\ EndRun(w, "raised")
    /\ UNCHANGED <<briefVars, plans, approvals, recoveries, mail, checkpoints, generations,
                   executed>>

\* complete_human_wait, whose transaction expects the version of the decision.
CompleteHumanWait(w) ==
    LET s == run[w].state
        k == ApproveKey(s.iteration)
        a == s.decision
        stale == StaleAt(s.brief, approvals[a].expected + 1)
    IN
    /\ run[w].pc = "decided"
    /\ \/ stale /\ CancelStaleStep(k, Nobody) /\ EndRun(w, "done")
       \/ /\ ~stale
          /\ steps' = IF steps[k].status = "WAITING_HUMAN" THEN Settle(k, "SUCCEEDED", a)
                      ELSE steps
          /\ IF steps[k].status \in {"WAITING_HUMAN", "SUCCEEDED"}
             THEN NodeReturns(w, AfterDecision(s, a))
             ELSE EndRun(w, "raised")
    /\ UNCHANGED <<briefVars, plans, approvals, recoveries, mail, checkpoints, generations,
                   executed>>

\* begin_node of execute_tool.
BeginExecution(w) ==
    LET s == run[w].state IN
    /\ run[w].pc = "execute_tool"
    /\ \/ Stale(s.brief) /\ EndRun(w, "done") /\ UNCHANGED <<workflow, steps, executed>>
       \/ /\ ~Stale(s.brief) /\ CannotBegin(ExecuteKey, s.version)
          /\ EndRun(w, "raised") /\ UNCHANGED <<workflow, steps, executed>>
       \/ /\ ~Stale(s.brief) /\ ~CannotBegin(ExecuteKey, s.version)
          /\ Transition("GENERATING", "execute_tool")
          /\ steps' = [steps EXCEPT ![ExecuteKey] = ClaimedStep(w, ExecuteKey, 0)]
          /\ executed' = TRUE
          /\ EndRun(w, "done")
    /\ UNCHANGED <<retained, brief, versions, operations, confirmations, continuations,
                   usable, faults, plans, approvals, recoveries, mail, checkpoints, generations>>

-----------------------------------------------------------------------------
(* The reviewers *)

Rejections == {a \in DOMAIN approvals : approvals[a].decision = "REJECT"}

Setbacks == Len(versions) - 1 + Cardinality(Rejections)
            + Cardinality({p \in DOMAIN plans : plans[p].source = "USER"})

\* Mutant: a user may edit the plan in every status of the workflow.
AcceptsAnyEdit == ~WorkflowTerminal

\* A user edits a plan under review; while one is being made nobody asks
\* who writes.
AcceptsEdit ==
    \/ PlanningWrite
    \/ workflow.status = "AWAITING_PLAN_APPROVAL" /\ workflow.node = "approve_plan"

\* revise_by_user
RevisedByUser(plan) == PlanVersion("USER", plan.brief, plan.iteration, workflow.version)

\* revise_plan: the edit keeps the provenance of the version it supersedes.
RevisePlan ==
    /\ PlanHead # 0 /\ Setbacks < MaxSetbacks
    /\ Authorized /\ AcceptsEdit
    /\ ProvenanceHolds(plans[PlanHead].brief)
    /\ AppendVersion(RevisedByUser(plans[PlanHead]))
    /\ UNCHANGED <<briefVars, steps, approvals, recoveries, mail, checkpoints, generations,
                   run, executed>>

\* _validate_creative_plan_subject, for the exact head.
MayDecide(decision) ==
    /\ PlanHead # 0 /\ Authorized
    /\ decision = "APPROVE" => \A a \in Rejections : approvals[a].subject # PlanHead
    /\ decision = "REJECT" => Cardinality(Rejections) < MaxIterations

\* The decision names the head and the version of the workflow it was made on.
NewApproval(decision) ==
    [decision |-> decision, subject |-> PlanHead, expected |-> workflow.version]

\* approve and reject: the workflow moves on and an event resumes the graph.
Decide(decision) ==
    /\ workflow.status = "AWAITING_PLAN_APPROVAL"
    /\ MayDecide(decision)
    /\ decision = "REJECT" => Setbacks < MaxSetbacks
    /\ approvals' = Append(approvals, NewApproval(decision))
    /\ workflow' = Moved(IF decision = "APPROVE" THEN "GENERATING" ELSE "PLANNING",
                         workflow.node)
    /\ UNCHANGED <<retained, brief, versions, operations, confirmations, continuations,
                   usable, faults, steps, plans, recoveries, mail, checkpoints, generations,
                   run, executed>>

\* validate_creative_plan_resume_claim
ResumeValid(a) ==
    /\ workflow.status = IF approvals[a].decision = "APPROVE" THEN "GENERATING" ELSE "PLANNING"
    /\ workflow.node = "approve_plan"
    /\ workflow.version = approvals[a].expected + 1
    /\ Authorized
    /\ approvals[a].subject = PlanHead

\* authorize_plan: the policy decides on every tool of an approved plan, from
\* the entitlements of its workspace; a plan that was rejected asks for none.
ToolVerdicts(a) ==
    IF approvals[a].decision = "APPROVE" THEN {"allowed", "denied"} ELSE {"allowed"}

\* The event of a decision is checked against the database and the tools of the
\* plan are authorized.  A tool the policy denies makes the event dead.
ResumeWorkflow(w) ==
    LET a == run[w].event.number IN
    /\ run[w].pc = "received" /\ run[w].event.kind = "resume"
    /\ \E verdict \in ToolVerdicts(a) :
          IF ResumeValid(a) /\ verdict = "allowed"
          THEN run' = [run EXCEPT ![w].pc = "match", ![w].resume = a]
          ELSE EndRun(w, "dead")
    /\ UNCHANGED <<briefVars, steps, plans, approvals, recoveries, mail, checkpoints,
                   generations, executed>>

\* _checkpoint_matches_resume: the checkpoint of the version that was decided
\* on, or of one a user has superseded since.
Matching(a) ==
    {g \in 1..MaxGenerations :
        /\ checkpoints[g].version = approvals[a].expected
        /\ checkpoints[g].plan \in 1..approvals[a].subject}

\* _resume_checkpoint_namespace: exactly one generation must match.  The graph
\* goes on from it with the decision and the plan version the database names,
\* which it hands to its saver first.
MatchCheckpoint(w) ==
    LET a == run[w].resume IN
    /\ run[w].pc = "match"
    /\ \/ /\ workflow.version = approvals[a].expected + 1
          /\ \E g \in Matching(a) :
                /\ Matching(a) = {g}
                /\ LET s == [checkpoints[g] EXCEPT !.plan = approvals[a].subject, !.decision = a]
                   IN run' = [run EXCEPT ![w] =
                         [@ EXCEPT !.pc = "approve_plan", !.resume = 0, !.generation = g,
                                   !.state = s, !.saves = <<NewCheckpoint(w, g, s)>>]]
       \/ /\ workflow.version # approvals[a].expected + 1 \/ Cardinality(Matching(a)) # 1
          /\ EndRun(w, "dead")
    /\ UNCHANGED <<briefVars, steps, plans, approvals, recoveries, mail, checkpoints,
                   generations, executed>>

-----------------------------------------------------------------------------
(* The scheduler, the clock and the faults *)

CancelAll == [k \in StepKeys |->
                IF StepTerminal(k) \/ steps[k].status = "NONE" THEN steps[k]
                ELSE Settle(k, "CANCELLED", 0)[k]]

\* _run_event, unless a run is already asked for.
AskForRun(expected) ==
    IF UnpublishedRun({}) THEN UNCHANGED recoveries
    ELSE /\ Len(recoveries) < MaxRecoveries
         /\ recoveries' = Append(recoveries,
               [number |-> brief.current, expected |-> expected])

\* _resolve_product_brief_generation: a retrieval step is of its own brief
\* version, any other step of the current one.
Resolved(k) == ~Stale(IF k[1] = "retrieve_references" THEN k[2] ELSE brief.current)

\* list_expired_leases
LeaseExpired(k) == steps[k].status = "RUNNING" /\ ~steps[k].live

\* recover_once, first loop: a step whose lease has expired.
RecoverStep(k) ==
    /\ LeaseExpired(k) /\ k # ExecuteKey
    /\ IF Resolved(k)
       THEN steps' = Settle(k, "RETRYABLE_FAILED", 0) /\ AskForRun(steps[k].expected)
       ELSE steps' = Settle(k, "CANCELLED", 0) /\ UNCHANGED recoveries
    /\ UNCHANGED <<briefVars, plans, approvals, mail, checkpoints, generations, run, executed>>

\* list_recoverable: a workflow that is not over, waits for no human and has not
\* moved for long, as nobody or only a slow worker runs it.
Recoverable ==
    /\ Unless(\E w \in Workers : run[w].pc # "idle")
    /\ ~WorkflowTerminal
    /\ workflow.status \notin {"AWAITING_PRODUCT_CONFIRMATION", "AWAITING_PLAN_APPROVAL",
                                "AWAITING_RESULT_APPROVAL"}

\* recover_once, second loop; a workflow that executes its tools is ToolNode's.
RecoverWorkflow ==
    /\ Recoverable /\ workflow.node # "execute_tool"
    /\ IF Stale(brief.current)
       THEN steps' = CancelAll /\ UNCHANGED recoveries
       ELSE ~UnpublishedRun({}) /\ AskForRun(workflow.version) /\ UNCHANGED steps
    /\ UNCHANGED <<workflow, retained, brief, versions, operations, confirmations,
                   continuations, usable, plans, approvals, mail, checkpoints, generations,
                   run, executed>>

\* WorkflowApplicationService.cancel
CancelWorkflow ==
    /\ ~WorkflowTerminal /\ Fault
    /\ workflow' = Moved("CANCELLED", "none")
    /\ steps' = CancelAll
    /\ UNCHANGED <<retained, brief, versions, operations, confirmations, continuations,
                   usable, plans, approvals, recoveries, mail, checkpoints, generations, run,
                   executed>>

\* The lease of a step ends: its worker is gone, or slow.
LeaseEnds(k) ==
    /\ steps[k].status = "RUNNING" /\ steps[k].live
    /\ Unless(run[steps[k].token].pc # "idle")
    /\ steps' = [steps EXCEPT ![k].live = FALSE]
    /\ UNCHANGED <<workflow, retained, brief, versions, operations, confirmations,
                   continuations, usable, plans, approvals, recoveries, mail, checkpoints,
                   generations, run, executed>>

\* A worker dies with the checkpoints its saver has not put.
Crash(w) ==
    /\ run[w].pc # "idle" /\ Fault
    /\ run' = [run EXCEPT ![w] = Idle]
    /\ UNCHANGED <<workflow, retained, brief, versions, operations, confirmations,
                   continuations, usable, steps, plans, approvals, recoveries, mail,
                   checkpoints, generations, executed>>

-----------------------------------------------------------------------------
(* The specification *)

WorkerStep(w) ==
    \/ run[w].pc = "idle" /\ \E e \in Events : Receive(w, e)
    \/ ClaimContinuation(w) \/ RecoverContinuation(w) \/ ResumeWorkflow(w)
    \/ LoadCheckpoint(w) \/ SaveCheckpoint(w) \/ JudgeError(w) \/ Finish(w)
    \/ CompleteRetrieval(w)
    \/ BeginPlan(w) \/ ReadHead(w) \/ BuildContext(w) \/ AppendPlan(w)
    \/ CompletePlan(w) \/ FailNode(w)
    \/ MatchCheckpoint(w) \/ BeginHumanWait(w) \/ CompleteHumanWait(w) \/ BeginExecution(w)

SchedulerStep ==
    \/ \E e \in Events : Publish(e)
    \/ \E k \in StepKeys : RecoverStep(k) \/ LeaseEnds(k)
    \/ RecoverWorkflow

\* The model ends with the start of execute_tool.
Next ==
    /\ ~executed
    /\ \/ ((Setbacks < MaxSetbacks /\ Revise) \/ Confirm \/ Expire) /\ UNCHANGED planningVars
       \/ RevisePlan \/ Decide("APPROVE") \/ Decide("REJECT")
       \/ \E w \in Workers : WorkerStep(w) \/ Crash(w)
       \/ SchedulerStep
       \/ CancelWorkflow

PlanningSpec == PlanningInit /\ [][Next]_vars

-----------------------------------------------------------------------------
(* Properties *)

\* While the workflow plans, waits for the approval of a plan or generates, its
\* brief is confirmed, and every version of the plan is of the confirmed
\* version: no worker that retrieved for a brief since revised moves the
\* workflow or leaves a plan behind.  However many runs are in create_plan at
\* the same time, an iteration gets at most one version from the planner.
PlanFollowsBrief ==
    /\ workflow.status \in {"PLANNING", "AWAITING_PLAN_APPROVAL", "GENERATING"} =>
         /\ brief.state = "CONFIRMED" /\ brief.confirmed = brief.current
         /\ \A p \in DOMAIN plans : plans[p].brief = brief.current
    /\ \A p, q \in DOMAIN plans :
         plans[p].source = "AGENT" /\ plans[q].source = "AGENT"
         /\ plans[p].iteration = plans[q].iteration => p = q

\* When execute_tool has been started, the head of the plan was approved as it
\* stands and never rejected: neither an edit nor an older run of the graph
\* comes between the decision and the execution.
ExecutedIsApproved ==
    executed =>
        /\ \E a \in DOMAIN approvals :
              approvals[a].decision = "APPROVE" /\ approvals[a].subject = PlanHead
        /\ \A a \in Rejections : approvals[a].subject # PlanHead
=============================================================================
