--------------------------- MODULE ToolNodeProofs ---------------------------
(***************************************************************************)
(* The safety properties of ToolNode, for every number of workers, events, *)
(* attempts and faults.                                                    *)
(***************************************************************************)
EXTENDS ToolNode, TLAPS

\* A step has a lease exactly while it is RUNNING.
LeaseShape ==
    /\ (step.status = "RUNNING") <=> (step.lessee # None)
    /\ (step.status = "RUNNING") <=> (step.lease # "none")

\* A worker whose call is not recorded is in the node's try, and one that has
\* a result, or fails after it had one, has seen the attempt succeed.
CallShape ==
    \A w \in Workers :
        /\ Open(w) => worker[w].pc \in {"calling", "returned", "failing"}
        /\ worker[w].pc \in {"calling", "returned"} => Open(w)
        /\ worker[w].pc = "known" => attempt = "SUCCEEDED"
        /\ worker[w].pc = "failing" /\ ~Open(w) => attempt = "SUCCEEDED"

StepInv == WorkflowFollowsStep /\ LeaseShape

CallInv == OneCall /\ CallShape

\* The inductive invariant.
NodeInv == TypeOK /\ StepInv /\ CallInv

-----------------------------------------------------------------------------
(* Types, action by action *)

\* The initial states have their types.
LEMMA InitTypes == Init => TypeOK
<1> SUFFICES ASSUME Init PROVE TypeOK
    OBVIOUS
<1>1. worker \in [Workers -> WorkerState]
    BY DEF Init, WorkerState, Idle, At
<1>2. event \in [Slots -> EventState]
    <2> DEFINE first == CHOOSE s \in Slots : TRUE
    <2>1. event = [s \in Slots |-> IF s = first
                                   THEN [kind |-> "resume", status |-> "unpublished"]
                                   ELSE NoEvent]
        BY DEF Init
    <2> HIDE DEF first
    <2> QED BY <2>1 DEF EventState, NoEvent
<1>3. step \in StepRow
    BY NodeAssumption DEF Init, StepRow
<1>4. holder \in [Slots -> Workers \cup {None}]
    BY DEF Init
<1>5. faults \in [number : 0..MaxFaults, last : BOOLEAN]
    BY NodeAssumption DEF Init
<1>6. lost \in BOOLEAN /\ resumed \in BOOLEAN
    BY DEF Init
<1>7. wf \in {"READY", "RUNNING"} \cup Settled /\ attempt \in AttemptStatus
    BY DEF Init, AttemptStatus
<1> QED BY <1>1, <1>2, <1>3, <1>4, <1>5, <1>6, <1>7 DEF TypeOK

\* The values a worker's fields take.
PCs == {"idle", "resume", "node", "claimed", "calling", "returned", "known", "failing",
        "raised", "done"}
Errors == {"none", "retryable", "permanent", "lease", "infrastructure"}

\* The updates of a worker keep its type.
LEMMA WorkerTypes ==
    ASSUME TypeOK, NEW w \in Workers, NEW pc \in PCs, NEW e \in Errors,
           \/ Goto(w, pc)
           \/ Records(w, pc)
           \/ Calls(w)
           \/ Fails(w, e)
           \/ worker' = [worker EXCEPT ![w] = Idle]
    PROVE  worker' \in [Workers -> WorkerState]
<1>0. worker \in [Workers -> WorkerState]
    BY DEF TypeOK
<1>1. CASE Goto(w, pc)
    BY <1>0, <1>1 DEF Goto, WorkerState, PCs
<1>2. CASE Records(w, pc)
    BY <1>0, <1>2 DEF Records, WorkerState, PCs
<1>3. CASE Calls(w)
    BY <1>0, <1>3 DEF Calls, WorkerState
<1>4. CASE Fails(w, e)
    BY <1>0, <1>4 DEF Fails, WorkerState, Errors
<1>5. CASE worker' = [worker EXCEPT ![w] = Idle]
    BY <1>0, <1>5 DEF WorkerState, Idle, At
<1> QED BY <1>1, <1>2, <1>3, <1>4, <1>5

\* The step's new row has its type.
LEMMA ReleasedTypes ==
    ASSUME TypeOK, NEW s \in {"RETRYABLE_FAILED", "SUCCEEDED", "FAILED", "CANCELLED"},
           NEW d \in {"none", "later", "due"}
    PROVE  Released(s, d) \in StepRow
BY DEF TypeOK, Released, StepRow

\* The claimed step has its type.
LEMMA ClaimTypes ==
    ASSUME TypeOK, NEW w \in Workers, ClaimStep(w)
    PROVE  step' \in StepRow /\ wf' = "RUNNING"
BY NodeAssumption DEF TypeOK, ClaimStep, Counted, StepRow

\* A new run event has its type.
LEMMA EventTypes ==
    ASSUME TypeOK, AddRun \/ Request
    PROVE  event' \in [Slots -> EventState]
BY DEF TypeOK, AddRun, Request, Free, EventState

-----------------------------------------------------------------------------
(* The rows *)

\* The steps of a worker that do not touch the rows of workflow and step, and
\* leave the result of the attempt where it is.
LEMMA RowsAlone ==
    ASSUME StepInv, UNCHANGED <<wf, step>>, attempt = "SUCCEEDED" => attempt' = "SUCCEEDED"
    PROVE  StepInv'
BY DEF StepInv, WorkflowFollowsStep, LeaseShape

\* A worker with the lease works on a RUNNING step of a RUNNING workflow.
LEMMA LeaseMeansRunning ==
    ASSUME TypeOK, StepInv, NEW w \in Workers, HasLease(w)
    PROVE  step.status = "RUNNING" /\ wf = "RUNNING"
BY NodeAssumption
DEF TypeOK, StepRow, Settled, StepInv, WorkflowFollowsStep, LeaseShape, HasLease

\* A step that is claimed belongs to a workflow that is not settled.
LEMMA ClaimMeansOpen ==
    ASSUME TypeOK, StepInv, Claimable, wf \notin {"FAILED", "CANCELLED"}
    PROVE  wf \notin Settled
BY DEF TypeOK, StepInv, WorkflowFollowsStep, Claimable, Settled

\* The rows, when the step is claimed.
LEMMA ClaimRows ==
    ASSUME TypeOK, StepInv, NEW w \in Workers, ClaimStep(w), UNCHANGED attempt
    PROVE  StepInv'
BY NodeAssumption DEF TypeOK, StepInv, WorkflowFollowsStep, LeaseShape, ClaimStep

\* The rows, when the node is left.
LEMMA LeaveRows ==
    ASSUME TypeOK, StepInv, step.status = "RUNNING", NEW d,
           \/ step' = Released("SUCCEEDED", d) /\ wf' = "DONE" /\ attempt' = "SUCCEEDED"
           \/ step' = Released("FAILED", d) /\ wf' = "FAILED"
           \/ step' = Released("RETRYABLE_FAILED", d) /\ UNCHANGED wf
    PROVE  StepInv'
<1>1. wf = "RUNNING"
    BY DEF TypeOK, Settled, StepInv, WorkflowFollowsStep
<1>2. /\ step'.lessee = None /\ step'.lease = "none"
      /\ \/ step'.status = "SUCCEEDED" /\ wf' = "DONE" /\ attempt' = "SUCCEEDED"
         \/ step'.status = "FAILED" /\ wf' = "FAILED"
         \/ step'.status = "RETRYABLE_FAILED" /\ wf' = "RUNNING"
    BY <1>1 DEF TypeOK, StepRow, Released
<1> QED BY <1>2 DEF StepInv, WorkflowFollowsStep, LeaseShape

\* Every step keeps the rows of workflow and step together.
LEMMA RowsStep ==
    ASSUME NodeInv, Next
    PROVE  StepInv'
<1> USE DEF NodeInv
<1>1. ASSUME NEW w \in Workers, Resume(w) \/ ToolReturns(w) \/ Absorb(w) \/ Return(w)
                                \/ WorkerCrash(w) \/ TransactionFails(w)
      PROVE  StepInv'
    BY <1>1, RowsAlone
    DEF Resume, ToolReturns, Absorb, Return, WorkerCrash, TransactionFails, End, stepVars
<1>2. ASSUME NEW w \in Workers, NEW s \in Slots, Deliver(w, s) \/ Overtake(w, s)
      PROVE  StepInv'
    BY <1>2, RowsAlone DEF Deliver, Overtake, Handle, stepVars
<1>3. ASSUME NEW s \in Slots, Publish(s)
      PROVE  StepInv'
    BY <1>3, RowsAlone DEF Publish, stepVars
<1>4. CASE RecoverStaleWorkflow
    BY <1>4, RowsAlone DEF RecoverStaleWorkflow, stepVars
<1>5. ASSUME NEW w \in Workers, BeginNode(w)
      PROVE  StepInv'
    <2>1. CASE UNCHANGED <<wf, step>>
        BY <1>5, <2>1, RowsAlone DEF BeginNode
    <2>2. CASE ClaimStep(w)
        BY <1>5, <2>2, ClaimRows DEF BeginNode
    <2> QED BY <1>5, <2>1, <2>2 DEF BeginNode
<1>6. ASSUME NEW w \in Workers, BeginAttempt(w)
      PROVE  StepInv'
    BY <1>6, RowsAlone DEF BeginAttempt
<1>7. ASSUME NEW w \in Workers, CompleteAttempt(w)
      PROVE  StepInv'
    BY <1>7, RowsAlone DEF CompleteAttempt
<1>8. ASSUME NEW w \in Workers, CompleteNode(w)
      PROVE  StepInv'
    <2>1. CASE UNCHANGED <<wf, step>>
        BY <1>8, <2>1, RowsAlone DEF CompleteNode
    <2>2. CASE HasLease(w) /\ step' = Released("SUCCEEDED", step.due) /\ wf' = "DONE"
        BY <1>8, <2>2, LeaseMeansRunning, LeaveRows
        DEF CompleteNode, CallInv, CallShape
    <2> QED BY <1>8, <2>1, <2>2 DEF CompleteNode
<1>9. ASSUME NEW w \in Workers, FailNode(w)
      PROVE  StepInv'
    <2>1. CASE UNCHANGED <<wf, step, attempt>>
        BY <2>1, RowsAlone
    <2>2. CASE HasLease(w) /\ step' = Released("RETRYABLE_FAILED", "later") /\ UNCHANGED wf
        BY <2>2, LeaseMeansRunning, LeaveRows
    <2>3. CASE HasLease(w) /\ step' = Released("FAILED", step.due) /\ wf' = "FAILED"
        BY <2>3, LeaseMeansRunning, LeaveRows
    <2> QED BY <1>9, <2>1, <2>2, <2>3 DEF FailNode
<1>10. CASE RecoverExpiredLease
    BY <1>10, LeaveRows DEF RecoverExpiredLease
<1>11. CASE Cancel
    BY <1>11 DEF Cancel, TypeOK, StepRow, StepInv, WorkflowFollowsStep, LeaseShape, Released
<1>12. CASE RetryBecomesDue
    BY <1>12
    DEF RetryBecomesDue, TypeOK, StepRow, StepInv, WorkflowFollowsStep, LeaseShape
<1>13. CASE LeaseExpires
    BY <1>13 DEF LeaseExpires, TypeOK, StepRow, StepInv, WorkflowFollowsStep, LeaseShape
<1> QED
    BY <1>1, <1>2, <1>3, <1>4, <1>5, <1>6, <1>7, <1>8, <1>9, <1>10, <1>11, <1>12, <1>13
    DEF Next, WorkerStep, Scan

-----------------------------------------------------------------------------
(* The calls *)

\* What CallShape says of one worker whose state is r, when the attempt is a.
Shape(r, a) ==
    /\ r.call = "open" => r.pc \in {"calling", "returned", "failing"}
    /\ r.pc \in {"calling", "returned"} => r.call = "open"
    /\ r.pc = "known" => a = "SUCCEEDED"
    /\ r.pc = "failing" /\ r.call # "open" => a = "SUCCEEDED"

\* How a step of w may change the open calls: not at all, it drops its own, it
\* opens one when there is none, or it records its own.
CallChange(w, r) ==
    \/ r.call = worker[w].call /\ UNCHANGED <<attempt, lost>>
    \/ r.call = "none" /\ UNCHANGED attempt /\ lost' = (lost \/ Open(w))
    \/ /\ r.call = "open" /\ UNCHANGED lost
       /\ attempt \notin {"SUBMITTING", "SUCCEEDED"} /\ attempt' = "SUBMITTING"
    \/ /\ Open(w) /\ r.call = "none" /\ UNCHANGED lost
       /\ attempt' # "SUBMITTING"

\* The open calls after a step of one worker.
LEMMA CallStep ==
    ASSUME TypeOK, CallInv, NEW w \in Workers, NEW r,
           worker' = [worker EXCEPT ![w] = r],
           r.call \in {"none", "open"}, Shape(r, attempt'), CallChange(w, r)
    PROVE  CallInv'
<1>0. worker \in [Workers -> WorkerState]
    BY DEF TypeOK
<1>1. /\ worker'[w] = r
      /\ \A v \in Workers \ {w} : worker'[v] = worker[v]
    BY <1>0
<1>2. \A v \in Workers : worker[v].call \in {"none", "open"}
    BY <1>0 DEF WorkerState
<1>3. attempt = "SUCCEEDED" => attempt' = "SUCCEEDED"
    BY DEF CallChange, CallInv, OneCall
<1>4. CallShape'
    BY <1>1, <1>3 DEF CallInv, CallShape, Shape, Open
<1>5. OneCall'
    <2>1. CASE r.call = worker[w].call /\ UNCHANGED <<attempt, lost>>
        BY <1>1, <2>1 DEF CallInv, OneCall, Open
    <2>2. CASE r.call = "none" /\ UNCHANGED attempt /\ lost' = (lost \/ Open(w))
        <3>1. \A v \in Workers : Open(v)' <=> Open(v) /\ v # w
            BY <1>1, <2>2 DEF Open
        <3> QED BY <2>2, <3>1 DEF CallInv, OneCall
    <2>3. CASE /\ r.call = "open" /\ UNCHANGED lost
               /\ attempt \notin {"SUBMITTING", "SUCCEEDED"} /\ attempt' = "SUBMITTING"
        <3>1. \A v \in Workers : Open(v)' <=> v = w
            BY <1>1, <2>3 DEF CallInv, OneCall, Open
        <3> QED BY <2>3, <3>1 DEF CallInv, OneCall
    <2>4. CASE /\ Open(w) /\ r.call = "none" /\ UNCHANGED lost
               /\ attempt' # "SUBMITTING"
        <3>1. \A v \in Workers : ~Open(v)'
            BY <1>1, <2>4 DEF CallInv, OneCall, Open
        <3> QED BY <2>4, <3>1 DEF CallInv, OneCall
    <2> QED BY <2>1, <2>2, <2>3, <2>4 DEF CallChange
<1> QED BY <1>4, <1>5 DEF CallInv

\* A worker that goes on, raises or becomes idle.
LEMMA CallGoto ==
    ASSUME TypeOK, CallInv, NEW w \in Workers, NEW pc \in PCs, Goto(w, pc),
           ~Open(w), pc \notin {"calling", "returned", "failing"},
           pc = "known" => attempt = "SUCCEEDED", UNCHANGED <<attempt, lost>>
    PROVE  CallInv'
<1> DEFINE r == [worker[w] EXCEPT !.pc = pc]
<1>1. worker[w] \in WorkerState
    BY DEF TypeOK
<1>2. worker' = [worker EXCEPT ![w] = r]
    BY DEF Goto, TypeOK
<1>3. r.pc = pc /\ r.call = worker[w].call /\ r.call \in {"none", "open"}
    BY <1>1 DEF WorkerState
<1>4. Shape(r, attempt') /\ CallChange(w, r)
    BY <1>3 DEF Shape, CallChange, Open
<1> QED BY <1>2, <1>3, <1>4, CallStep

\* See CallGoto.
LEMMA CallRaises ==
    ASSUME TypeOK, CallInv, NEW w \in Workers, Raises(w), UNCHANGED attempt
    PROVE  CallInv'
<1> DEFINE r == [worker[w] EXCEPT !.pc = "raised", !.call = "none"]
<1>1. worker[w] \in WorkerState
    BY DEF TypeOK
<1>2. worker' = [worker EXCEPT ![w] = r] /\ lost' = (lost \/ Open(w))
    BY DEF Raises, Records
<1>3. r.pc = "raised" /\ r.call = "none"
    BY <1>1 DEF WorkerState
<1>4. Shape(r, attempt') /\ CallChange(w, r)
    BY <1>2, <1>3 DEF Shape, CallChange
<1> QED BY <1>2, <1>3, <1>4, CallStep

\* See CallGoto.
LEMMA CallFails ==
    ASSUME TypeOK, CallInv, NEW w \in Workers, NEW e, Fails(w, e),
           Open(w) \/ attempt = "SUCCEEDED", UNCHANGED <<attempt, lost>>
    PROVE  CallInv'
<1> DEFINE r == [worker[w] EXCEPT !.pc = "failing", !.error = e]
<1>1. worker[w] \in WorkerState
    BY DEF TypeOK
<1>2. worker' = [worker EXCEPT ![w] = r]
    BY DEF Fails
<1>3. r.pc = "failing" /\ r.call = worker[w].call /\ r.call \in {"none", "open"}
    BY <1>1 DEF WorkerState
<1>4. Shape(r, attempt') /\ CallChange(w, r)
    BY <1>3 DEF Shape, CallChange, Open
<1> QED BY <1>2, <1>3, <1>4, CallStep

\* A worker without an open call, and what a worker that is not in the node's
\* try is.
LEMMA NoCall ==
    ASSUME CallInv, NEW w \in Workers,
           worker[w].pc \notin {"calling", "returned", "failing"}
    PROVE  ~Open(w)
BY DEF CallInv, CallShape

\* A worker that starts or ends a handler.
LEMMA CallFresh ==
    ASSUME TypeOK, CallInv, NEW w \in Workers, NEW pc, NEW s,
           worker' = [worker EXCEPT ![w] = At(pc, s)],
           pc \notin {"calling", "returned", "failing", "known"},
           UNCHANGED attempt, lost' = (lost \/ Open(w))
    PROVE  CallInv'
<1>1. At(pc, s).pc = pc /\ At(pc, s).call = "none"
    BY DEF At
<1>2. Shape(At(pc, s), attempt') /\ CallChange(w, At(pc, s))
    BY <1>1 DEF Shape, CallChange
<1> QED BY <1>1, <1>2, CallStep

\* The steps that leave the workers, the attempt and lost alone.
LEMMA CallsAlone ==
    ASSUME CallInv, UNCHANGED <<attempt, worker, lost>>
    PROVE  CallInv'
BY DEF CallInv, OneCall, CallShape, Open

\* Every step keeps the open calls and the attempt together.
LEMMA CallsStep ==
    ASSUME NodeInv, Next
    PROVE  CallInv'
<1> USE DEF NodeInv
<1>1. ASSUME NEW w \in Workers, Resume(w)
      PROVE  CallInv'
    <2>1. CASE Raises(w)
        BY <1>1, <2>1, CallRaises DEF Resume, stepVars
    <2>2. CASE Goto(w, "node") /\ UNCHANGED lost
        BY <1>1, <2>2, NoCall, CallGoto DEF Resume, stepVars, PCs
    <2> QED BY <1>1, <2>1, <2>2 DEF Resume
<1>2. ASSUME NEW w \in Workers, BeginNode(w)
      PROVE  CallInv'
    <2>1. CASE Raises(w)
        BY <1>2, <2>1, CallRaises DEF BeginNode
    <2>2. CASE Goto(w, "done") /\ UNCHANGED lost
        BY <1>2, <2>2, NoCall, CallGoto DEF BeginNode, PCs
    <2>3. CASE Goto(w, "claimed") /\ UNCHANGED lost
        BY <1>2, <2>3, NoCall, CallGoto DEF BeginNode, PCs
    <2> QED BY <1>2, <2>1, <2>2, <2>3 DEF BeginNode
<1>3. ASSUME NEW w \in Workers, BeginAttempt(w)
      PROVE  CallInv'
    <2>1. CASE attempt = "SUCCEEDED" /\ Goto(w, "known") /\ UNCHANGED <<attempt, lost>>
        BY <1>3, <2>1, NoCall, CallGoto DEF BeginAttempt, PCs
    <2>2. CASE /\ attempt \in {"NONE", "RETRYABLE_FAILED"}
               /\ attempt' = "SUBMITTING" /\ Calls(w) /\ UNCHANGED lost
        <3> DEFINE r == [worker[w] EXCEPT !.pc = "calling", !.call = "open"]
        <3>1. worker' = [worker EXCEPT ![w] = r]
            BY <2>2 DEF Calls
        <3>2. worker[w] \in WorkerState
            BY DEF TypeOK
        <3>3. r.pc = "calling" /\ r.call = "open"
            BY <3>2 DEF WorkerState
        <3>4. Shape(r, attempt') /\ CallChange(w, r)
            BY <2>2, <3>3 DEF Shape, CallChange
        <3> QED BY <3>1, <3>3, <3>4, CallStep
    <2>3. CASE Raises(w) /\ UNCHANGED attempt
        BY <2>3, CallRaises
    <2> QED BY <1>3, <2>1, <2>2, <2>3 DEF BeginAttempt
<1>4. ASSUME NEW w \in Workers, ToolReturns(w)
      PROVE  CallInv'
    <2>1. Open(w)
        BY <1>4 DEF ToolReturns, CallInv, CallShape
    <2>2. CASE Goto(w, "returned")
        <3> DEFINE r == [worker[w] EXCEPT !.pc = "returned"]
        <3>1. worker' = [worker EXCEPT ![w] = r]
            BY <2>2 DEF Goto
        <3>2. worker[w] \in WorkerState
            BY DEF TypeOK
        <3>3. r.pc = "returned" /\ r.call = "open" /\ r.call = worker[w].call
            BY <2>1, <3>2 DEF WorkerState, Open
        <3>4. Shape(r, attempt') /\ CallChange(w, r)
            BY <1>4, <3>3 DEF Shape, CallChange, ToolReturns, stepVars
        <3> QED BY <3>1, <3>3, <3>4, CallStep
    <2>3. CASE Fails(w, "retryable") \/ Fails(w, "permanent")
        BY <1>4, <2>1, <2>3, CallFails DEF ToolReturns, stepVars
    <2> QED BY <1>4, <2>2, <2>3 DEF ToolReturns
<1>5. ASSUME NEW w \in Workers, CompleteAttempt(w)
      PROVE  CallInv'
    <2>1. Open(w)
        BY <1>5 DEF CompleteAttempt, CallInv, CallShape
    <2>2. CASE attempt' = "SUCCEEDED" /\ Records(w, "known")
        <3> DEFINE r == [worker[w] EXCEPT !.pc = "known", !.call = "none"]
        <3>1. worker' = [worker EXCEPT ![w] = r]
            BY <2>2 DEF Records
        <3>2. worker[w] \in WorkerState
            BY DEF TypeOK
        <3>3. r.pc = "known" /\ r.call = "none"
            BY <3>2 DEF WorkerState
        <3>4. Shape(r, attempt') /\ CallChange(w, r)
            BY <1>5, <2>1, <2>2, <3>3 DEF Shape, CallChange, CompleteAttempt
        <3> QED BY <3>1, <3>3, <3>4, CallStep
    <2>3. CASE Fails(w, "lease") /\ UNCHANGED attempt
        BY <1>5, <2>1, <2>3, CallFails DEF CompleteAttempt
    <2> QED BY <1>5, <2>2, <2>3 DEF CompleteAttempt
<1>6. ASSUME NEW w \in Workers, CompleteNode(w)
      PROVE  CallInv'
    <2>1. CASE Goto(w, "done")
        BY <1>6, <2>1, NoCall, CallGoto DEF CompleteNode, PCs
    <2>2. CASE Fails(w, "lease")
        BY <1>6, <2>2, CallFails DEF CompleteNode, CallInv, CallShape
    <2> QED BY <1>6, <2>1, <2>2 DEF CompleteNode
<1>7. ASSUME NEW w \in Workers, FailNode(w)
      PROVE  CallInv'
    <2>1. CASE Raises(w) /\ UNCHANGED attempt
        BY <2>1, CallRaises
    <2>2. ASSUME NEW a \in {"RETRYABLE_FAILED", "PERMANENT_FAILED"},
                 SettleAttempt(a), Records(w, "raised"), UNCHANGED lost
          PROVE  CallInv'
        <3> DEFINE r == [worker[w] EXCEPT !.pc = "raised", !.call = "none"]
        <3>1. worker' = [worker EXCEPT ![w] = r]
            BY <2>2 DEF Records
        <3>2. worker[w] \in WorkerState
            BY DEF TypeOK
        <3>3. r.pc = "raised" /\ r.call = "none" /\ worker[w].call \in {"none", "open"}
            BY <3>2 DEF WorkerState
        <3>4. CASE Open(w)
            <4>1. attempt = "SUBMITTING" /\ attempt' = a
                BY <2>2, <3>4 DEF CallInv, OneCall, SettleAttempt
            <4>2. Shape(r, attempt') /\ CallChange(w, r)
                BY <2>2, <3>3, <3>4, <4>1 DEF Shape, CallChange
            <4> QED BY <3>1, <3>3, <4>2, CallStep
        <3>5. CASE ~Open(w)
            <4>1. attempt = "SUCCEEDED" /\ attempt' = attempt
                BY <1>7, <2>2, <3>5 DEF FailNode, CallInv, CallShape, SettleAttempt
            <4>2. Shape(r, attempt') /\ CallChange(w, r)
                BY <2>2, <3>3, <3>5, <4>1 DEF Shape, CallChange, Open
            <4> QED BY <3>1, <3>3, <4>2, CallStep
        <3> QED BY <3>4, <3>5
    <2> QED BY <1>7, <2>1, <2>2 DEF FailNode
<1>8. ASSUME NEW w \in Workers, Absorb(w) \/ Return(w)
      PROVE  CallInv'
    <2>1. ~Open(w)
        BY <1>8, NoCall DEF Absorb, Return
    <2>2. worker' = [worker EXCEPT ![w] = At("idle", None)] /\ UNCHANGED <<attempt, lost>>
        BY <1>8 DEF Absorb, Return, End, Idle, stepVars
    <2>3. lost' = (lost \/ Open(w))
        <3>1. lost \in BOOLEAN
            BY DEF TypeOK
        <3> QED BY <2>1, <2>2, <3>1
    <2> QED BY <2>2, <2>3, CallFresh
<1>9. ASSUME NEW w \in Workers, WorkerCrash(w)
      PROVE  CallInv'
    BY <1>9, CallFresh DEF WorkerCrash, Idle, stepVars
<1>10. ASSUME NEW w \in Workers, TransactionFails(w)
       PROVE  CallInv'
    <2>1. CASE Raises(w)
        BY <1>10, <2>1, CallRaises DEF TransactionFails, stepVars
    <2>2. CASE worker[w].pc \in {"returned", "known"} /\ Fails(w, "infrastructure")
               /\ UNCHANGED lost
        BY <1>10, <2>2, CallFails DEF TransactionFails, stepVars, CallInv, CallShape
    <2> QED BY <1>10, <2>1, <2>2 DEF TransactionFails
<1>11. ASSUME NEW w \in Workers, NEW s \in Slots, Deliver(w, s) \/ Overtake(w, s)
       PROVE  CallInv'
    <2>1. PICK pc \in Entry(s) : worker' = [worker EXCEPT ![w] = At(pc, s)]
        BY <1>11 DEF Deliver, Overtake, Handle
    <2>2. pc \in {"resume", "node", "done"}
        BY <2>1 DEF Entry
    <2>3. UNCHANGED <<attempt, lost>> /\ ~Open(w)
        BY <1>11, NoCall DEF Deliver, Overtake, Handle, stepVars
    <2>4. lost' = (lost \/ Open(w))
        <3>1. lost \in BOOLEAN
            BY DEF TypeOK
        <3> QED BY <2>3, <3>1
    <2> QED BY <2>1, <2>2, <2>3, <2>4, CallFresh
<1>12. CASE Scan \/ Cancel \/ RetryBecomesDue \/ LeaseExpires \/ \E s \in Slots : Publish(s)
    BY <1>12, CallsAlone
    DEF Scan, RecoverExpiredLease, RecoverStaleWorkflow, Cancel, RetryBecomesDue,
        LeaseExpires, Publish, stepVars
<1> QED
    BY <1>1, <1>2, <1>3, <1>4, <1>5, <1>6, <1>7, <1>8, <1>9, <1>10, <1>11, <1>12
    DEF Next, WorkerStep

-----------------------------------------------------------------------------
(* Types *)

\* The types of the rows.
RowTypes ==
    /\ wf \in {"READY", "RUNNING"} \cup Settled /\ resumed \in BOOLEAN
    /\ step \in StepRow /\ attempt \in AttemptStatus

\* The types of the rest.
RestTypes ==
    /\ event \in [Slots -> EventState]
    /\ holder \in [Slots -> Workers \cup {None}]
    /\ worker \in [Workers -> WorkerState]

\* The types of what counts the faults.
FaultTypes == lost \in BOOLEAN /\ faults \in [number : 0..MaxFaults, last : BOOLEAN]

\* What End leaves in a slot is an event.
LEMMA EndTypes ==
    ASSUME TypeOK, NEW w \in Workers, NEW e \in EventState, End(w, e)
    PROVE  RestTypes'
<1>1. worker' \in [Workers -> WorkerState]
    BY DEF TypeOK, End, Idle, At, WorkerState
<1>2. /\ event' \in [Slots -> EventState]
      /\ holder' \in [Slots -> Workers \cup {None}]
    BY DEF TypeOK, End
<1> QED BY <1>1, <1>2 DEF RestTypes

\* Every step keeps the types of the rows.
LEMMA RowTypesStep ==
    ASSUME NodeInv, Next
    PROVE  RowTypes'
<1>0. TypeOK /\ step.due \in {"none", "later", "due"}
    BY DEF NodeInv, TypeOK, StepRow
<1>1. wf' \in {"READY", "RUNNING"} \cup Settled
    <2>1. ASSUME NEW w \in Workers, WorkerStep(w)
          PROVE  wf' = wf \/ wf' \in {"RUNNING", "DONE", "FAILED"}
        BY <2>1
        DEF WorkerStep, Resume, BeginNode, ClaimStep, BeginAttempt, ToolReturns,
            CompleteAttempt, CompleteNode, FailNode, Absorb, Return, End, stepVars
    <2>2. wf' = wf \/ wf' \in {"RUNNING", "DONE", "FAILED", "CANCELLED"}
        BY <2>1
        DEF Next, Scan, Deliver, Overtake, Handle, WorkerCrash, TransactionFails, Publish,
            RecoverExpiredLease, RecoverStaleWorkflow, Cancel, RetryBecomesDue, LeaseExpires,
            stepVars
    <2> QED BY <1>0, <2>2 DEF TypeOK, Settled
<1>2. resumed' \in BOOLEAN
    <2>1. resumed' = resumed \/ resumed' = TRUE
        BY DEF Next, WorkerStep, Scan, Resume, BeginNode, BeginAttempt,
            ToolReturns, CompleteAttempt, CompleteNode, FailNode, Absorb, Return, End, Deliver,
            Overtake, Handle, WorkerCrash, TransactionFails, Publish, RecoverExpiredLease,
            RecoverStaleWorkflow, Cancel, RetryBecomesDue, LeaseExpires
    <2>2. resumed \in BOOLEAN
        BY <1>0 DEF TypeOK
    <2> QED BY <2>1, <2>2
<1>3. attempt' \in AttemptStatus
    <2>1. ASSUME NEW w \in Workers, WorkerStep(w)
          PROVE  \/ attempt' = attempt
                 \/ attempt' \in {"SUBMITTING", "SUCCEEDED", "RETRYABLE_FAILED",
                                  "PERMANENT_FAILED"}
        BY <2>1
        DEF WorkerStep, Resume, BeginNode, BeginAttempt, ToolReturns, CompleteAttempt,
            CompleteNode, FailNode, SettleAttempt, Absorb, Return, End, stepVars
    <2>2. \/ attempt' = attempt
          \/ attempt' \in {"SUBMITTING", "SUCCEEDED", "RETRYABLE_FAILED", "PERMANENT_FAILED"}
        BY <2>1
        DEF Next, Scan, Deliver, Overtake, Handle, WorkerCrash, TransactionFails, Publish,
            RecoverExpiredLease, RecoverStaleWorkflow, Cancel, RetryBecomesDue, LeaseExpires,
            stepVars
    <2> QED BY <1>0, <2>2 DEF TypeOK, AttemptStatus
<1>4. step' \in StepRow
    <2>1. CASE step' = step
        BY <1>0, <2>1 DEF TypeOK
    <2>2. ASSUME NEW w \in Workers, ClaimStep(w)
          PROVE  step' \in StepRow
        BY <1>0, <2>2, ClaimTypes
    <2>3. ASSUME NEW s \in {"RETRYABLE_FAILED", "SUCCEEDED", "FAILED", "CANCELLED"},
                 NEW d \in {"none", "later", "due"}, step' = Released(s, d)
          PROVE  step' \in StepRow
        BY <1>0, <2>3, ReleasedTypes
    <2>4. CASE RetryBecomesDue \/ LeaseExpires
        BY <1>0, <2>4 DEF RetryBecomesDue, LeaseExpires, TypeOK, StepRow
    <2>5. CASE Cancel
        BY <1>0, <2>1, <2>3, <2>5 DEF Cancel
    <2>6. CASE RecoverExpiredLease
        BY <2>3, <2>6 DEF RecoverExpiredLease
    <2>7. ASSUME NEW w \in Workers, WorkerStep(w)
          PROVE  step' \in StepRow
        BY <1>0, <2>1, <2>2, <2>3, <2>7
        DEF WorkerStep, Resume, BeginNode, BeginAttempt, ToolReturns, CompleteAttempt,
            CompleteNode, FailNode, Absorb, Return, End, stepVars
    <2> QED
        BY <2>1, <2>4, <2>5, <2>6, <2>7
        DEF Next, Scan, Deliver, Overtake, Handle, WorkerCrash, TransactionFails, Publish,
            RecoverStaleWorkflow, stepVars
<1> QED BY <1>1, <1>2, <1>3, <1>4 DEF RowTypes

\* Every step keeps the types of events, leases and workers.
LEMMA RestTypesStep ==
    ASSUME NodeInv, Next
    PROVE  RestTypes'
<1>0. TypeOK
    BY DEF NodeInv
<1>1. CASE UNCHANGED <<event, holder, worker>>
    BY <1>0, <1>1 DEF TypeOK, RestTypes
<1>2. ASSUME NEW w \in Workers, Absorb(w) \/ Return(w)
      PROVE  RestTypes'
    <2>1. NoEvent \in EventState
        BY DEF NoEvent, EventState
    <2>2. CASE End(w, NoEvent)
        BY <1>0, <2>1, <2>2, EndTypes
    <2>3. CASE End(w, [event[worker[w].slot] EXCEPT !.status = "unpublished"])
        <3>1. CASE holder[worker[w].slot] = w /\ worker[w].slot \in Slots
            <4>1. [event[worker[w].slot] EXCEPT !.status = "unpublished"] \in EventState
                BY <1>0, <3>1 DEF TypeOK, EventState
            <4> QED BY <1>0, <2>3, <4>1, EndTypes
        <3>2. CASE holder[worker[w].slot] # w
            <4>1. UNCHANGED <<event, holder>>
                BY <2>3, <3>2 DEF End
            <4>2. worker' \in [Workers -> WorkerState]
                BY <1>0, <2>3 DEF TypeOK, End, Idle, At, WorkerState
            <4> QED BY <1>0, <4>1, <4>2 DEF TypeOK, RestTypes
        <3>3. CASE worker[w].slot \notin Slots
            <4>1. /\ event' \in [Slots -> EventState]
                  /\ holder' \in [Slots -> Workers \cup {None}]
                BY <1>0, <2>3, <3>3 DEF TypeOK, End
            <4>2. worker' \in [Workers -> WorkerState]
                BY <1>0, <2>3 DEF TypeOK, End, Idle, At, WorkerState
            <4> QED BY <4>1, <4>2 DEF RestTypes
        <3> QED BY <3>1, <3>2, <3>3
    <2> QED BY <1>2, <2>2, <2>3 DEF Absorb, Return
<1>3. ASSUME NEW w \in Workers, NEW s \in Slots, Deliver(w, s) \/ Overtake(w, s)
      PROVE  RestTypes'
    <2>1. PICK pc \in Entry(s) : worker' = [worker EXCEPT ![w] = At(pc, s)]
        BY <1>3 DEF Deliver, Overtake, Handle
    <2>2. At(pc, s) \in WorkerState
        BY <2>1 DEF Entry, At, WorkerState
    <2>3. worker' \in [Workers -> WorkerState]
        BY <1>0, <2>1, <2>2 DEF TypeOK
    <2>4. /\ holder' \in [Slots -> Workers \cup {None}]
          /\ event' \in [Slots -> EventState]
        BY <1>0, <1>3 DEF Deliver, Overtake, Handle, TypeOK
    <2> QED BY <2>3, <2>4 DEF RestTypes
<1>4. ASSUME NEW w \in Workers, WorkerCrash(w)
      PROVE  RestTypes'
    <2>1. worker' \in [Workers -> WorkerState]
        BY <1>0, <1>4 DEF TypeOK, WorkerCrash, Idle, At, WorkerState
    <2>2. /\ holder' \in [Slots -> Workers \cup {None}]
          /\ event' \in [Slots -> EventState]
        BY <1>0, <1>4 DEF WorkerCrash, TypeOK
    <2> QED BY <2>1, <2>2 DEF RestTypes
<1>5. ASSUME NEW w \in Workers, FailNode(w)
      PROVE  RestTypes'
    <2>1. worker' \in [Workers -> WorkerState]
        BY <1>0, <1>5, WorkerTypes DEF FailNode, Raises, PCs, Errors
    <2>2. event' \in [Slots -> EventState]
        BY <1>0, <1>5, EventTypes DEF FailNode, TypeOK
    <2>3. holder' \in [Slots -> Workers \cup {None}]
        BY <1>0, <1>5 DEF FailNode, TypeOK
    <2> QED BY <2>1, <2>2, <2>3 DEF RestTypes
<1>6. ASSUME NEW w \in Workers,
             Resume(w) \/ BeginNode(w) \/ BeginAttempt(w) \/ ToolReturns(w)
                \/ CompleteAttempt(w) \/ CompleteNode(w) \/ TransactionFails(w)
      PROVE  RestTypes'
    <2>1. worker' \in [Workers -> WorkerState]
        BY <1>0, <1>6, WorkerTypes
        DEF Resume, BeginNode, BeginAttempt, ToolReturns, CompleteAttempt, CompleteNode,
            TransactionFails, Raises, PCs, Errors
    <2>2. UNCHANGED <<event, holder>>
        BY <1>6
        DEF Resume, BeginNode, BeginAttempt, ToolReturns, CompleteAttempt, CompleteNode,
            TransactionFails
    <2> QED BY <1>0, <2>1, <2>2 DEF TypeOK, RestTypes
<1>7. ASSUME NEW s \in Slots, Publish(s)
      PROVE  RestTypes'
    BY <1>0, <1>7 DEF Publish, TypeOK, EventState, RestTypes
<1>8. CASE Scan
    <2>1. event' \in [Slots -> EventState]
        BY <1>0, <1>8, EventTypes DEF Scan, RecoverExpiredLease, RecoverStaleWorkflow
    <2>2. UNCHANGED <<holder, worker>>
        BY <1>8 DEF Scan, RecoverExpiredLease, RecoverStaleWorkflow
    <2> QED BY <1>0, <2>1, <2>2 DEF TypeOK, RestTypes
<1> QED
    BY <1>1, <1>2, <1>3, <1>4, <1>5, <1>6, <1>7, <1>8
    DEF Next, WorkerStep, Cancel, RetryBecomesDue, LeaseExpires

\* Every step keeps the types of lost and faults.
LEMMA FaultTypesStep ==
    ASSUME NodeInv, Next
    PROVE  FaultTypes'
<1>0. lost \in BOOLEAN /\ faults \in [number : 0..MaxFaults, last : BOOLEAN]
    BY DEF NodeInv, TypeOK
<1>1. \/ lost' = lost
      \/ \E w \in Workers : lost' = (lost \/ Open(w))
    <2>1. ASSUME NEW w \in Workers, WorkerStep(w)
          PROVE  lost' = lost \/ lost' = (lost \/ Open(w))
        BY <2>1
        DEF WorkerStep, Resume, BeginNode, BeginAttempt, ToolReturns, CompleteAttempt,
            CompleteNode, FailNode, Absorb, Return, End, Raises
    <2> QED
        BY <2>1
        DEF Next, Scan, Deliver, Overtake, Handle, WorkerCrash, TransactionFails, Raises,
            Publish, RecoverExpiredLease, RecoverStaleWorkflow, Cancel, RetryBecomesDue,
            LeaseExpires
<1>2. lost' \in BOOLEAN
    BY <1>0, <1>1
<1>3. \/ faults' = faults
      \/ /\ faults.number < MaxFaults
         /\ faults' = [number |-> faults.number + 1,
                       last   |-> faults.last \/ step.count >= MaxAttempts]
    <2>1. ASSUME NEW w \in Workers, WorkerStep(w)
          PROVE  faults' = faults
        BY <2>1
        DEF WorkerStep, Resume, BeginNode, BeginAttempt, ToolReturns, CompleteAttempt,
            CompleteNode, FailNode, Absorb, Return, End
    <2> QED
        BY <2>1
        DEF Next, Scan, Deliver, Overtake, WorkerCrash, TransactionFails, Disturb, Publish,
            RecoverExpiredLease, RecoverStaleWorkflow, Cancel, RetryBecomesDue, LeaseExpires
<1>4. faults' \in [number : 0..MaxFaults, last : BOOLEAN]
    <2>1. /\ faults.number \in 0..MaxFaults
          /\ (faults.last \/ step.count >= MaxAttempts) \in BOOLEAN
        BY <1>0
    <2>2. faults.number < MaxFaults => faults.number + 1 \in 0..MaxFaults
        BY <2>1, NodeAssumption
    <2>3. ASSUME NEW n \in 0..MaxFaults, NEW b \in BOOLEAN
          PROVE  [number |-> n, last |-> b] \in [number : 0..MaxFaults, last : BOOLEAN]
        OBVIOUS
    <2>4. CASE faults' = faults
        BY <1>0, <2>4
    <2>5. CASE ~(faults' = faults)
        <3>1. /\ faults.number + 1 \in 0..MaxFaults
              /\ faults' = [number |-> faults.number + 1,
                            last   |-> faults.last \/ step.count >= MaxAttempts]
            BY <1>3, <2>2, <2>5
        <3> DEFINE n == faults.number + 1
                   b == faults.last \/ step.count >= MaxAttempts
        <3> HIDE DEF n, b
        <3>2. n \in 0..MaxFaults /\ b \in BOOLEAN /\ faults' = [number |-> n, last |-> b]
            BY <2>1, <3>1 DEF n, b
        <3> QED
            BY <2>3, <3>2
    <2> QED
        BY <2>4, <2>5
<1> QED BY <1>2, <1>4 DEF FaultTypes

-----------------------------------------------------------------------------
(* The theorems *)

\* The inductive step.
LEMMA NodeInvStep == NodeInv /\ [Next]_vars => NodeInv'
<1> SUFFICES ASSUME NodeInv, [Next]_vars PROVE NodeInv'
    OBVIOUS
<1>1. CASE Next
    <2>1. TypeOK'
        BY <1>1, RowTypesStep, RestTypesStep, FaultTypesStep
        DEF TypeOK, RowTypes, RestTypes, FaultTypes
    <2> QED BY <1>1, <2>1, RowsStep, CallsStep DEF NodeInv
<1>2. CASE UNCHANGED vars
    BY <1>2
    DEF vars, NodeInv, TypeOK, StepInv, WorkflowFollowsStep, LeaseShape, CallInv, OneCall,
        CallShape, Open
<1> QED BY <1>1, <1>2

\* NodeInv holds of every state the node, its workers and the recovery scan
\* can reach, whatever crashes, redeliveries and expired leases come between.
THEOREM NodeInvariant == Spec => []NodeInv
<1>1. Init => NodeInv
    <2> SUFFICES ASSUME Init PROVE NodeInv
        OBVIOUS
    <2>1. StepInv
        BY DEF Init, StepInv, WorkflowFollowsStep, LeaseShape
    <2>2. CallInv
        BY DEF Init, CallInv, OneCall, CallShape, Open, Idle, At
    <2> QED BY <2>1, <2>2, InitTypes DEF NodeInv
<1> QED BY <1>1, NodeInvStep, PTL DEF Spec

\* Every variable keeps its type.
THEOREM NodeTypes == Spec => []TypeOK
<1>1. NodeInv => TypeOK
    BY DEF NodeInv
<1> QED BY <1>1, NodeInvariant, PTL

\* The tool is never called on top of a call whose outcome is unknown:
\* begin_attempt refuses a SUBMITTING attempt, and only the worker that made
\* the call settles it.
THEOREM NeverCalledTwice == Spec => []OneCall
<1>1. NodeInv => OneCall
    BY DEF NodeInv, CallInv
<1> QED BY <1>1, NodeInvariant, PTL

\* The workflow leaves the node exactly when its step does, and goes on only
\* with a recorded result.
THEOREM RowsAgree == Spec => []WorkflowFollowsStep
<1>1. NodeInv => WorkflowFollowsStep
    BY DEF NodeInv, StepInv
<1> QED BY <1>1, NodeInvariant, PTL

\* No late worker, redelivered event or scan changes a settled workflow.
THEOREM SettledForGood == Spec => SettledStays
<1>1. NodeInv /\ [Next]_vars => [(wf \in Settled) => UNCHANGED <<wf, step>>]_vars
    <2> SUFFICES ASSUME NodeInv, Next, wf \in Settled PROVE UNCHANGED <<wf, step>>
        OBVIOUS
    <2>1. /\ \A w \in Workers : ~HasLease(w)
          /\ step.status \notin {"RUNNING", "RETRYABLE_FAILED"}
          /\ step.lease # "live"
        BY LeaseMeansRunning
        DEF NodeInv, TypeOK, StepInv, WorkflowFollowsStep, LeaseShape, Settled
    <2>2. Claimable => wf \in {"FAILED", "CANCELLED"}
        BY ClaimMeansOpen DEF NodeInv
    <2>3. ASSUME NEW w \in Workers, WorkerStep(w)
          PROVE  UNCHANGED <<wf, step>>
        BY <2>1, <2>2, <2>3
        DEF WorkerStep, Resume, BeginNode, BeginAttempt, ToolReturns, CompleteAttempt,
            CompleteNode, FailNode, Absorb, Return, End, stepVars
    <2> QED
        BY <2>1, <2>3
        DEF Next, Scan, Deliver, Overtake, Handle, WorkerCrash, TransactionFails, Publish,
            RecoverExpiredLease, RecoverStaleWorkflow, Cancel, RetryBecomesDue, LeaseExpires,
            Settled, stepVars
<1> QED BY <1>1, NodeInvariant, PTL DEF Spec, SettledStays
=============================================================================
