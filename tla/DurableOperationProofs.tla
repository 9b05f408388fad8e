----------------------- MODULE DurableOperationProofs -----------------------
(***************************************************************************)
(* Proofs about DurableOperation, for every number of workers, attempts,   *)
(* reconciliations, events and faults.                                     *)
(*                                                                         *)
(* A step is taken apart into what it does to the row (RowChange), to the  *)
(* events (EventChange) and to the workers (WorkerChange).  That every     *)
(* action has this shape is shown once, action by action; the invariants   *)
(* are then proved from the shapes.                                        *)
(***************************************************************************)
EXTENDS DurableOperation, FiniteSetTheorems, TLAPS

USE OperationAssumption

-----------------------------------------------------------------------------
(* The row *)

\* The row waits as it did: only its clocks, its provider request id and its
\* generations may have moved.
Quiet ==
    /\ UNCHANGED <<state, token, attempts, maxAttempts, recAttempts, maxRec, outcome,
                   deadLetter, terminals>>
    /\ lease' = lease \/ (lease = "live" /\ lease' = "expired")
    /\ retryDue' = retryDue \/ (retryDue = "later" /\ retryDue' = "due")
    /\ recDue' = recDue \/ (recDue = "later" /\ recDue' = "due")

Claimed ==
    /\ state \in {"PENDING", "RETRYABLE_FAILED"}
    /\ TakeExecution("CLAIMED") \/ TakeExecution("RUNNING")

Started ==
    /\ state = "CLAIMED" /\ state' = "RUNNING"
    /\ UNCHANGED <<leaseVars, execVars, recVars, deadVars>>

Succeeded(known) ==
    state \in {"RUNNING", "RECONCILING"} /\ ApplySuccess(known)

Failed(retryable) ==
    \/ state = "RUNNING" /\ ApplyFailure(retryable, outcome)
    \/ state = "RECONCILING" /\ ApplyFailure(retryable, "CONFIRMED_FAILURE")

Deferred ==
    /\ state = "RECONCILING" /\ ClearLease
    /\ \/ /\ recDue' = "later"
          /\ UNCHANGED <<state, deadVars>>
       \/ /\ state' = "FAILED" /\ recDue' = "none"
          /\ RecordTerminalFailure(outcome)
    /\ UNCHANGED <<execVars, recAttempts, maxRec, outcome>>

\* A human decides: after the execution or after the reconciliation.
Waiting ==
    /\ state' = "WAITING_HUMAN" /\ ClearLease
    /\ \/ state = "RUNNING" /\ UNCHANGED <<recVars>>
       \/ /\ state = "RECONCILING" /\ outcome' = "CONFIRMED_SUCCESS" /\ recDue' = "none"
          /\ UNCHANGED <<recAttempts, maxRec, recElapsed>>
    /\ UNCHANGED <<execVars, deadVars>>

Released ==
    /\ state = "CLAIMED" /\ ClearLease
    /\ \/ /\ attempts < maxAttempts
          /\ state' = "RETRYABLE_FAILED" /\ retryDue' = "due"
          /\ UNCHANGED deadVars
       \/ /\ state' = "FAILED"
          /\ RecordTerminalFailure(outcome)
          /\ UNCHANGED retryDue
    /\ UNCHANGED <<attempts, maxAttempts, recVars>>

Ended ==
    \/ /\ state \notin Terminal /\ state' = "CANCELLED" /\ retryDue' = "none"
       /\ ClearLease
       /\ UNCHANGED <<attempts, maxAttempts, recVars, deadVars>>
    \/ /\ state = "WAITING_HUMAN" /\ state' = "SUCCEEDED"
       /\ UNCHANGED <<leaseVars, execVars, recVars, deadVars>>

Reopened(e) ==
    /\ TerminalReplayApplies(e) /\ ReplayFailure(e)
    /\ replay[e].stage = "RECORDED" /\ replay'[e].stage = "PREPARED"

\* What a step does to the row.
RowChange ==
    \/ Quiet
    \/ Claimed
    \/ Started
    \/ ExhaustExecutionDeadline
    \/ state = "RUNNING" /\ EnterReconciliation
    \/ TakeReconciliation
    \/ ExhaustReconciliation
    \/ \E known \in BOOLEAN : Succeeded(known)
    \/ \E retryable \in BOOLEAN : Failed(retryable)
    \/ Deferred
    \/ Waiting
    \/ Released
    \/ Ended
    \/ \E e \in EventIds : Reopened(e)

\* A step that leaves the row's columns alone is quiet.
LEMMA QuietRow ==
  ASSUME UNCHANGED <<state, leaseVars, execVars, recVars, deadVars>>
  PROVE  RowChange
  BY DEF RowChange, Quiet, leaseVars, execVars, recVars, deadVars

\* The steps of the execution.
LEMMA ExecuteRow ==
  ASSUME NEW w \in Workers, Execute(w)
  PROVE  RowChange
<1>1. ASSUME ReadOperation(w) \/ ReadExhausted(w)
      PROVE  RowChange
  BY <1>1, QuietRow DEF ReadOperation, ReadExhausted, rowVars
<1>2. ASSUME ExecuteRefused(w) \/ ClaimRefused(w) \/ StartRefused(w) \/ LateExecutionRefused(w)
      PROVE  RowChange
  BY <1>2, QuietRow DEF ExecuteRefused, ClaimRefused, StartRefused, LateExecutionRefused,
     Raise, Abandon, End, rowVars
<1>3. ASSUME ClaimExecution(w)
      PROVE  RowChange
  BY <1>3 DEF ClaimExecution, MayClaim, RowChange, Claimed
<1>4. ASSUME Start(w)
      PROVE  RowChange
  BY <1>4 DEF Start, RowChange, Started
<1>5. ASSUME Succeed(w)
      PROVE  RowChange
  BY <1>5 DEF Succeed, ExecutionAuthority, RowChange, Succeeded
<1>6. ASSUME WaitForHuman(w)
      PROVE  RowChange
  BY <1>6 DEF WaitForHuman, ExecutionAuthority, RowChange, Waiting
<1>7. ASSUME RequireReconciliation(w)
      PROVE  RowChange
  BY <1>7 DEF RequireReconciliation, ExecutionAuthority, RowChange
<1>8. ASSUME Fail(w)
      PROVE  RowChange
  BY <1>8 DEF Fail, ExecutionAuthority, RowChange, Failed
<1>9. ASSUME LateExecution(w)
      PROVE  RowChange
  BY <1>9, QuietRow DEF LateExecution, LateResult
<1> QED
  BY <1>1, <1>2, <1>3, <1>4, <1>5, <1>6, <1>7, <1>8, <1>9 DEF Execute

\* The steps of the reconciliation.
LEMMA ReconcileRow ==
  ASSUME NEW w \in Workers, Reconcile(w)
  PROVE  RowChange
<1>1. ASSUME Exhaust(w)
      PROVE  RowChange
  BY <1>1 DEF Exhaust, RowChange
<1>2. ASSUME ExhaustRefused(w) \/ ClaimReconciliationRefused(w) \/ ReconciliationRefused(w)
      PROVE  RowChange
  BY <1>2, QuietRow DEF ExhaustRefused, ClaimReconciliationRefused, ReconciliationRefused,
     Raise, Abandon, End, rowVars
<1>3. ASSUME ClaimReconciliation(w)
      PROVE  RowChange
  BY <1>3 DEF ClaimReconciliation, RowChange
<1>4. ASSUME ReadClaim(w)
      PROVE  RowChange
  BY <1>4, QuietRow DEF ReadClaim, rowVars
<1>5. ASSUME ConfirmSuccess(w)
      PROVE  RowChange
  BY <1>5 DEF ConfirmSuccess, ReconciliationAuthority, RowChange, Succeeded
<1>6. ASSUME ConfirmFailure(w)
      PROVE  RowChange
  BY <1>6 DEF ConfirmFailure, ReconciliationAuthority, RowChange, Failed
<1>7. ASSUME DeferReconciliation(w)
      PROVE  RowChange
  <2>1. Deferred
    BY <1>7 DEF DeferReconciliation, ReconciliationAuthority, Deferred
  <2> QED
    BY <2>1 DEF RowChange
<1>8. ASSUME WaitForHumanAfterReconciliation(w)
      PROVE  RowChange
  <2>1. Waiting
    BY <1>8 DEF WaitForHumanAfterReconciliation, ReconciliationAuthority, Waiting
  <2> QED
    BY <2>1 DEF RowChange
<1>9. ASSUME LateReconciliation(w)
      PROVE  RowChange
  BY <1>9, QuietRow DEF LateReconciliation, LateResult
<1> QED
  BY <1>1, <1>2, <1>3, <1>4, <1>5, <1>6, <1>7, <1>8, <1>9 DEF Reconcile

\* The steps of a replayed dead letter.
LEMMA ReplayRow ==
  ASSUME TypeOK, BusyHasEvent, NEW w \in Workers, HandleReplay(w)
  PROVE  RowChange
<1>1. ASSUME ApplyReplay(w)
      PROVE  RowChange
  <2>1. PICK e \in EventIds : e = worker[w].event
    BY <1>1 DEF ApplyReplay, BusyHasEvent
  <2>2. CASE TransportReplayApplies(e) /\ ApplyTransportReplay(e)
    BY <2>2, QuietRow DEF ApplyTransportReplay
  <2>3. CASE TerminalReplayApplies(e) /\ ReplayFailure(e)
    <3>1. replay'[e].stage = "PREPARED"
      BY <1>1, <2>1 DEF ApplyReplay, SetReplay, Stage, TypeOK
    <3>2. Reopened(e)
      BY <1>1, <2>1, <2>3, <3>1 DEF ApplyReplay, Reopened
    <3> QED
      BY <3>2 DEF RowChange
  <2> QED
    BY <1>1, <2>1, <2>2, <2>3 DEF ApplyReplay
<1>2. ASSUME ReplayMoot(w) \/ ResumeReplay(w) \/ ClaimReplayAgain(w) \/ JoinReplayWork(w)
             \/ ReplaySuperseded(w) \/ CompleteReplay(w) \/ PrepareTerminal(w)
      PROVE  RowChange
  BY <1>2, QuietRow DEF ReplayMoot, ResumeReplay, ClaimReplayAgain, JoinReplayWork,
     ReplaySuperseded, CompleteReplay, PrepareTerminal, rowVars
<1>3. ASSUME ClaimReplayRefused(w) \/ CompleteReplayRefused(w) \/ PrepareTerminalRefused(w)
             \/ CompleteTerminalRefused(w)
      PROVE  RowChange
  BY <1>3, QuietRow DEF ClaimReplayRefused, CompleteReplayRefused, PrepareTerminalRefused,
     CompleteTerminalRefused, Raise, Abandon, End, rowVars
<1>4. ASSUME ClaimReplayWork(w)
      PROVE  RowChange
  BY <1>4 DEF ClaimReplayWork, RowChange, Claimed
<1>5. ASSUME ClaimReplayFailed(w)
      PROVE  RowChange
  <2>1. CASE UNCHANGED <<state, leaseVars, execVars, recVars, identified, deadVars>>
    BY <2>1, QuietRow
  <2>2. CASE ExhaustExecutionDeadline \/ ExhaustReconciliation
    BY <2>2 DEF RowChange
  <2> QED
    BY <1>5, <2>1, <2>2 DEF ClaimReplayFailed
<1>6. ASSUME CompleteTerminal(w)
      PROVE  RowChange
  BY <1>6, QuietRow DEF CompleteTerminal
<1> QED
  BY <1>1, <1>2, <1>3, <1>4, <1>5, <1>6 DEF HandleReplay

\* Every step changes the row in one of these ways.
LEMMA RowStep ==
  ASSUME TypeOK, BusyHasEvent, [Next]_vars
  PROVE  RowChange
<1>1. ASSUME NEW e \in EventIds, Publish(e) \/ Replay(e) \/ GiveUp(e)
      PROVE  RowChange
  BY <1>1, QuietRow DEF Publish, Replay, GiveUp, rowVars
<1>2. ASSUME NEW w \in Workers, NEW e \in EventIds, Deliver(w, e) \/ Overtake(w, e)
      PROVE  RowChange
  BY <1>2, QuietRow DEF Deliver, Overtake, Handling, rowVars
<1>3. ASSUME NEW w \in Workers, WorkerStep(w)
      PROVE  RowChange
  <2>1. CASE RecordConvergence(w)
    BY <2>1, QuietRow DEF RecordConvergence, rowVars
  <2>2. CASE Consume(w)
    BY <2>2, QuietRow DEF Consume
  <2>3. CASE Settle(w)
    BY <2>3, QuietRow DEF Settle, End, rowVars
  <2> QED
    BY <1>3, <2>1, <2>2, <2>3, ExecuteRow, ReconcileRow, ReplayRow DEF WorkerStep
<1>4. ASSUME RecoverClaimed
      PROVE  RowChange
  <2>1. Released
    BY <1>4 DEF RecoverClaimed, Released
  <2> QED
    BY <2>1 DEF RowChange
<1>5. ASSUME RecoverRunning
      PROVE  RowChange
  BY <1>5 DEF RecoverRunning, RowChange
<1>6. ASSUME ScanReadyRetry
      PROVE  RowChange
  BY <1>6, QuietRow DEF ScanReadyRetry
<1>7. ASSUME ScanReconciliation
      PROVE  RowChange
  <2>1. CASE ExhaustReconciliation
    BY <2>1 DEF RowChange
  <2>2. CASE UNCHANGED <<state, leaseVars, execVars, recVars, identified, deadVars>>
    BY <2>2, QuietRow
  <2> QED
    BY <1>7, <2>1, <2>2 DEF ScanReconciliation
<1>8. ASSUME Cancel \/ CompleteHumanWait
      PROVE  RowChange
  <2>1. Ended
    BY <1>8 DEF Cancel, CompleteHumanWait, Ended
  <2> QED
    BY <2>1 DEF RowChange
<1>9. ASSUME LeaseExpires \/ RetryBecomesDue \/ ReconciliationBecomesDue
             \/ ExecutionDeadlineElapses \/ ReconciliationDeadlineElapses
      PROVE  RowChange
  <2>1. Quiet
    BY <1>9 DEF LeaseExpires, RetryBecomesDue, ReconciliationBecomesDue,
       ExecutionDeadlineElapses, ReconciliationDeadlineElapses, Quiet,
       leaseVars, execVars, recVars, deadVars
  <2> QED
    BY <2>1 DEF RowChange
<1>10. ASSUME NEW w \in Workers, WorkerCrash(w) \/ HandlerFails(w)
       PROVE  RowChange
  BY <1>10, QuietRow DEF WorkerCrash, HandlerFails, Abandon, End, rowVars
<1>11. ASSUME UNCHANGED vars
       PROVE  RowChange
  BY <1>11, QuietRow DEF vars, leaseVars, execVars, recVars, deadVars
<1> QED
  BY <1>1, <1>2, <1>3, <1>4, <1>5, <1>6, <1>7, <1>8, <1>9, <1>10, <1>11
     DEF Next, Scanner, Clock, Fault

-----------------------------------------------------------------------------
(* The invariants of the row *)

RowTypeOK ==
    /\ state \in States /\ token \in Token /\ lease \in {"none", "live", "expired"}
    /\ attempts \in Nat /\ maxAttempts \in Nat /\ attempts <= maxAttempts
    /\ recAttempts \in Nat /\ maxRec \in Nat /\ recAttempts <= maxRec
    /\ retryDue \in {"none", "later", "due"} /\ recDue \in {"none", "later", "due"}
    /\ outcome \in Outcomes
    /\ deadLetter \in Nat /\ terminals \in Seq(Reasons)

LastReason ==
    state = "FAILED" =>
        Len(terminals) > 0 /\ terminals[Len(terminals)] = FailureReason(outcome)

RowInv ==
    /\ RowTypeOK /\ NoBlindReexecution /\ RowRecoverable /\ FailedHasDeadLetter
    /\ SuccessIsFinal /\ LastReason

\* The tokens of the claims are tokens.
LEMMA TokenTypes ==
  ASSUME NEW n \in Nat
  PROVE  /\ NoToken \in Token /\ ExecutionToken(n) \in Token
         /\ ReconciliationToken(n) \in Token /\ CallbackToken(n) \in Token
  BY DEF Token, NoToken, ExecutionToken, ReconciliationToken, CallbackToken

\* A failure appends its reason and names the new letter.
LEMMA FailureRecorded ==
  ASSUME terminals \in Seq(Reasons), NEW out \in Outcomes, RecordTerminalFailure(out)
  PROVE  /\ terminals' \in Seq(Reasons) /\ deadLetter' \in Nat
         /\ Len(terminals') = Len(terminals) + 1
         /\ deadLetter' = Len(terminals')
         /\ terminals'[Len(terminals')] = FailureReason(out)
         /\ \A k \in DOMAIN terminals : k \in DOMAIN terminals' /\ terminals'[k] = terminals[k]
<1>1. FailureReason(out) \in Reasons
  BY DEF FailureReason, Reasons
<1> QED
  BY <1>1 DEF RecordTerminalFailure

\* A row that fails with a known or an unknown outcome keeps the invariants.
LEMMA FailedRow ==
  ASSUME RowInv, state' = "FAILED", outcome' \in Outcomes \ {"CONFIRMED_SUCCESS"},
         RecordTerminalFailure(outcome')
  PROVE  /\ NoBlindReexecution' /\ RowRecoverable' /\ FailedHasDeadLetter'
         /\ SuccessIsFinal' /\ LastReason'
<1>1. LastReason' /\ FailedHasDeadLetter'
  BY FailureRecorded DEF RowInv, RowTypeOK, LastReason, FailedHasDeadLetter, FailureReason
<1> QED
  BY <1>1 DEF NoBlindReexecution, RowRecoverable, SuccessIsFinal, Outcomes

\* Whatever a step does to the row keeps its invariants.
LEMMA RowInvStep ==
  ASSUME RowInv, ReasonRemembers, RowChange
  PROVE  RowInv'
<1> USE DEF RowTypeOK
<1>0. ASSUME Quiet
      PROVE  RowInv'
  BY <1>0 DEF Quiet, RowInv, NoBlindReexecution, RowRecoverable, FailedHasDeadLetter,
     SuccessIsFinal, LastReason, FailureReason
<1>1. ASSUME Claimed
      PROVE  RowInv'
  BY <1>1, TokenTypes DEF Claimed, TakeExecution, RowInv, NoBlindReexecution, RowRecoverable,
     FailedHasDeadLetter, SuccessIsFinal, LastReason, recVars, deadVars, States
<1>2. ASSUME Started
      PROVE  RowInv'
  BY <1>2 DEF Started, RowInv, NoBlindReexecution, RowRecoverable, FailedHasDeadLetter,
     SuccessIsFinal, LastReason, leaseVars, execVars, recVars, deadVars, States
<1>3. ASSUME ExhaustExecutionDeadline
      PROVE  RowInv'
  <2>1. /\ state' = "FAILED" /\ outcome' = outcome /\ outcome # "CONFIRMED_SUCCESS"
        /\ RecordTerminalFailure(outcome')
    BY <1>3 DEF ExhaustExecutionDeadline, RowInv, NoBlindReexecution, recVars
  <2>2. RowTypeOK'
    BY <1>3, <2>1, TokenTypes, FailureRecorded
       DEF ExhaustExecutionDeadline, RowInv, ClearLease, recVars, States
  <2> QED
    BY <2>1, <2>2, FailedRow DEF RowInv
<1>4. ASSUME state = "RUNNING", EnterReconciliation
      PROVE  RowInv'
  BY <1>4, TokenTypes DEF EnterReconciliation, ClearLease, RowInv, NoBlindReexecution,
     RowRecoverable, FailedHasDeadLetter, SuccessIsFinal, LastReason, deadVars, States, Outcomes
<1>5. ASSUME TakeReconciliation
      PROVE  RowInv'
  BY <1>5, TokenTypes DEF TakeReconciliation, ReconciliationExhausted, RowInv,
     NoBlindReexecution, RowRecoverable, FailedHasDeadLetter, SuccessIsFinal, LastReason,
     execVars, deadVars
<1>6. ASSUME ExhaustReconciliation
      PROVE  RowInv'
  <2>1. /\ state' = "FAILED" /\ outcome' = outcome /\ outcome # "CONFIRMED_SUCCESS"
        /\ RecordTerminalFailure(outcome')
    BY <1>6 DEF ExhaustReconciliation, RowInv, SuccessIsFinal
  <2>2. RowTypeOK'
    BY <1>6, <2>1, TokenTypes, FailureRecorded
       DEF ExhaustReconciliation, RowInv, ClearLease, execVars, States
  <2> QED
    BY <2>1, <2>2, FailedRow DEF RowInv
<1>7. ASSUME NEW known \in BOOLEAN, Succeeded(known)
      PROVE  RowInv'
  BY <1>7, TokenTypes DEF Succeeded, ApplySuccess, ClearLease, RowInv, NoBlindReexecution,
     RowRecoverable, FailedHasDeadLetter, SuccessIsFinal, LastReason, execVars, deadVars,
     States, Outcomes
<1>8. ASSUME NEW retryable \in BOOLEAN, Failed(retryable)
      PROVE  RowInv'
  <2>1. PICK out \in Outcomes :
           /\ (out = outcome /\ state = "RUNNING") \/ out = "CONFIRMED_FAILURE"
           /\ state \in {"RUNNING", "RECONCILING"}
           /\ ApplyFailure(retryable, out)
    BY <1>8 DEF Failed, RowInv, Outcomes
  <2>2. out \in {"NOT_REQUIRED", "CONFIRMED_FAILURE"} /\ outcome' = out
    BY <2>1 DEF RowInv, NoBlindReexecution, ApplyFailure
  <2>3. CASE state' = "FAILED" /\ retryDue' = "none" /\ RecordTerminalFailure(out)
    <3>1. RowTypeOK'
      BY <2>1, <2>2, <2>3, TokenTypes, FailureRecorded
         DEF ApplyFailure, RowInv, ClearLease, States
    <3> QED
      BY <2>2, <2>3, <3>1, FailedRow DEF RowInv
  <2>4. CASE /\ attempts < maxAttempts /\ state' = "RETRYABLE_FAILED"
             /\ retryDue' \in {"later", "due"} /\ UNCHANGED deadVars
    BY <2>1, <2>2, <2>4, TokenTypes DEF ApplyFailure, ClearLease, RowInv, NoBlindReexecution,
       RowRecoverable, FailedHasDeadLetter, SuccessIsFinal, LastReason, deadVars, States
  <2> QED
    BY <2>1, <2>3, <2>4 DEF ApplyFailure
<1>9. ASSUME Deferred
      PROVE  RowInv'
  <2>1. CASE recDue' = "later" /\ UNCHANGED <<state, deadVars>>
    BY <1>9, <2>1, TokenTypes DEF Deferred, ClearLease, RowInv, NoBlindReexecution,
       RowRecoverable, FailedHasDeadLetter, SuccessIsFinal, LastReason, execVars, deadVars
  <2>2. CASE state' = "FAILED" /\ recDue' = "none" /\ RecordTerminalFailure(outcome)
    <3>1. outcome' = outcome /\ outcome # "CONFIRMED_SUCCESS"
      BY <1>9 DEF Deferred, RowInv, SuccessIsFinal
    <3>2. RowTypeOK'
      BY <1>9, <2>2, <3>1, TokenTypes, FailureRecorded
         DEF Deferred, RowInv, ClearLease, execVars, States
    <3> QED
      BY <2>2, <3>1, <3>2, FailedRow DEF RowInv
  <2> QED
    BY <1>9, <2>1, <2>2 DEF Deferred
<1>10. ASSUME Waiting
       PROVE  RowInv'
  BY <1>10, TokenTypes DEF Waiting, ClearLease, RowInv, NoBlindReexecution, RowRecoverable,
     FailedHasDeadLetter, SuccessIsFinal, LastReason, execVars, recVars, deadVars, States,
     Outcomes
<1>11. ASSUME Released
       PROVE  RowInv'
  <2>1. outcome' = outcome /\ outcome # "CONFIRMED_SUCCESS"
    BY <1>11 DEF Released, RowInv, NoBlindReexecution, recVars
  <2>2. CASE state' = "FAILED" /\ RecordTerminalFailure(outcome) /\ UNCHANGED retryDue
    <3>1. RowTypeOK'
      BY <1>11, <2>1, <2>2, TokenTypes, FailureRecorded
         DEF Released, RowInv, ClearLease, recVars, States
    <3> QED
      BY <2>1, <2>2, <3>1, FailedRow DEF RowInv
  <2>3. CASE /\ attempts < maxAttempts /\ state' = "RETRYABLE_FAILED" /\ retryDue' = "due"
             /\ UNCHANGED deadVars
    BY <1>11, <2>3, TokenTypes DEF Released, ClearLease, RowInv, NoBlindReexecution,
       RowRecoverable, FailedHasDeadLetter, SuccessIsFinal, LastReason, recVars, deadVars, States
  <2> QED
    BY <1>11, <2>2, <2>3 DEF Released
<1>12. ASSUME Ended
       PROVE  RowInv'
  BY <1>12, TokenTypes DEF Ended, Terminal, ClearLease, RowInv, NoBlindReexecution,
     RowRecoverable, FailedHasDeadLetter, SuccessIsFinal, LastReason, leaseVars, execVars,
     recVars, deadVars, States
<1>13. ASSUME NEW e \in EventIds, Reopened(e)
       PROVE  RowInv'
  <2>1. /\ state = "FAILED" /\ deadLetter = Len(terminals)
        /\ event[e].source = TerminalLetter(deadLetter)
    BY <1>13 DEF Reopened, TerminalReplayApplies, RowInv, FailedHasDeadLetter
  <2>2. event[e].reason = FailureReason(outcome)
    BY <2>1 DEF ReasonRemembers, TerminalLetter
  <2>3. outcome # "CONFIRMED_SUCCESS"
    BY <2>1 DEF RowInv, SuccessIsFinal
  <2>4. CASE ReconcileOnly(e)
    BY <1>13, <2>3, <2>4, TokenTypes DEF Reopened, ReplayFailure, ClearLease, RowInv,
       NoBlindReexecution, RowRecoverable, FailedHasDeadLetter, SuccessIsFinal, LastReason,
       execVars, States, Outcomes
  <2>5. CASE ~ReconcileOnly(e)
    <3>1. outcome \in {"NOT_REQUIRED", "CONFIRMED_FAILURE"}
      BY <2>2, <2>3, <2>5 DEF ReconcileOnly, FailureReason, RowInv, Outcomes
    <3> QED
      BY <1>13, <2>5, <3>1, TokenTypes DEF Reopened, ReplayFailure, ClearLease, RowInv,
         NoBlindReexecution, RowRecoverable, FailedHasDeadLetter, SuccessIsFinal, LastReason,
         recVars, States
  <2> QED
    BY <2>4, <2>5
<1> QED
  BY <1>0, <1>1, <1>2, <1>3, <1>4, <1>5, <1>6, <1>7, <1>8, <1>9, <1>10, <1>11, <1>12, <1>13
     DEF RowChange

-----------------------------------------------------------------------------
(* The events *)

Statuses == {"absent", "unpublished", "published", "processed", "dead"}

\* An event moves through the transport.
Moved(e, status) == event' = [event EXCEPT ![e] = [@ EXCEPT !.status = status]]

\* An event is stored: by the scanner without a letter, or by an operator with
\* the reason of the letter it replays.
Stored(e, reason, gen, source) ==
    /\ event' = [event EXCEPT ![e] = NewEvent(reason, gen, source)]
    /\ source.kind = "terminal" =>
          source.number \in DOMAIN terminals /\ reason = terminals[source.number]

\* What a step does to the events.
EventChange ==
    \/ UNCHANGED event
    \/ \E e \in EventIds : \E status \in Statuses : Moved(e, status)
    \/ \E e \in EventIds : \E reason \in Reasons : \E gen \in Nat : \E source \in Letter :
          Stored(e, reason, gen, source)

\* The handler ends.
LEMMA EndEvent ==
  ASSUME BusyHasEvent, NEW w \in Workers, worker[w].pc # "idle",
         NEW status \in Statuses, End(w, status)
  PROVE  EventChange
<1>1. worker[w].event \in EventIds
  BY DEF BusyHasEvent
<1> QED
  BY <1>1 DEF End, EventChange, Moved

LEMMA RaiseEvent ==
  ASSUME BusyHasEvent, NEW w \in Workers, worker[w].pc # "idle", Abandon(w)
  PROVE  EventChange
  BY EndEvent DEF Abandon, Statuses

\* The scanner stores an event of a new generation.
LEMMA EmitEvent ==
  ASSUME generation \in Nat, NEW reason \in Reasons, Emit(reason)
  PROVE  EventChange
<1>1. NoLetter \in Letter /\ NoLetter.kind # "terminal" /\ generation + 1 \in Nat
  BY DEF NoLetter, Letter
<1> QED
  BY <1>1 DEF Emit, EventChange, Stored

\* An operator replays a dead letter.
LEMMA ReplayEvent ==
  ASSUME TypeOK, NEW e \in EventIds, Replay(e)
  PROVE  EventChange
<1>1. ASSUME NEW k \in DOMAIN terminals,
             event' = [event EXCEPT ![e] = NewEvent(terminals[k], 0, TerminalLetter(k))]
      PROVE  EventChange
  <2>1. terminals[k] \in Reasons /\ k \in Nat
    BY DEF TypeOK
  <2>2. TerminalLetter(k) \in Letter /\ TerminalLetter(k).number = k
    BY <2>1 DEF TerminalLetter, Letter
  <2>3. Stored(e, terminals[k], 0, TerminalLetter(k))
    BY <1>1, <2>2 DEF Stored
  <2> QED
    BY <2>1, <2>2, <2>3 DEF EventChange
<1>2. ASSUME NEW f \in EventIds,
             event' = [event EXCEPT ![e] =
                 NewEvent(event[f].reason, event[f].gen, TransportLetter(f))]
      PROVE  EventChange
  <2>1. event[f].reason \in Reasons /\ event[f].gen \in Nat /\ f \in Nat
    BY DEF TypeOK, Event, EventIds
  <2>2. TransportLetter(f) \in Letter /\ TransportLetter(f).kind # "terminal"
    BY <2>1 DEF TransportLetter, Letter
  <2>3. Stored(e, event[f].reason, event[f].gen, TransportLetter(f))
    BY <1>2, <2>2 DEF Stored
  <2> QED
    BY <2>1, <2>2, <2>3 DEF EventChange
<1> QED
  BY <1>1, <1>2 DEF Replay

\* Every step changes the events in one of these ways.
LEMMA EventStep ==
  ASSUME TypeOK, BusyHasEvent, [Next]_vars
  PROVE  EventChange
<1> USE DEF EventChange
<1>1. ASSUME NEW e \in EventIds, Publish(e) \/ GiveUp(e)
      PROVE  EventChange
  BY <1>1 DEF Publish, GiveUp, Moved, Statuses
<1>2. ASSUME NEW w \in Workers, NEW e \in EventIds, Deliver(w, e) \/ Overtake(w, e)
      PROVE  EventChange
  BY <1>2 DEF Deliver, Overtake, Handling
<1>3. ASSUME NEW w \in Workers, Execute(w)
      PROVE  EventChange
  <2>1. CASE ExecuteRefused(w) \/ ClaimRefused(w) \/ StartRefused(w) \/ LateExecutionRefused(w)
    BY <2>1, RaiseEvent DEF ExecuteRefused, ClaimRefused, StartRefused, LateExecutionRefused, Raise
  <2> QED
    BY <1>3, <2>1 DEF Execute, ReadOperation, ClaimExecution, ReadExhausted, Start, Succeed,
       WaitForHuman, RequireReconciliation, Fail, LateExecution, LateResult
<1>4. ASSUME NEW w \in Workers, Reconcile(w)
      PROVE  EventChange
  <2>1. CASE ExhaustRefused(w) \/ ClaimReconciliationRefused(w) \/ ReconciliationRefused(w)
    BY <2>1, RaiseEvent DEF ExhaustRefused, ClaimReconciliationRefused, ReconciliationRefused,
       Raise
  <2> QED
    BY <1>4, <2>1 DEF Reconcile, Exhaust, ClaimReconciliation, ReadClaim, ConfirmSuccess,
       ConfirmFailure, DeferReconciliation, WaitForHumanAfterReconciliation,
       LateReconciliation, LateResult
<1>5. ASSUME NEW w \in Workers, HandleReplay(w)
      PROVE  EventChange
  <2>1. CASE ClaimReplayRefused(w) \/ CompleteReplayRefused(w) \/ PrepareTerminalRefused(w)
             \/ CompleteTerminalRefused(w)
    BY <2>1, RaiseEvent DEF ClaimReplayRefused, CompleteReplayRefused, PrepareTerminalRefused,
       CompleteTerminalRefused, Raise
  <2> QED
    BY <1>5, <2>1 DEF HandleReplay, ApplyReplay, ReplayMoot, ResumeReplay, ClaimReplayAgain,
       ClaimReplayWork, JoinReplayWork, ClaimReplayFailed, ReplaySuperseded, CompleteReplay,
       PrepareTerminal, CompleteTerminal
<1>6. ASSUME NEW w \in Workers, RecordConvergence(w) \/ Consume(w)
      PROVE  EventChange
  BY <1>6 DEF RecordConvergence, Consume
<1>7. ASSUME NEW w \in Workers, Settle(w)
      PROVE  EventChange
  BY <1>7, EndEvent DEF Settle, Statuses
<1>8. ASSUME Scanner
      PROVE  EventChange
  BY <1>8, EmitEvent DEF Scanner, RecoverClaimed, RecoverRunning, ScanReadyRetry,
     ScanReconciliation, Reasons, TypeOK
<1>9. ASSUME CompleteHumanWait \/ Cancel \/ Clock
             \/ ExecutionDeadlineElapses \/ ReconciliationDeadlineElapses
      PROVE  EventChange
  BY <1>9 DEF CompleteHumanWait, Cancel, Clock, LeaseExpires, RetryBecomesDue,
     ReconciliationBecomesDue, ExecutionDeadlineElapses, ReconciliationDeadlineElapses
<1>10. ASSUME NEW w \in Workers, WorkerCrash(w)
       PROVE  EventChange
  BY <1>10 DEF WorkerCrash
<1>11. ASSUME NEW w \in Workers, HandlerFails(w)
       PROVE  EventChange
  BY <1>11, RaiseEvent DEF HandlerFails
<1>12. ASSUME UNCHANGED vars
       PROVE  EventChange
  BY <1>12 DEF vars
<1> QED
  BY <1>1, <1>2, <1>3, <1>4, <1>5, <1>6, <1>7, <1>8, <1>9, <1>10, <1>11, <1>12, ReplayEvent
     DEF Next, WorkerStep, Fault

\* A step leaves the terminal failures alone or adds one.
LEMMA TerminalsGrow ==
  ASSUME RowInv, RowChange, NEW k \in DOMAIN terminals
  PROVE  k \in DOMAIN terminals' /\ terminals'[k] = terminals[k]
<1>1. CASE UNCHANGED terminals
  BY <1>1
<1>2. CASE \E out \in Outcomes : RecordTerminalFailure(out)
  BY <1>2, FailureRecorded DEF RowInv, RowTypeOK
<1>3. UNCHANGED terminals \/ \E out \in Outcomes : RecordTerminalFailure(out)
  BY DEF RowChange, Quiet, Claimed, TakeExecution, Started, ExhaustExecutionDeadline,
     EnterReconciliation, TakeReconciliation, ExhaustReconciliation, Succeeded, ApplySuccess,
     Failed, ApplyFailure, Deferred, Waiting, Released, Ended, Reopened, ReplayFailure,
     deadVars, RowInv, RowTypeOK, Outcomes
<1> QED
  BY <1>1, <1>2, <1>3

\* A replay keeps the reason of its letter.
LEMMA ReasonStep ==
  ASSUME TypeOK, RowInv, ReasonRemembers, RowChange, EventChange, RowInv'
  PROVE  ReasonRemembers' /\ event' \in [EventIds -> Event]
<1>1. event' \in [EventIds -> Event]
  <2>1. ASSUME NEW e \in EventIds, NEW status \in Statuses, Moved(e, status)
        PROVE  event' \in [EventIds -> Event]
    <3>1. [event[e] EXCEPT !.status = status] \in Event
      BY DEF TypeOK, Event, Statuses
    <3> QED
      BY <2>1, <3>1 DEF Moved, TypeOK
  <2>2. ASSUME NEW e \in EventIds, NEW reason \in Reasons, NEW gen \in Nat,
               NEW source \in Letter, Stored(e, reason, gen, source)
        PROVE  event' \in [EventIds -> Event]
    <3>1. NewEvent(reason, gen, source) \in Event
      BY DEF NewEvent, Event
    <3> QED
      BY <2>2, <3>1 DEF Stored, TypeOK
  <2> QED
    BY <2>1, <2>2 DEF EventChange, TypeOK
<1>2. ASSUME NEW f \in EventIds, event'[f].source.kind = "terminal"
      PROVE  /\ event'[f].source.number \in DOMAIN terminals
             /\ event'[f].reason = terminals[event'[f].source.number]
  <2>1. CASE event'[f].source = event[f].source /\ event'[f].reason = event[f].reason
    BY <1>2, <2>1 DEF ReasonRemembers
  <2>2. ASSUME NEW e \in EventIds, NEW status \in Statuses, Moved(e, status)
        PROVE  event'[f].source = event[f].source /\ event'[f].reason = event[f].reason
    BY <2>2 DEF Moved, TypeOK, Event
  <2>3. ASSUME NEW e \in EventIds, NEW reason \in Reasons, NEW gen \in Nat,
               NEW source \in Letter, Stored(e, reason, gen, source), e = f
        PROVE  /\ event'[f].source.number \in DOMAIN terminals
               /\ event'[f].reason = terminals[event'[f].source.number]
    <3>1. event'[f].source = source /\ event'[f].reason = reason
      BY <2>3 DEF Stored, NewEvent, TypeOK
    <3> QED
      BY <1>2, <2>3, <3>1 DEF Stored
  <2>4. ASSUME NEW e \in EventIds, NEW reason \in Reasons, NEW gen \in Nat,
               NEW source \in Letter, Stored(e, reason, gen, source), e # f
        PROVE  event'[f].source = event[f].source /\ event'[f].reason = event[f].reason
    BY <2>4 DEF Stored, TypeOK
  <2> QED
    BY <2>1, <2>2, <2>3, <2>4 DEF EventChange
<1>3. ASSUME NEW f \in EventIds, event'[f].source.kind = "terminal"
      PROVE  /\ event'[f].source.number \in DOMAIN terminals'
             /\ event'[f].reason = terminals'[event'[f].source.number]
  BY <1>2, <1>3, TerminalsGrow
<1> QED
  BY <1>1, <1>3 DEF RowInv, LastReason, ReasonRemembers

-----------------------------------------------------------------------------
(* The workers *)

\* What a step does to the workers: a worker moves and leaves the row alone, or
\* the row is saved and nobody else's reading of it is current.
WorkerChange ==
    \/ UNCHANGED <<worker, state, token>>
    \/ OutdateAll
    \/ \E w \in Workers : \E next \in WorkerState :
          /\ next.pc # "idle" => next.event \in EventIds
          /\ \/ Move(w, next) /\ UNCHANGED <<state, token>> /\ next.pc # "running"
             \/ /\ Touch(w, next)
                /\ next.pc = "running" => state' = "RUNNING" /\ token' = next.token

PCs == {"idle", "execute", "claim", "retry", "start", "running", "exhaust",
        "claim_reconciliation", "read_claim", "reconciling", "exhausted",
        "converge", "prepare", "claim_replay", "complete_replay",
        "prepare_terminal", "complete_terminal", "consume", "done"}

\* Where a worker goes is a state of a worker.
LEMMA NextTypes ==
  ASSUME NEW pc \in PCs, NEW e \in 0..MaxEvents, NEW t \in Token, NEW k \in Nat
  PROVE  /\ At(pc, e) \in WorkerState /\ At(pc, e).pc = pc /\ At(pc, e).event = e
         /\ Holding(pc, e, t) \in WorkerState /\ Holding(pc, e, t).pc = pc
         /\ Holding(pc, e, t).event = e
         /\ Reading(pc, e, t) \in WorkerState /\ Reading(pc, e, t).pc = pc
         /\ Reading(pc, e, t).event = e /\ Reading(pc, e, t).token = t
         /\ Telling(e, t, k) \in WorkerState /\ Telling(e, t, k).pc = "converge"
         /\ Telling(e, t, k).event = e
<1>1. NoToken \in Token /\ 0 \in Nat
  BY DEF NoToken, Token
<1> QED
  BY <1>1 DEF PCs, At, Holding, Reading, Telling, WorkerState

LEMMA StepChange ==
  ASSUME NEW w \in Workers, NEW next \in WorkerState,
         next.pc # "idle" => next.event \in EventIds, next.pc # "running",
         Move(w, next), UNCHANGED <<state, token>>
  PROVE  WorkerChange
  BY DEF WorkerChange

LEMMA TouchChange ==
  ASSUME NEW w \in Workers, NEW next \in WorkerState,
         next.pc # "idle" => next.event \in EventIds, Touch(w, next),
         next.pc = "running" => state' = "RUNNING" /\ token' = next.token
  PROVE  WorkerChange
  BY DEF WorkerChange

\* A handler that goes on, or tells the target, keeps its event.
LEMMA GoOnType ==
  ASSUME TypeOK, BusyHasEvent, NEW w \in Workers, worker[w].pc # "idle", NEW k \in Nat
  PROVE  /\ GoOn(w) \in WorkerState /\ GoOn(w).event \in EventIds /\ GoOn(w).pc # "running"
         /\ Converge(w, k) \in WorkerState /\ Converge(w, k).event \in EventIds
         /\ Converge(w, k).pc # "running"
<1>1. PICK e \in EventIds : e = worker[w].event
  BY DEF BusyHasEvent
<1>2. e \in 0..MaxEvents /\ worker[w].token \in Token
  BY DEF TypeOK, WorkerState, EventIds
<1>3. Afterwards(e) \in PCs \ {"running"}
  BY DEF Afterwards, PCs
<1> QED
  BY <1>1, <1>2, <1>3, NextTypes DEF GoOn, Converge

\* The handler ends: the worker is idle.
LEMMA EndChange ==
  ASSUME NEW w \in Workers, NEW status, End(w, status)
  PROVE  WorkerChange
<1>1. At("idle", 0) \in WorkerState /\ At("idle", 0).pc = "idle"
  BY NextTypes, TokenTypes DEF PCs
<1>2. Move(w, At("idle", 0)) /\ UNCHANGED <<state, token>>
  BY DEF End, rowVars, leaseVars
<1> QED
  BY <1>1, <1>2, StepChange

\* A worker goes to another step of the same event.
LEMMA SameEvent ==
  ASSUME TypeOK, BusyHasEvent, NEW w \in Workers, worker[w].pc # "idle",
         NEW pc \in PCs \ {"idle"}, NEW t \in Token, NEW k \in Nat,
         NEW next \in {At(pc, worker[w].event), Holding(pc, worker[w].event, t),
                       Reading(pc, worker[w].event, t), Telling(worker[w].event, t, k)}
  PROVE  /\ next \in WorkerState /\ next.event \in EventIds
         /\ next.pc = pc \/ next.pc = "converge"
<1>1. PICK e \in EventIds : e = worker[w].event
  BY DEF BusyHasEvent
<1>2. e \in 0..MaxEvents
  BY DEF EventIds
<1> QED
  BY <1>1, <1>2, NextTypes

\* The steps of the execution.
LEMMA ExecuteWorker ==
  ASSUME TypeOK, BusyHasEvent, RowInv', NEW w \in Workers, Execute(w)
  PROVE  WorkerChange
<1>0. /\ NoToken \in Token /\ 0 \in Nat /\ deadLetter \in Nat /\ deadLetter' \in Nat
      /\ attempts + 1 \in Nat
  BY TokenTypes DEF TypeOK, RowInv, RowTypeOK
<1>1. ASSUME ReadOperation(w)
      PROVE  WorkerChange
  <2>1. worker[w].pc # "idle" /\ UNCHANGED <<state, token>>
    BY <1>1 DEF ReadOperation, rowVars, leaseVars
  <2>2. ASSUME NEW pc \in {"claim", "retry", "exhaust", "claim_reconciliation", "consume"},
               Step(w, At(pc, worker[w].event))
        PROVE  WorkerChange
    BY <1>0, <2>1, <2>2, SameEvent, StepChange DEF Step, PCs
  <2>3. ASSUME Step(w, Telling(worker[w].event, NoToken, deadLetter))
        PROVE  WorkerChange
    BY <1>0, <2>1, <2>3, SameEvent, StepChange DEF Step, PCs
  <2> QED
    BY <1>1, <2>2, <2>3 DEF ReadOperation
<1>2. ASSUME ExecuteRefused(w) \/ ClaimRefused(w) \/ StartRefused(w) \/ LateExecutionRefused(w)
      PROVE  WorkerChange
  BY <1>2, EndChange DEF ExecuteRefused, ClaimRefused, StartRefused, LateExecutionRefused,
     Raise, Abandon
<1>3. ASSUME ClaimExecution(w)
      PROVE  WorkerChange
  <2>1. worker[w].pc # "idle"
    BY <1>3 DEF ClaimExecution
  <2>2. CASE Touch(w, At("exhausted", worker[w].event))
    BY <1>0, <2>1, <2>2, SameEvent, TouchChange DEF PCs
  <2>3. CASE Touch(w, Holding("start", worker[w].event, ExecutionToken(attempts + 1)))
    BY <1>0, <2>1, <2>3, SameEvent, TouchChange, TokenTypes DEF PCs
  <2> QED
    BY <1>3, <2>2, <2>3 DEF ClaimExecution
<1>4. ASSUME ReadExhausted(w)
      PROVE  WorkerChange
  <2>1. worker[w].pc # "idle" /\ UNCHANGED <<state, token>>
    BY <1>4 DEF ReadExhausted, rowVars, leaseVars
  <2>2. CASE Step(w, Telling(worker[w].event, NoToken, deadLetter))
    BY <1>0, <2>1, <2>2, SameEvent, StepChange DEF Step, PCs
  <2>3. CASE Step(w, At("consume", worker[w].event))
    BY <1>0, <2>1, <2>3, SameEvent, StepChange DEF Step, PCs
  <2> QED
    BY <1>4, <2>2, <2>3 DEF ReadExhausted
<1>5. ASSUME Start(w)
      PROVE  WorkerChange
  <2>1. PICK e \in EventIds : e = worker[w].event
    BY <1>5 DEF Start, BusyHasEvent
  <2>2. e \in 0..MaxEvents /\ worker[w].token \in Token
    BY DEF TypeOK, WorkerState, EventIds
  <2>3. /\ Reading("running", e, worker[w].token) \in WorkerState
        /\ Reading("running", e, worker[w].token).event = e
        /\ Reading("running", e, worker[w].token).token = worker[w].token
    BY <2>2, NextTypes, 0 \in Nat DEF PCs
  <2>4. state' = "RUNNING" /\ token' = worker[w].token
    BY <1>5 DEF Start, leaseVars
  <2> QED
    BY <1>5, <2>1, <2>3, <2>4, TouchChange DEF Start
<1>6. ASSUME Succeed(w) \/ WaitForHuman(w) \/ RequireReconciliation(w)
      PROVE  WorkerChange
  <2>1. worker[w].pc # "idle" /\ Touch(w, GoOn(w))
    BY <1>6 DEF Succeed, WaitForHuman, RequireReconciliation, ExecutionAuthority
  <2> QED
    BY <1>0, <2>1, GoOnType, TouchChange
<1>7. ASSUME Fail(w)
      PROVE  WorkerChange
  <2>1. worker[w].pc # "idle" /\ (Touch(w, GoOn(w)) \/ Touch(w, Converge(w, deadLetter')))
    BY <1>7 DEF Fail, ExecutionAuthority, SettleFailure
  <2> QED
    BY <1>0, <2>1, GoOnType, TouchChange
<1>8. ASSUME LateExecution(w)
      PROVE  WorkerChange
  <2>1. worker[w].pc # "idle" /\ UNCHANGED <<state, token>>
    BY <1>8 DEF LateExecution, LateResult, leaseVars
  <2>2. PICK next \in {GoOn(w), Converge(w, deadLetter)} : Step(w, next) \/ Touch(w, next)
    BY <1>8 DEF LateExecution, LateResult
  <2> QED
    BY <1>0, <2>1, <2>2, GoOnType, StepChange, TouchChange DEF Step
<1> QED
  BY <1>1, <1>2, <1>3, <1>4, <1>5, <1>6, <1>7, <1>8 DEF Execute

\* The steps of the reconciliation.
LEMMA ReconcileWorker ==
  ASSUME TypeOK, BusyHasEvent, RowInv', NEW w \in Workers, Reconcile(w)
  PROVE  WorkerChange
<1>0. /\ NoToken \in Token /\ 0 \in Nat /\ deadLetter \in Nat /\ deadLetter' \in Nat
      /\ recAttempts + 1 \in Nat
  BY TokenTypes DEF TypeOK, RowInv, RowTypeOK
<1>1. ASSUME Exhaust(w)
      PROVE  WorkerChange
  <2>1. /\ worker[w].pc # "idle"
        /\ Touch(w, Telling(worker[w].event, NoToken, deadLetter'))
    BY <1>1 DEF Exhaust
  <2> QED
    BY <1>0, <2>1, SameEvent, TouchChange, "exhaust" \in PCs \ {"idle"} DEF PCs
<1>2. ASSUME ExhaustRefused(w) \/ ClaimReconciliationRefused(w) \/ ReconciliationRefused(w)
      PROVE  WorkerChange
  BY <1>2, EndChange DEF ExhaustRefused, ClaimReconciliationRefused, ReconciliationRefused,
     Raise, Abandon
<1>3. ASSUME ClaimReconciliation(w)
      PROVE  WorkerChange
  <2>1. worker[w].pc # "idle"
    BY <1>3 DEF ClaimReconciliation
  <2>2. CASE Touch(w, At("exhausted", worker[w].event))
    BY <1>0, <2>1, <2>2, SameEvent, TouchChange DEF PCs
  <2>3. CASE Touch(w, Holding("read_claim", worker[w].event,
                              ReconciliationToken(recAttempts + 1)))
    BY <1>0, <2>1, <2>3, SameEvent, TouchChange, TokenTypes DEF PCs
  <2> QED
    BY <1>3, <2>2, <2>3 DEF ClaimReconciliation
<1>4. ASSUME ReadClaim(w)
      PROVE  WorkerChange
  <2>1. /\ worker[w].pc # "idle" /\ UNCHANGED <<state, token>> /\ worker[w].token \in Token
        /\ Step(w, Reading("reconciling", worker[w].event, worker[w].token))
    BY <1>4 DEF ReadClaim, rowVars, leaseVars, TypeOK, WorkerState
  <2> QED
    BY <1>0, <2>1, SameEvent, StepChange DEF Step, PCs
<1>5. ASSUME ConfirmSuccess(w) \/ WaitForHumanAfterReconciliation(w)
      PROVE  WorkerChange
  <2>1. worker[w].pc # "idle" /\ Touch(w, GoOn(w))
    BY <1>5 DEF ConfirmSuccess, WaitForHumanAfterReconciliation, ReconciliationAuthority
  <2> QED
    BY <1>0, <2>1, GoOnType, TouchChange
<1>6. ASSUME ConfirmFailure(w) \/ DeferReconciliation(w)
      PROVE  WorkerChange
  <2>1. worker[w].pc # "idle" /\ (Touch(w, GoOn(w)) \/ Touch(w, Converge(w, deadLetter')))
    BY <1>6 DEF ConfirmFailure, DeferReconciliation, ReconciliationAuthority, SettleFailure
  <2> QED
    BY <1>0, <2>1, GoOnType, TouchChange
<1>7. ASSUME LateReconciliation(w)
      PROVE  WorkerChange
  <2>1. worker[w].pc # "idle" /\ UNCHANGED <<state, token>>
    BY <1>7 DEF LateReconciliation, LateResult, leaseVars
  <2>2. PICK next \in {GoOn(w), Converge(w, deadLetter)} : Step(w, next) \/ Touch(w, next)
    BY <1>7 DEF LateReconciliation, LateResult
  <2> QED
    BY <1>0, <2>1, <2>2, GoOnType, StepChange, TouchChange DEF Step
<1> QED
  BY <1>1, <1>2, <1>3, <1>4, <1>5, <1>6, <1>7 DEF Reconcile

\* The steps of a replayed dead letter.
LEMMA ReplayWorker ==
  ASSUME TypeOK, BusyHasEvent, RowInv', NEW w \in Workers, HandleReplay(w)
  PROVE  WorkerChange
<1>0. /\ NoToken \in Token /\ 0 \in Nat /\ deadLetter \in Nat /\ deadLetter' \in Nat
      /\ token' \in Token
  BY TokenTypes DEF TypeOK, RowInv, RowTypeOK
<1>1. ASSUME ApplyReplay(w)
      PROVE  WorkerChange
  <2>1. worker[w].pc # "idle" /\ Touch(w, At("claim_replay", worker[w].event))
    BY <1>1 DEF ApplyReplay
  <2> QED
    BY <1>0, <2>1, SameEvent, TouchChange DEF PCs
<1>2. ASSUME ReplayMoot(w) \/ ResumeReplay(w) \/ JoinReplayWork(w) \/ ReplaySuperseded(w)
             \/ CompleteReplay(w)
      PROVE  WorkerChange
  <2>1. /\ worker[w].pc # "idle" /\ UNCHANGED <<state, token>>
        /\ \E pc \in {"consume", "claim_replay"} : Step(w, At(pc, worker[w].event))
    BY <1>2 DEF ReplayMoot, ResumeReplay, JoinReplayWork, ReplaySuperseded, CompleteReplay,
       rowVars, leaseVars
  <2> QED
    BY <1>0, <2>1, SameEvent, StepChange DEF Step, PCs
<1>3. ASSUME ClaimReplayAgain(w)
      PROVE  WorkerChange
  <2>1. worker[w].pc # "idle" /\ UNCHANGED <<state, token>>
    BY <1>3 DEF ClaimReplayAgain, rowVars, leaseVars
  <2>2. CASE Step(w, At("consume", worker[w].event))
    BY <1>0, <2>1, <2>2, SameEvent, StepChange DEF Step, PCs
  <2>3. CASE Step(w, Telling(worker[w].event, replay[worker[w].event].claim, deadLetter))
    <3>1. PICK e \in EventIds : e = worker[w].event
      BY <2>1 DEF BusyHasEvent
    <3>2. replay[e].claim \in Token
      BY DEF TypeOK, Lifecycle
    <3> QED
      BY <1>0, <2>1, <2>3, <3>1, <3>2, SameEvent, StepChange, "consume" \in PCs \ {"idle"}
         DEF Step, PCs
  <2> QED
    BY <1>3, <2>2, <2>3 DEF ClaimReplayAgain
<1>4. ASSUME ClaimReplayWork(w)
      PROVE  WorkerChange
  <2>1. PICK e \in EventIds : e = worker[w].event
    BY <1>4 DEF ClaimReplayWork, BusyHasEvent
  <2>2. e \in 0..MaxEvents
    BY DEF EventIds
  <2>3. CASE state' = "RUNNING" /\ Touch(w, Reading("running", e, token'))
    <3>1. /\ Reading("running", e, token') \in WorkerState
          /\ Reading("running", e, token').event = e
          /\ Reading("running", e, token').token = token'
      BY <1>0, <2>2, NextTypes DEF PCs
    <3> QED
      BY <2>3, <3>1, TouchChange
  <2>4. CASE Touch(w, Reading("reconciling", e, token'))
    <3>1. /\ Reading("reconciling", e, token') \in WorkerState
          /\ Reading("reconciling", e, token').event = e
          /\ Reading("reconciling", e, token').pc = "reconciling"
      BY <1>0, <2>2, NextTypes DEF PCs
    <3> QED
      BY <2>4, <3>1, TouchChange
  <2> QED
    BY <1>4, <2>1, <2>3, <2>4 DEF ClaimReplayWork, TakeExecution
<1>5. ASSUME ClaimReplayFailed(w)
      PROVE  WorkerChange
  <2>1. PICK e \in EventIds : e = worker[w].event
    BY <1>5 DEF ClaimReplayFailed, BusyHasEvent
  <2>2. e \in 0..MaxEvents /\ CallbackToken(e) \in Token
    BY TokenTypes DEF EventIds
  <2>3. CASE Step(w, Telling(e, CallbackToken(e), deadLetter)) /\ UNCHANGED <<state, token>>
    <3>1. /\ Telling(e, CallbackToken(e), deadLetter) \in WorkerState
          /\ Telling(e, CallbackToken(e), deadLetter).event = e
          /\ Telling(e, CallbackToken(e), deadLetter).pc = "converge"
      BY <1>0, <2>2, NextTypes, "converge" \in PCs DEF PCs
    <3> QED
      BY <2>3, <3>1, StepChange DEF Step
  <2>4. CASE Touch(w, Telling(e, CallbackToken(e), deadLetter'))
    <3>1. /\ Telling(e, CallbackToken(e), deadLetter') \in WorkerState
          /\ Telling(e, CallbackToken(e), deadLetter').event = e
          /\ Telling(e, CallbackToken(e), deadLetter').pc = "converge"
      BY <1>0, <2>2, NextTypes, "converge" \in PCs DEF PCs
    <3> QED
      BY <2>4, <3>1, TouchChange
  <2> QED
    BY <1>5, <2>1, <2>3, <2>4 DEF ClaimReplayFailed, leaseVars
<1>6. ASSUME ClaimReplayRefused(w) \/ CompleteReplayRefused(w) \/ PrepareTerminalRefused(w)
             \/ CompleteTerminalRefused(w)
      PROVE  WorkerChange
  BY <1>6, EndChange DEF ClaimReplayRefused, CompleteReplayRefused, PrepareTerminalRefused,
     CompleteTerminalRefused, Raise, Abandon
<1>7. ASSUME PrepareTerminal(w)
      PROVE  WorkerChange
  <2>1. worker[w].pc # "idle" /\ UNCHANGED <<state, token>>
    BY <1>7 DEF PrepareTerminal, rowVars, leaseVars
  <2>2. CASE Step(w, At("done", worker[w].event))
    BY <1>0, <2>1, <2>2, SameEvent, StepChange DEF Step, PCs
  <2>3. CASE Step(w, Telling(worker[w].event, NoToken, deadLetter))
    BY <1>0, <2>1, <2>3, SameEvent, StepChange, "done" \in PCs \ {"idle"} DEF Step, PCs
  <2> QED
    BY <1>7, <2>2, <2>3 DEF PrepareTerminal
<1>8. ASSUME CompleteTerminal(w)
      PROVE  WorkerChange
  <2>1. worker[w].pc # "idle" /\ UNCHANGED <<state, token>>
    BY <1>8 DEF CompleteTerminal, leaseVars
  <2>2. Step(w, At("done", worker[w].event)) \/ Touch(w, At("done", worker[w].event))
    BY <1>8 DEF CompleteTerminal
  <2> QED
    BY <1>0, <2>1, <2>2, SameEvent, StepChange, TouchChange DEF Step, PCs
<1> QED
  BY <1>1, <1>2, <1>3, <1>4, <1>5, <1>6, <1>7, <1>8 DEF HandleReplay

\* Every step changes the workers in one of these ways.
LEMMA WorkersStep ==
  ASSUME TypeOK, BusyHasEvent, RowInv', [Next]_vars
  PROVE  WorkerChange
<1>0. NoToken \in Token /\ 0 \in Nat
  BY TokenTypes
<1>1. ASSUME NEW e \in EventIds, Publish(e) \/ Replay(e) \/ GiveUp(e)
      PROVE  WorkerChange
  BY <1>1 DEF Publish, Replay, GiveUp, WorkerChange, rowVars, leaseVars
<1>2. ASSUME NEW w \in Workers, NEW e \in EventIds, Deliver(w, e) \/ Overtake(w, e)
      PROVE  WorkerChange
  <2>1. PICK pc \in {"prepare_terminal", "prepare", "execute"} : Move(w, At(pc, e))
    BY <1>2 DEF Deliver, Overtake, Handling
  <2>2. At(pc, e) \in WorkerState /\ At(pc, e).event = e /\ At(pc, e).pc = pc
    BY <1>0, NextTypes, e \in 0..MaxEvents, pc \in PCs DEF PCs, EventIds
  <2>3. UNCHANGED <<state, token>>
    BY <1>2 DEF Deliver, Overtake, Handling, rowVars, leaseVars
  <2> QED
    BY <2>1, <2>2, <2>3, StepChange
<1>3. ASSUME NEW w \in Workers, WorkerStep(w)
      PROVE  WorkerChange
  <2>1. CASE RecordConvergence(w)
    <3>1. worker[w].pc # "idle" /\ UNCHANGED <<state, token>> /\ Move(w, GoOn(w))
      BY <2>1 DEF RecordConvergence, Step, rowVars, leaseVars
    <3> QED
      BY <1>0, <3>1, GoOnType, StepChange
  <2>2. CASE Consume(w)
    <3>1. worker[w].pc # "idle" /\ UNCHANGED <<state, token>>
      BY <2>2 DEF Consume, leaseVars
    <3>2. Step(w, At("done", worker[w].event)) \/ Touch(w, At("done", worker[w].event))
      BY <2>2 DEF Consume
    <3> QED
      BY <1>0, <3>1, <3>2, SameEvent, StepChange, TouchChange DEF Step, PCs
  <2>3. CASE Settle(w)
    BY <2>3, EndChange DEF Settle
  <2> QED
    BY <1>3, <2>1, <2>2, <2>3, ExecuteWorker, ReconcileWorker, ReplayWorker DEF WorkerStep
<1>4. ASSUME Scanner \/ CompleteHumanWait \/ Cancel
      PROVE  WorkerChange
  BY <1>4 DEF Scanner, RecoverClaimed, RecoverRunning, ScanReadyRetry, ScanReconciliation,
     CompleteHumanWait, Cancel, TouchAll, WorkerChange
<1>5. ASSUME Clock \/ ExecutionDeadlineElapses \/ ReconciliationDeadlineElapses
      PROVE  WorkerChange
  BY <1>5 DEF Clock, LeaseExpires, RetryBecomesDue, ReconciliationBecomesDue,
     ExecutionDeadlineElapses, ReconciliationDeadlineElapses, WorkerChange, leaseVars
<1>6. ASSUME NEW w \in Workers, WorkerCrash(w)
      PROVE  WorkerChange
  <2>1. At("idle", 0) \in WorkerState /\ At("idle", 0).pc = "idle"
    BY <1>0, NextTypes DEF PCs
  <2> QED
    BY <1>6, <2>1, StepChange DEF WorkerCrash, rowVars, leaseVars
<1>7. ASSUME NEW w \in Workers, HandlerFails(w)
      PROVE  WorkerChange
  BY <1>7, EndChange DEF HandlerFails, Abandon
<1>8. ASSUME UNCHANGED vars
      PROVE  WorkerChange
  BY <1>8 DEF vars, WorkerChange
<1> QED
  BY <1>1, <1>2, <1>3, <1>4, <1>5, <1>6, <1>7, <1>8 DEF Next, Fault

\* The workers keep their types and their events, and the executor whose
\* version is current keeps the row.
LEMMA WorkerInvStep ==
  ASSUME TypeOK, BusyHasEvent, ExecutorOwnsRow, WorkerChange
  PROVE  /\ worker' \in [Workers -> WorkerState]
         /\ BusyHasEvent' /\ ExecutorOwnsRow'
<1>0. ASSUME NEW v \in Workers
      PROVE  /\ [worker[v] EXCEPT !.current = FALSE] \in WorkerState
             /\ [worker[v] EXCEPT !.current = FALSE].pc = worker[v].pc
             /\ [worker[v] EXCEPT !.current = FALSE].event = worker[v].event
             /\ [worker[v] EXCEPT !.current = FALSE].current = FALSE
  BY DEF TypeOK, WorkerState
<1>1. CASE UNCHANGED <<worker, state, token>>
  BY <1>1 DEF TypeOK, BusyHasEvent, ExecutorOwnsRow
<1>2. CASE OutdateAll
  BY <1>0, <1>2 DEF OutdateAll, BusyHasEvent, ExecutorOwnsRow
<1>3. ASSUME NEW w \in Workers, NEW next \in WorkerState,
             next.pc # "idle" => next.event \in EventIds,
             Move(w, next), UNCHANGED <<state, token>>, next.pc # "running"
      PROVE  /\ worker' \in [Workers -> WorkerState]
             /\ BusyHasEvent' /\ ExecutorOwnsRow'
  <2>1. worker' \in [Workers -> WorkerState]
    BY <1>3 DEF Move, TypeOK
  <2>2. BusyHasEvent' /\ ExecutorOwnsRow'
    BY <1>3 DEF Move, TypeOK, BusyHasEvent, ExecutorOwnsRow
  <2> QED
    BY <2>1, <2>2
<1>4. ASSUME NEW w \in Workers, NEW next \in WorkerState,
             next.pc # "idle" => next.event \in EventIds, Touch(w, next),
             next.pc = "running" => state' = "RUNNING" /\ token' = next.token
      PROVE  /\ worker' \in [Workers -> WorkerState]
             /\ BusyHasEvent' /\ ExecutorOwnsRow'
  <2>1. worker' \in [Workers -> WorkerState]
    BY <1>0, <1>4 DEF Touch
  <2>2. BusyHasEvent'
    BY <1>0, <1>4 DEF Touch, BusyHasEvent
  <2>3. ExecutorOwnsRow'
    BY <1>0, <1>4 DEF Touch, ExecutorOwnsRow
  <2> QED
    BY <2>1, <2>2, <2>3
<1> QED
  BY <1>1, <1>2, <1>3, <1>4 DEF WorkerChange

-----------------------------------------------------------------------------
(* The other types *)

\* The flags, the generations and the lifecycles of the replays.
RestTypeOK ==
    /\ execElapsed \in BOOLEAN /\ recElapsed \in BOOLEAN /\ identified \in BOOLEAN
    /\ replayOf \in 0..MaxEvents /\ generation \in Nat /\ consumed \in Nat
    /\ replay \in [EventIds -> Lifecycle]

TransportTypeOK ==
    converged \in SUBSET Nat /\ holder \in [EventIds -> SUBSET Workers] /\ faults \in Nat

LEMMA IdentifyType ==
  ASSUME identified \in BOOLEAN, NEW known \in BOOLEAN, Identify(known)
  PROVE  identified' \in BOOLEAN
  BY Zenon DEF Identify

LEMMA SetReplayType ==
  ASSUME replay \in [EventIds -> Lifecycle], NEW e,
         NEW stage \in {"NONE", "RECORDED", "PREPARED", "CLAIMED", "COMPLETED"},
         NEW claim \in Token, SetReplay(e, stage, claim)
  PROVE  replay' \in [EventIds -> Lifecycle]
<1>1. Stage(stage, claim) \in Lifecycle
  BY DEF Stage, Lifecycle
<1> QED
  BY <1>1 DEF SetReplay

LEMMA CompleteReplaysType ==
  ASSUME replay \in [EventIds -> Lifecycle], NEW t, CompleteClaimedReplays(t)
  PROVE  replay' \in [EventIds -> Lifecycle]
<1>1. Stage("COMPLETED", NoToken) \in Lifecycle
  BY TokenTypes DEF Stage, Lifecycle
<1> QED
  BY <1>1 DEF CompleteClaimedReplays

\* A step that leaves them alone.
LEMMA RestKept ==
  ASSUME RestTypeOK, UNCHANGED <<execElapsed, recElapsed, identified, replayOf, generation,
                                 consumed, replay>>
  PROVE  RestTypeOK'
  BY DEF RestTypeOK

LEMMA EndRest ==
  ASSUME RestTypeOK, NEW w, NEW status, End(w, status)
  PROVE  RestTypeOK'
  BY RestKept DEF End, rowVars, execVars, recVars, genVars

\* The steps of the execution.
LEMMA ExecuteRest ==
  ASSUME TypeOK, RestTypeOK, NEW w \in Workers, Execute(w)
  PROVE  RestTypeOK'
<1>1. ASSUME ReadOperation(w) \/ ReadExhausted(w) \/ ClaimExecution(w) \/ Start(w)
      PROVE  RestTypeOK'
  BY <1>1, RestKept DEF ReadOperation, ReadExhausted, ClaimExecution, Start,
     ExhaustExecutionDeadline, TakeExecution, rowVars, execVars, recVars, genVars
<1>2. ASSUME ExecuteRefused(w) \/ ClaimRefused(w) \/ StartRefused(w) \/ LateExecutionRefused(w)
      PROVE  RestTypeOK'
  BY <1>2, EndRest DEF ExecuteRefused, ClaimRefused, StartRefused, LateExecutionRefused,
     Raise, Abandon
<1>3. ASSUME Succeed(w) \/ WaitForHuman(w) \/ RequireReconciliation(w) \/ Fail(w)
      PROVE  RestTypeOK'
  <2>1. identified' \in BOOLEAN
    BY <1>3, IdentifyType DEF RestTypeOK, Succeed, WaitForHuman, RequireReconciliation, Fail,
       ApplySuccess
  <2>2. replay' \in [EventIds -> Lifecycle]
    BY <1>3, CompleteReplaysType DEF RestTypeOK, Succeed, WaitForHuman, RequireReconciliation,
       Fail, SettleFailure
  <2>3. /\ UNCHANGED <<execElapsed, replayOf, generation, consumed>>
        /\ recElapsed' = recElapsed \/ recElapsed' = FALSE
    BY <1>3 DEF Succeed, WaitForHuman, RequireReconciliation, Fail, ApplySuccess, ApplyFailure,
       EnterReconciliation, execVars, recVars, genVars
  <2> QED
    BY <2>1, <2>2, <2>3 DEF RestTypeOK
<1>4. ASSUME LateExecution(w)
      PROVE  RestTypeOK'
  <2>1. identified' \in BOOLEAN
    BY <1>4 DEF LateExecution, LateResult, RestTypeOK
  <2> QED
    BY <1>4, <2>1 DEF LateExecution, LateResult, RestTypeOK, execVars, recVars, genVars
<1> QED
  BY <1>1, <1>2, <1>3, <1>4 DEF Execute

\* The steps of the reconciliation.
LEMMA ReconcileRest ==
  ASSUME TypeOK, RestTypeOK, NEW w \in Workers, Reconcile(w)
  PROVE  RestTypeOK'
<1>1. ASSUME Exhaust(w) \/ ReadClaim(w)
      PROVE  RestTypeOK'
  BY <1>1, RestKept DEF Exhaust, ReadClaim, ExhaustReconciliation, rowVars, execVars, recVars,
     genVars
<1>2. ASSUME ExhaustRefused(w) \/ ClaimReconciliationRefused(w) \/ ReconciliationRefused(w)
      PROVE  RestTypeOK'
  BY <1>2, EndRest DEF ExhaustRefused, ClaimReconciliationRefused, ReconciliationRefused,
     Raise, Abandon
<1>3. ASSUME ClaimReconciliation(w)
      PROVE  RestTypeOK'
  <2>1. replay' \in [EventIds -> Lifecycle]
    BY <1>3, CompleteReplaysType DEF RestTypeOK, ClaimReconciliation
  <2> QED
    BY <1>3, <2>1 DEF RestTypeOK, ClaimReconciliation, ExhaustReconciliation,
       TakeReconciliation, execVars, genVars
<1>4. ASSUME ConfirmSuccess(w) \/ ConfirmFailure(w) \/ DeferReconciliation(w)
             \/ WaitForHumanAfterReconciliation(w)
      PROVE  RestTypeOK'
  <2>1. identified' \in BOOLEAN
    BY <1>4, IdentifyType DEF RestTypeOK, ConfirmSuccess, ConfirmFailure, DeferReconciliation,
       WaitForHumanAfterReconciliation, ApplySuccess
  <2>2. replay' \in [EventIds -> Lifecycle]
    BY <1>4, CompleteReplaysType DEF RestTypeOK, ConfirmSuccess, ConfirmFailure,
       DeferReconciliation, WaitForHumanAfterReconciliation, SettleFailure
  <2>3. UNCHANGED <<execElapsed, recElapsed, replayOf, generation, consumed>>
    BY <1>4 DEF ConfirmSuccess, ConfirmFailure, DeferReconciliation,
       WaitForHumanAfterReconciliation, ApplySuccess, ApplyFailure, execVars, genVars
  <2> QED
    BY <2>1, <2>2, <2>3 DEF RestTypeOK
<1>5. ASSUME LateReconciliation(w)
      PROVE  RestTypeOK'
  <2>1. identified' \in BOOLEAN
    BY <1>5 DEF LateReconciliation, LateResult, RestTypeOK
  <2> QED
    BY <1>5, <2>1 DEF LateReconciliation, LateResult, RestTypeOK, execVars, recVars, genVars
<1> QED
  BY <1>1, <1>2, <1>3, <1>4, <1>5 DEF Reconcile

\* The steps of a replayed dead letter.
LEMMA ReplayRest ==
  ASSUME TypeOK, BusyHasEvent, RestTypeOK, RowInv', NEW w \in Workers, HandleReplay(w)
  PROVE  RestTypeOK'
<1>0. NoToken \in Token /\ token \in Token /\ token' \in Token
  BY TokenTypes DEF TypeOK, RowInv, RowTypeOK
<1>1. ASSUME worker[w].pc # "idle"
      PROVE  \E e \in EventIds : e = worker[w].event /\ e \in 0..MaxEvents
                                /\ event[e].gen \in Nat /\ CallbackToken(e) \in Token
  <2>1. PICK e \in EventIds : e = worker[w].event
    BY <1>1 DEF BusyHasEvent
  <2>2. e \in 0..MaxEvents /\ e \in Nat
    BY DEF EventIds
  <2>3. event[e].gen \in Nat /\ CallbackToken(e) \in Token
    BY <2>2, TokenTypes DEF TypeOK, Event
  <2> QED
    BY <2>1, <2>2, <2>3
<1>2. ASSUME ApplyReplay(w)
      PROVE  RestTypeOK'
  <2>1. PICK e \in EventIds : e = worker[w].event /\ e \in 0..MaxEvents /\ event[e].gen \in Nat
    BY <1>1, <1>2 DEF ApplyReplay
  <2>2. replay' \in [EventIds -> Lifecycle]
    BY <1>0, <1>2, SetReplayType DEF RestTypeOK, ApplyReplay
  <2>3. /\ ReplayFailure(e) \/ ApplyTransportReplay(e)
    BY <1>2, <2>1 DEF ApplyReplay
  <2> QED
    BY <2>1, <2>2, <2>3 DEF RestTypeOK, ReplayFailure, ApplyTransportReplay, execVars, recVars,
       genVars
<1>3. ASSUME ReplayMoot(w) \/ ResumeReplay(w) \/ ClaimReplayAgain(w) \/ JoinReplayWork(w)
             \/ ReplaySuperseded(w) \/ CompleteReplay(w) \/ PrepareTerminal(w)
      PROVE  RestTypeOK'
  <2>1. replay' \in [EventIds -> Lifecycle]
    BY <1>0, <1>3, SetReplayType DEF RestTypeOK, ReplayMoot, ResumeReplay, ClaimReplayAgain,
       JoinReplayWork, ReplaySuperseded, CompleteReplay, PrepareTerminal
  <2> QED
    BY <1>3, <2>1 DEF RestTypeOK, ReplayMoot, ResumeReplay, ClaimReplayAgain,
       JoinReplayWork, ReplaySuperseded, CompleteReplay, PrepareTerminal, rowVars, execVars,
       recVars, genVars
<1>4. ASSUME ClaimReplayRefused(w) \/ CompleteReplayRefused(w) \/ PrepareTerminalRefused(w)
             \/ CompleteTerminalRefused(w)
      PROVE  RestTypeOK'
  BY <1>4, EndRest DEF ClaimReplayRefused, CompleteReplayRefused, PrepareTerminalRefused,
     CompleteTerminalRefused, Raise, Abandon
<1>5. ASSUME ClaimReplayWork(w)
      PROVE  RestTypeOK'
  <2>1. replay' \in [EventIds -> Lifecycle]
    BY <1>0, <1>5, SetReplayType DEF RestTypeOK, ClaimReplayWork
  <2> QED
    BY <1>5, <2>1 DEF RestTypeOK, ClaimReplayWork, TakeExecution, TakeReconciliation, execVars,
       recVars, genVars
<1>6. ASSUME ClaimReplayFailed(w)
      PROVE  RestTypeOK'
  <2>1. PICK e \in EventIds : e = worker[w].event /\ CallbackToken(e) \in Token
    BY <1>1, <1>6 DEF ClaimReplayFailed
  <2>2. replay' \in [EventIds -> Lifecycle]
    BY <1>6, <2>1, SetReplayType DEF RestTypeOK, ClaimReplayFailed
  <2> QED
    BY <1>6, <2>2 DEF RestTypeOK, ClaimReplayFailed, ExhaustExecutionDeadline,
       ExhaustReconciliation, execVars, recVars, genVars
<1>7. ASSUME CompleteTerminal(w)
      PROVE  RestTypeOK'
  <2>1. PICK e \in EventIds : e = worker[w].event /\ event[e].gen \in Nat
    BY <1>1, <1>7 DEF CompleteTerminal
  <2>2. replay' \in [EventIds -> Lifecycle]
    BY <1>0, <1>7, SetReplayType DEF RestTypeOK, CompleteTerminal
  <2> QED
    BY <1>7, <2>1, <2>2 DEF RestTypeOK, CompleteTerminal, execVars, recVars
<1> QED
  BY <1>2, <1>3, <1>4, <1>5, <1>6, <1>7 DEF HandleReplay

\* Every step keeps the flags, the generations and the lifecycles typed.
LEMMA RestStep ==
  ASSUME TypeOK, BusyHasEvent, RestTypeOK, RowInv', [Next]_vars
  PROVE  RestTypeOK'
<1>1. ASSUME NEW e \in EventIds, Publish(e) \/ GiveUp(e)
      PROVE  RestTypeOK'
  BY <1>1, RestKept DEF Publish, GiveUp, rowVars, execVars, recVars, genVars
<1>2. ASSUME NEW e \in EventIds, Replay(e)
      PROVE  RestTypeOK'
  <2>1. replay' \in [EventIds -> Lifecycle]
    BY <1>2, SetReplayType, TokenTypes DEF Replay, RestTypeOK
  <2> QED
    BY <1>2, <2>1 DEF RestTypeOK, Replay, rowVars, execVars, recVars, genVars
<1>3. ASSUME NEW w \in Workers, NEW e \in EventIds, Deliver(w, e) \/ Overtake(w, e)
      PROVE  RestTypeOK'
  BY <1>3, RestKept DEF Deliver, Overtake, Handling, rowVars, execVars, recVars, genVars
<1>4. ASSUME NEW w \in Workers, WorkerStep(w)
      PROVE  RestTypeOK'
  <2>1. CASE RecordConvergence(w)
    BY <2>1, RestKept DEF RecordConvergence, rowVars, execVars, recVars, genVars
  <2>2. CASE Consume(w)
    <3>1. PICK e \in EventIds : e = worker[w].event
      BY <2>2 DEF Consume, BusyHasEvent
    <3>2. event[e].gen \in Nat
      BY DEF TypeOK, Event
    <3> QED
      BY <2>2, <3>1, <3>2 DEF Consume, EventOf, RestTypeOK, execVars, recVars
  <2>3. CASE Settle(w)
    BY <2>3, EndRest DEF Settle
  <2> QED
    BY <1>4, <2>1, <2>2, <2>3, ExecuteRest, ReconcileRest, ReplayRest DEF WorkerStep
<1>5. ASSUME Scanner
      PROVE  RestTypeOK'
  <2>1. replay' \in [EventIds -> Lifecycle]
    BY <1>5, CompleteReplaysType DEF RestTypeOK, Scanner, RecoverClaimed, RecoverRunning,
       ScanReadyRetry, ScanReconciliation
  <2>2. generation' = generation \/ generation' = generation + 1
    BY <1>5 DEF Scanner, RecoverClaimed, RecoverRunning, ScanReadyRetry, ScanReconciliation, Emit
  <2>3. /\ UNCHANGED <<execElapsed, identified, replayOf, consumed>>
        /\ recElapsed' = recElapsed \/ recElapsed' = FALSE
    BY <1>5 DEF Scanner, RecoverClaimed, RecoverRunning, ScanReadyRetry, ScanReconciliation,
       EnterReconciliation, ExhaustReconciliation, execVars, recVars
  <2>4. recElapsed' \in BOOLEAN
    BY <2>3, Zenon DEF RestTypeOK
  <2>5. generation' \in Nat
    BY <2>2 DEF RestTypeOK
  <2> QED
    BY <2>1, <2>3, <2>4, <2>5 DEF RestTypeOK
<1>6. ASSUME CompleteHumanWait \/ Cancel \/ Clock
             \/ ExecutionDeadlineElapses \/ ReconciliationDeadlineElapses
      PROVE  RestTypeOK'
  BY <1>6 DEF CompleteHumanWait, Cancel, Clock, LeaseExpires, RetryBecomesDue,
     ReconciliationBecomesDue, ExecutionDeadlineElapses, ReconciliationDeadlineElapses,
     RestTypeOK, execVars, recVars, genVars
<1>7. ASSUME NEW w \in Workers, WorkerCrash(w)
      PROVE  RestTypeOK'
  BY <1>7, RestKept DEF WorkerCrash, rowVars, execVars, recVars, genVars
<1>8. ASSUME NEW w \in Workers, HandlerFails(w)
      PROVE  RestTypeOK'
  BY <1>8, EndRest DEF HandlerFails, Abandon
<1>9. ASSUME UNCHANGED vars
      PROVE  RestTypeOK'
  BY <1>9, RestKept DEF vars
<1> QED
  BY <1>1, <1>2, <1>3, <1>4, <1>5, <1>6, <1>7, <1>8, <1>9 DEF Next, Fault

\* Every step keeps the callbacks, the Inbox leases and the faults typed.
LEMMA TransportStep ==
  ASSUME TypeOK, BusyHasEvent, [Next]_vars
  PROVE  TransportTypeOK'
<1> USE DEF TransportTypeOK
<1>1. converged' \in SUBSET Nat
  <2>1. ASSUME NEW w \in Workers, RecordConvergence(w)
        PROVE  converged' \in SUBSET Nat
    <3>1. worker[w].failure \in Nat
      BY DEF TypeOK, WorkerState
    <3> QED
      BY <2>1, <3>1 DEF RecordConvergence, TypeOK
  <2>2. ASSUME NEW w \in Workers, Execute(w)
        PROVE  UNCHANGED converged
    BY <2>2 DEF Execute, ReadOperation, ExecuteRefused, ClaimExecution, ClaimRefused,
       ReadExhausted, Start, StartRefused, Succeed, WaitForHuman, RequireReconciliation, Fail,
       LateExecution, LateExecutionRefused, LateResult, Raise, Abandon, End
  <2>3. ASSUME NEW w \in Workers, Reconcile(w)
        PROVE  UNCHANGED converged
    BY <2>3 DEF Reconcile, Exhaust, ExhaustRefused, ClaimReconciliation,
       ClaimReconciliationRefused, ReadClaim, ConfirmSuccess, ConfirmFailure,
       DeferReconciliation, WaitForHumanAfterReconciliation, LateReconciliation,
       ReconciliationRefused, LateResult, Raise, Abandon, End
  <2>4. ASSUME NEW w \in Workers, HandleReplay(w)
        PROVE  UNCHANGED converged
    BY <2>4 DEF HandleReplay, ApplyReplay, ReplayMoot, ResumeReplay, ClaimReplayAgain,
       ClaimReplayWork, JoinReplayWork, ClaimReplayFailed, ReplaySuperseded,
       ClaimReplayRefused, CompleteReplay, CompleteReplayRefused, PrepareTerminal,
       PrepareTerminalRefused, CompleteTerminal, CompleteTerminalRefused, Raise, Abandon, End
  <2>5. ASSUME NEW w \in Workers, Consume(w) \/ Settle(w) \/ WorkerCrash(w) \/ HandlerFails(w)
        PROVE  UNCHANGED converged
    BY <2>5 DEF Consume, Settle, WorkerCrash, HandlerFails, Abandon, End
  <2>6. ASSUME \/ Scanner \/ CompleteHumanWait \/ Cancel \/ Clock
               \/ ExecutionDeadlineElapses \/ ReconciliationDeadlineElapses
        PROVE  UNCHANGED converged
    BY <2>6 DEF Scanner, RecoverClaimed, RecoverRunning, ScanReadyRetry, ScanReconciliation,
       CompleteHumanWait, Cancel, Clock, LeaseExpires, RetryBecomesDue,
       ReconciliationBecomesDue, ExecutionDeadlineElapses, ReconciliationDeadlineElapses
  <2>7. ASSUME NEW e \in EventIds,
               \/ Publish(e) \/ Replay(e) \/ GiveUp(e)
               \/ \E w \in Workers : Deliver(w, e) \/ Overtake(w, e)
        PROVE  UNCHANGED converged
    BY <2>7 DEF Publish, Replay, GiveUp, Deliver, Overtake, Handling
  <2> QED
    BY <2>1, <2>2, <2>3, <2>4, <2>5, <2>6, <2>7 DEF Next, WorkerStep, Fault, vars, TypeOK
<1>2. holder' \in [EventIds -> SUBSET Workers] /\ faults' \in Nat
  <2>1. ASSUME NEW w \in Workers, NEW status, End(w, status)
        PROVE  holder' \in [EventIds -> SUBSET Workers]
    BY <2>1 DEF End, TypeOK
  <2>2. ASSUME Disturb
        PROVE  faults' \in Nat
    BY <2>2 DEF Disturb, TypeOK
  <2>3. ASSUME NEW w \in Workers, Execute(w)
        PROVE  holder' \in [EventIds -> SUBSET Workers] /\ faults' \in Nat
    BY <2>1, <2>3 DEF Execute, ReadOperation, ExecuteRefused, ClaimExecution, ClaimRefused,
       ReadExhausted, Start, StartRefused, Succeed, WaitForHuman, RequireReconciliation, Fail,
       SettleFailure, LateExecution, LateExecutionRefused, LateResult, Raise, Abandon, Step,
       Touch, TypeOK
  <2>4. ASSUME NEW w \in Workers, Reconcile(w)
        PROVE  holder' \in [EventIds -> SUBSET Workers] /\ faults' \in Nat
    BY <2>1, <2>4 DEF Reconcile, Exhaust, ExhaustRefused, ClaimReconciliation,
       ClaimReconciliationRefused, ReadClaim, ConfirmSuccess, ConfirmFailure,
       DeferReconciliation, WaitForHumanAfterReconciliation, LateReconciliation,
       ReconciliationRefused, LateResult, SettleFailure, Raise, Abandon, Step, Touch, TypeOK
  <2>5. ASSUME NEW w \in Workers, HandleReplay(w)
        PROVE  holder' \in [EventIds -> SUBSET Workers] /\ faults' \in Nat
    BY <2>1, <2>5 DEF HandleReplay, ApplyReplay, ReplayMoot, ResumeReplay, ClaimReplayAgain,
       ClaimReplayWork, JoinReplayWork, ClaimReplayFailed, ReplaySuperseded,
       ClaimReplayRefused, CompleteReplay, CompleteReplayRefused, PrepareTerminal,
       PrepareTerminalRefused, CompleteTerminal, CompleteTerminalRefused, Raise, Abandon,
       Step, Touch, TypeOK
  <2>6. ASSUME NEW w \in Workers, RecordConvergence(w) \/ Consume(w) \/ Settle(w)
        PROVE  holder' \in [EventIds -> SUBSET Workers] /\ faults' \in Nat
    BY <2>1, <2>6 DEF RecordConvergence, Consume, Settle, Step, Touch, TypeOK
  <2>7. ASSUME NEW w \in Workers, WorkerCrash(w) \/ HandlerFails(w)
        PROVE  holder' \in [EventIds -> SUBSET Workers] /\ faults' \in Nat
    BY <2>1, <2>2, <2>7 DEF WorkerCrash, HandlerFails, Abandon, TypeOK
  <2>8. ASSUME NEW w \in Workers, NEW e \in EventIds, Deliver(w, e) \/ Overtake(w, e)
        PROVE  holder' \in [EventIds -> SUBSET Workers] /\ faults' \in Nat
    BY <2>2, <2>8 DEF Deliver, Overtake, Handling, TypeOK
  <2>9. ASSUME NEW e \in EventIds, Publish(e) \/ Replay(e) \/ GiveUp(e)
        PROVE  holder' \in [EventIds -> SUBSET Workers] /\ faults' \in Nat
    BY <2>2, <2>9 DEF Publish, Replay, GiveUp, TypeOK
  <2>10. ASSUME \/ Scanner \/ CompleteHumanWait \/ Cancel \/ Clock
                \/ ExecutionDeadlineElapses \/ ReconciliationDeadlineElapses
         PROVE  holder' \in [EventIds -> SUBSET Workers] /\ faults' \in Nat
    BY <2>2, <2>10 DEF Scanner, RecoverClaimed, RecoverRunning, ScanReadyRetry,
       ScanReconciliation, CompleteHumanWait, Cancel, Clock, LeaseExpires, RetryBecomesDue,
       ReconciliationBecomesDue, ExecutionDeadlineElapses, ReconciliationDeadlineElapses,
       TouchAll, TypeOK
  <2> QED
    BY <2>3, <2>4, <2>5, <2>6, <2>7, <2>8, <2>9, <2>10
       DEF Next, WorkerStep, Fault, vars, TypeOK
<1> QED
  BY <1>1, <1>2

-----------------------------------------------------------------------------
(* The inductive invariant and what follows from it *)

\* The invariant, taken apart.
LEMMA Parts ==
  OperationInv <=>
      /\ RowInv /\ ReasonRemembers /\ ExecutorOwnsRow /\ BusyHasEvent
      /\ RestTypeOK /\ TransportTypeOK
      /\ event \in [EventIds -> Event] /\ worker \in [Workers -> WorkerState]
  BY DEF OperationInv, TypeOK, RowInv, RowTypeOK, LastReason, ReasonRemembers, RestTypeOK,
     TransportTypeOK

LEMMA InvInit ==
  ASSUME Init
  PROVE  OperationInv
<1>1. /\ NoToken \in Token /\ NoLetter \in Letter /\ NoLetter.kind # "terminal"
      /\ At("idle", 0) \in WorkerState /\ At("idle", 0).pc = "idle"
  BY NextTypes, TokenTypes DEF PCs, NoLetter, Letter
<1>2. RowInv
  BY <1>1 DEF Init, RowInv, RowTypeOK, NoBlindReexecution, RowRecoverable,
     FailedHasDeadLetter, SuccessIsFinal, LastReason, States, Outcomes
<1>3. event \in [EventIds -> Event] /\ ReasonRemembers
  <2>1. ASSUME NEW e \in EventIds
        PROVE  [status |-> IF e = 1 THEN "unpublished" ELSE "absent",
                reason |-> "NONE", gen |-> 0, source |-> NoLetter] \in Event
    BY <1>1 DEF Event, Reasons
  <2> QED
    BY <1>1, <2>1 DEF Init, ReasonRemembers
<1>4. worker \in [Workers -> WorkerState] /\ BusyHasEvent /\ ExecutorOwnsRow
  BY <1>1 DEF Init, BusyHasEvent, ExecutorOwnsRow
<1>5. RestTypeOK
  <2>1. Stage("NONE", NoToken) \in Lifecycle
    BY <1>1 DEF Stage, Lifecycle
  <2>2. execElapsed \in BOOLEAN /\ recElapsed \in BOOLEAN /\ identified \in BOOLEAN
    BY Zenon DEF Init
  <2>3. replayOf \in 0..MaxEvents /\ generation \in Nat /\ consumed \in Nat
    BY DEF Init
  <2>4. replay \in [EventIds -> Lifecycle]
    BY <2>1 DEF Init
  <2> QED
    BY <2>2, <2>3, <2>4 DEF RestTypeOK
<1>6. TransportTypeOK
  BY DEF Init, TransportTypeOK
<1> QED
  BY <1>2, <1>3, <1>4, <1>5, <1>6, Parts

LEMMA InvStep ==
  ASSUME OperationInv, [Next]_vars
  PROVE  OperationInv'
<1>1. /\ TypeOK /\ BusyHasEvent /\ RowInv /\ ReasonRemembers /\ ExecutorOwnsRow /\ RestTypeOK
  BY Parts DEF OperationInv
<1>2. RowChange /\ EventChange
  BY <1>1, RowStep, EventStep
<1>3. RowInv'
  BY <1>1, <1>2, RowInvStep
<1>4. ReasonRemembers' /\ event' \in [EventIds -> Event]
  BY <1>1, <1>2, <1>3, ReasonStep
<1>5. worker' \in [Workers -> WorkerState] /\ BusyHasEvent' /\ ExecutorOwnsRow'
  BY <1>1, <1>3, WorkersStep, WorkerInvStep
<1>6. RestTypeOK' /\ TransportTypeOK'
  BY <1>1, <1>3, RestStep, TransportStep
<1> QED
  BY <1>3, <1>4, <1>5, <1>6 DEF OperationInv, TypeOK, RowInv, RowTypeOK, LastReason,
     ReasonRemembers, RestTypeOK, TransportTypeOK

\* Every conjunct of OperationInv holds in every reachable state of the workers,
\* the scanner and the operators.
THEOREM OperationInvariant == Spec => []OperationInv
<1>1. Init => OperationInv
  BY InvInit
<1>2. OperationInv /\ [Next]_vars => OperationInv'
  BY InvStep
<1> QED
  BY <1>1, <1>2, PTL DEF Spec

\* The columns of durable_operations, the events and the workers keep their
\* types, and neither attempt_count nor reconciliation_attempt_count passes its
\* maximum.
THEOREM OperationTypes == Spec => []TypeOK
<1>1. OperationInv => TypeOK
  BY DEF OperationInv
<1> QED
  BY <1>1, OperationInvariant, PTL

\* An operation whose external outcome is unknown or a confirmed success is
\* never executable again: not by an expired lease, a redelivery, a scan or the
\* replay of any of its dead letters.
THEOREM NeverReexecutedBlindly == Spec => []NoBlindReexecution
<1>1. OperationInv => NoBlindReexecution
  BY DEF OperationInv
<1> QED
  BY <1>1, OperationInvariant, PTL

\* A row that waits for a retry, a lease or a reconciliation can be taken up
\* again by a claim or by claim_recoverable.
THEOREM AlwaysRecoverable == Spec => []RowRecoverable
<1>1. OperationInv => RowRecoverable
  BY DEF OperationInv
<1> QED
  BY <1>1, OperationInvariant, PTL

\* dead_letter_id names the letter of the last failure exactly while the
\* operation is FAILED.
THEOREM FailuresHaveLetters == Spec => []FailedHasDeadLetter
<1>1. OperationInv => FailedHasDeadLetter
  BY DEF OperationInv
<1> QED
  BY <1>1, OperationInvariant, PTL

\* The version check of _assert_execution_result_authority is enough: a worker
\* whose version is current still owns the execution it started.
THEOREM VersionIsAuthority == Spec => []ExecutorOwnsRow
<1>1. OperationInv => ExecutorOwnsRow
  BY DEF OperationInv
<1> QED
  BY <1>1, OperationInvariant, PTL

\* SUCCEEDED and CANCELLED are never left, and FAILED only by the first handling
\* of a replay of the operation's own dead letter.
THEOREM TerminalStays == Spec => TerminalIsFinal
<1>1. ASSUME OperationInv, [Next]_vars, state \in Terminal, state' # state
      PROVE  /\ state = "FAILED"
             /\ \E e \in EventIds :
                   /\ event[e].source = TerminalLetter(deadLetter)
                   /\ replay[e].stage = "RECORDED" /\ replay'[e].stage = "PREPARED"
  <2>1. RowChange
    BY <1>1, RowStep DEF OperationInv
  <2>2. \E e \in EventIds : Reopened(e)
    BY <1>1, <2>1 DEF RowChange, Quiet, Claimed, Started, ExhaustExecutionDeadline,
       TakeReconciliation, ExhaustReconciliation, Succeeded, Failed, Deferred, Waiting,
       Released, Ended, Terminal
  <2> QED
    BY <2>2 DEF Reopened, TerminalReplayApplies
<1>2. OperationInv /\ [Next]_vars =>
        [(state \in Terminal /\ state' # state) =>
            /\ state = "FAILED"
            /\ \E e \in EventIds :
                  /\ event[e].source = TerminalLetter(deadLetter)
                  /\ replay[e].stage = "RECORDED" /\ replay'[e].stage = "PREPARED"]_vars
  BY <1>1
<1> QED
  BY <1>2, OperationInvariant, PTL DEF Spec, TerminalIsFinal

-----------------------------------------------------------------------------
(* Generations, handlers and replays: the shapes a step has *)

\* What a step does to the events and the generations: a stored event moves,
\* and is processed only by a handler that returns; a replay is stored; the
\* scanner reserves the next generation; a generation is consumed.
GenerationChange ==
    \/ UNCHANGED <<event, genVars>>
    \/ /\ UNCHANGED genVars
       /\ \E e \in EventIds : \E status \in Statuses \ {"absent"} :
             /\ Moved(e, status) /\ event[e].status # "absent"
             /\ status = "processed" =>
                   \E w \in Workers : worker[w].pc = "done" /\ worker[w].event = e
    \/ /\ UNCHANGED genVars
       /\ \E e \in EventIds : \E reason \in Reasons : \E gen \in 0..generation :
          \E source \in Letter \ {NoLetter} :
             event[e].status = "absent" /\ event' = [event EXCEPT ![e] = NewEvent(reason, gen, source)]
    \/ /\ generation = consumed /\ generation' = generation + 1 /\ UNCHANGED consumed
       /\ \E e \in EventIds : \E reason \in Reasons :
             /\ event[e].status = "absent"
             /\ event' = [event EXCEPT ![e] = NewEvent(reason, generation + 1, NoLetter)]
    \/ UNCHANGED <<event, generation>> /\ consumed' \in (consumed + 1)..generation

\* A handler ends: it returned, or it raised.
LEMMA EndGeneration ==
  ASSUME TypeOK, BusyHasEvent, NEW w \in Workers, worker[w].pc # "idle",
         NEW status \in {"unpublished", "processed"}, End(w, status),
         status = "processed" => worker[w].pc = "done"
  PROVE  GenerationChange
<1>1. worker[w].event \in EventIds
  BY DEF BusyHasEvent
<1>2. UNCHANGED genVars
  BY DEF End, rowVars
<1> QED
  BY <1>1, <1>2 DEF End, GenerationChange, Moved, Statuses

LEMMA RaiseGeneration ==
  ASSUME TypeOK, BusyHasEvent, NEW w \in Workers, worker[w].pc # "idle", Abandon(w)
  PROVE  GenerationChange
  BY EndGeneration DEF Abandon

LEMMA EmitGeneration ==
  ASSUME NEW reason \in Reasons, Emit(reason), UNCHANGED consumed
  PROVE  GenerationChange
  BY DEF Emit, FirstFree, GenerationChange, genVars

LEMMA ReplayGeneration ==
  ASSUME TypeOK, EventsNumbered, NEW e \in EventIds, Replay(e)
  PROVE  GenerationChange
<1>1. UNCHANGED genVars /\ event[e].status = "absent"
  BY DEF Replay, rowVars, FirstFree
<1>2. ASSUME NEW reason \in Reasons, NEW gen \in 0..generation, NEW source \in Letter \ {NoLetter},
             event' = [event EXCEPT ![e] = NewEvent(reason, gen, source)]
      PROVE  GenerationChange
  BY <1>1, <1>2 DEF GenerationChange
<1>3. ASSUME NEW k \in DOMAIN terminals,
             event' = [event EXCEPT ![e] = NewEvent(terminals[k], 0, TerminalLetter(k))]
      PROVE  GenerationChange
  <2>1. terminals[k] \in Reasons /\ k \in Nat /\ 0 \in 0..generation
    BY DEF TypeOK
  <2>2. TerminalLetter(k) \in Letter \ {NoLetter}
    BY <2>1 DEF TerminalLetter, Letter, NoLetter
  <2> QED
    BY <1>2, <1>3, <2>1, <2>2
<1>4. ASSUME NEW f \in EventIds,
             event' = [event EXCEPT ![e] =
                 NewEvent(event[f].reason, event[f].gen, TransportLetter(f))]
      PROVE  GenerationChange
  <2>1. event[f].reason \in Reasons /\ event[f].gen \in 0..generation /\ f \in Nat
    BY DEF TypeOK, Event, EventIds, EventsNumbered
  <2>2. TransportLetter(f) \in Letter \ {NoLetter}
    BY <2>1 DEF TransportLetter, Letter, NoLetter
  <2> QED
    BY <1>2, <1>4, <2>1, <2>2
<1> QED
  BY <1>3, <1>4 DEF Replay

\* Every step changes the events and the generations in one of these ways.
LEMMA GenerationStep ==
  ASSUME TypeOK, BusyHasEvent, EventsNumbered, [Next]_vars
  PROVE  GenerationChange
<1>1. ASSUME UNCHANGED <<event, genVars>>
      PROVE  GenerationChange
  BY <1>1 DEF GenerationChange
<1>2. ASSUME NEW e \in EventIds, Publish(e) \/ GiveUp(e)
      PROVE  GenerationChange
  BY <1>2 DEF Publish, GiveUp, Moved, Statuses, GenerationChange, rowVars
<1>3. ASSUME NEW w \in Workers, NEW e \in EventIds, Deliver(w, e) \/ Overtake(w, e)
      PROVE  GenerationChange
  BY <1>1, <1>3 DEF Deliver, Overtake, Handling, rowVars
<1>4. ASSUME NEW w \in Workers, Execute(w)
      PROVE  GenerationChange
  <2>1. CASE ExecuteRefused(w) \/ ClaimRefused(w) \/ StartRefused(w) \/ LateExecutionRefused(w)
    BY <2>1, RaiseGeneration
       DEF ExecuteRefused, ClaimRefused, StartRefused, LateExecutionRefused, Raise
  <2> QED
    BY <1>1, <1>4, <2>1 DEF Execute, ReadOperation, ClaimExecution, ReadExhausted, Start,
       Succeed, WaitForHuman, RequireReconciliation, Fail, LateExecution, LateResult, rowVars
<1>5. ASSUME NEW w \in Workers, Reconcile(w)
      PROVE  GenerationChange
  <2>1. CASE ExhaustRefused(w) \/ ClaimReconciliationRefused(w) \/ ReconciliationRefused(w)
    BY <2>1, RaiseGeneration DEF ExhaustRefused, ClaimReconciliationRefused,
       ReconciliationRefused, Raise
  <2> QED
    BY <1>1, <1>5, <2>1 DEF Reconcile, Exhaust, ClaimReconciliation, ReadClaim, ConfirmSuccess,
       ConfirmFailure, DeferReconciliation, WaitForHumanAfterReconciliation,
       LateReconciliation, LateResult, rowVars
<1>6. ASSUME NEW w \in Workers, HandleReplay(w)
      PROVE  GenerationChange
  <2>1. CASE ClaimReplayRefused(w) \/ CompleteReplayRefused(w) \/ PrepareTerminalRefused(w)
             \/ CompleteTerminalRefused(w)
    BY <2>1, RaiseGeneration DEF ClaimReplayRefused, CompleteReplayRefused,
       PrepareTerminalRefused, CompleteTerminalRefused, Raise
  <2>2. CASE ApplyReplay(w)
    <3>1. PICK e \in EventIds : e = worker[w].event
      BY <2>2 DEF ApplyReplay, BusyHasEvent
    <3>2. CASE ReplayFailure(e)
      BY <1>1, <2>2, <3>2 DEF ApplyReplay, ReplayFailure
    <3>3. CASE TransportReplayApplies(e) /\ ApplyTransportReplay(e)
      <4>1. consumed' \in (consumed + 1)..generation
        BY <3>3 DEF TransportReplayApplies, ApplyTransportReplay, EventsNumbered, TypeOK, Event
      <4> QED
        BY <2>2, <3>3, <4>1 DEF ApplyReplay, ApplyTransportReplay, GenerationChange
    <3> QED
      BY <2>2, <3>1, <3>2, <3>3 DEF ApplyReplay
  <2>3. CASE CompleteTerminal(w)
    <3>1. PICK e \in EventIds : e = worker[w].event
      BY <2>3 DEF CompleteTerminal, BusyHasEvent
    <3> QED
      BY <2>3, <3>1 DEF CompleteTerminal, TerminalGeneration, GenerationChange, genVars, TypeOK
  <2> QED
    BY <1>1, <1>6, <2>1, <2>2, <2>3 DEF HandleReplay, ReplayMoot, ResumeReplay,
       ClaimReplayAgain, ClaimReplayWork, JoinReplayWork, ClaimReplayFailed, ReplaySuperseded,
       CompleteReplay, PrepareTerminal, rowVars
<1>7. ASSUME NEW w \in Workers, RecordConvergence(w)
      PROVE  GenerationChange
  BY <1>1, <1>7 DEF RecordConvergence, rowVars
<1>8. ASSUME NEW w \in Workers, Consume(w)
      PROVE  GenerationChange
  <2>1. PICK e \in EventIds : e = worker[w].event
    BY <1>8 DEF Consume, BusyHasEvent
  <2> QED
    BY <1>8, <2>1 DEF Consume, EventOf, GenerationChange, genVars, TypeOK
<1>9. ASSUME NEW w \in Workers, Settle(w)
      PROVE  GenerationChange
  BY <1>9, EndGeneration DEF Settle
<1>10. ASSUME Scanner
       PROVE  GenerationChange
  BY <1>10, EmitGeneration DEF Scanner, RecoverClaimed, RecoverRunning, ScanReadyRetry,
     ScanReconciliation, Reasons
<1>11. ASSUME CompleteHumanWait \/ Cancel \/ Clock
              \/ ExecutionDeadlineElapses \/ ReconciliationDeadlineElapses
       PROVE  GenerationChange
  BY <1>1, <1>11 DEF CompleteHumanWait, Cancel, Clock, LeaseExpires, RetryBecomesDue,
     ReconciliationBecomesDue, ExecutionDeadlineElapses, ReconciliationDeadlineElapses
<1>12. ASSUME NEW w \in Workers, WorkerCrash(w)
       PROVE  GenerationChange
  BY <1>1, <1>12 DEF WorkerCrash, rowVars
<1>13. ASSUME NEW w \in Workers, HandlerFails(w)
       PROVE  GenerationChange
  BY <1>13, RaiseGeneration DEF HandlerFails
<1>14. ASSUME UNCHANGED vars
       PROVE  GenerationChange
  BY <1>1, <1>14 DEF vars, genVars
<1> QED
  BY <1>2, <1>3, <1>4, <1>5, <1>6, <1>7, <1>8, <1>9, <1>10, <1>11, <1>12, <1>13, <1>14,
     ReplayGeneration DEF Next, WorkerStep, Fault

\* What a step may make of a handler: it ends, or goes on with its event; it is
\* about to return only with a replay or a consumed generation.
Fits(w, next) ==
    next.pc = "idle" \/
    /\ worker[w].pc # "idle" /\ next.event = worker[w].event
    /\ next.pc = "done" => EventOf(w).source # NoLetter \/ EventOf(w).gen <= consumed'
    /\ next.pc \in {"prepare_terminal", "complete_terminal"} => EventOf(w).source # NoLetter

HandlerChange ==
    \/ UNCHANGED worker
    \/ OutdateAll
    \/ \E w \in Workers : \E e \in EventIds : Handling(w, e)
    \/ \E w \in Workers : \E next \in WorkerState : Fits(w, next) /\ (Move(w, next) \/ Touch(w, next))

\* A handler that goes on without returning.
LEMMA GoesOn ==
  ASSUME TypeOK, BusyHasEvent, NEW w \in Workers, worker[w].pc # "idle",
         NEW pc \in PCs \ {"idle", "done", "prepare_terminal", "complete_terminal"},
         NEW t \in Token, NEW k \in Nat,
         NEW next \in {At(pc, worker[w].event), Holding(pc, worker[w].event, t),
                       Reading(pc, worker[w].event, t), Telling(worker[w].event, t, k)},
         Move(w, next) \/ Touch(w, next)
  PROVE  HandlerChange
<1>1. next \in WorkerState
  BY SameEvent
<1>2. Fits(w, next)
  BY DEF Fits, PCs, At, Holding, Reading, Telling
<1> QED
  BY <1>1, <1>2 DEF HandlerChange

\* A handler whose own work is done.
LEMMA WorkDone ==
  ASSUME TypeOK, BusyHasEvent, NEW w \in Workers, worker[w].pc # "idle", NEW k \in Nat,
         NEW next \in {GoOn(w), Converge(w, k)}, Move(w, next) \/ Touch(w, next)
  PROVE  HandlerChange
<1>1. next \in WorkerState
  BY GoOnType
<1>2. Fits(w, next)
  BY DEF Fits, GoOn, Converge, Holding, Telling, Afterwards, IsTerminalReplay, IsReplay, EventOf
<1> QED
  BY <1>1, <1>2 DEF HandlerChange

\* A handler about to return.
LEMMA Returns ==
  ASSUME TypeOK, BusyHasEvent, NEW w \in Workers, worker[w].pc # "idle",
         EventOf(w).source # NoLetter \/ EventOf(w).gen <= consumed',
         Move(w, At("done", worker[w].event)) \/ Touch(w, At("done", worker[w].event))
  PROVE  HandlerChange
<1>1. At("done", worker[w].event) \in WorkerState
  BY SameEvent, TokenTypes DEF PCs
<1>2. Fits(w, At("done", worker[w].event))
  BY DEF Fits, At
<1> QED
  BY <1>1, <1>2 DEF HandlerChange

LEMMA Ends ==
  ASSUME NEW w \in Workers, Move(w, At("idle", 0))
  PROVE  HandlerChange
<1>1. At("idle", 0) \in WorkerState
  BY NextTypes, TokenTypes DEF PCs
<1> QED
  BY <1>1 DEF HandlerChange, Fits, At

LEMMA ExecuteHandler ==
  ASSUME TypeOK, BusyHasEvent, RowInv', NEW w \in Workers, Execute(w)
  PROVE  HandlerChange
<1>0. /\ NoToken \in Token /\ 0 \in Nat /\ deadLetter \in Nat /\ deadLetter' \in Nat
      /\ attempts + 1 \in Nat /\ worker[w].token \in Token
  BY TokenTypes DEF TypeOK, RowInv, RowTypeOK, WorkerState
<1>1. CASE ReadOperation(w)
  BY <1>0, <1>1, GoesOn DEF ReadOperation, Step, PCs
<1>2. CASE ExecuteRefused(w) \/ ClaimRefused(w) \/ StartRefused(w) \/ LateExecutionRefused(w)
  BY <1>2, Ends DEF ExecuteRefused, ClaimRefused, StartRefused, LateExecutionRefused,
     Raise, Abandon, End
<1>3. CASE ClaimExecution(w)
  BY <1>0, <1>3, GoesOn, TokenTypes DEF ClaimExecution, PCs
<1>4. CASE ReadExhausted(w)
  BY <1>0, <1>4, GoesOn DEF ReadExhausted, Step, PCs
<1>5. CASE Start(w)
  BY <1>0, <1>5, GoesOn DEF Start, PCs
<1>6. CASE Succeed(w) \/ WaitForHuman(w) \/ RequireReconciliation(w)
  BY <1>0, <1>6, WorkDone DEF Succeed, WaitForHuman, RequireReconciliation, ExecutionAuthority
<1>7. CASE Fail(w)
  BY <1>0, <1>7, WorkDone DEF Fail, SettleFailure, ExecutionAuthority
<1>8. CASE LateExecution(w)
  BY <1>0, <1>8, WorkDone DEF LateExecution, LateResult, Step
<1> QED
  BY <1>1, <1>2, <1>3, <1>4, <1>5, <1>6, <1>7, <1>8 DEF Execute

LEMMA ReconcileHandler ==
  ASSUME TypeOK, BusyHasEvent, RowInv', NEW w \in Workers, Reconcile(w)
  PROVE  HandlerChange
<1>0. /\ NoToken \in Token /\ 0 \in Nat /\ deadLetter \in Nat /\ deadLetter' \in Nat
      /\ recAttempts + 1 \in Nat /\ worker[w].token \in Token
  BY TokenTypes DEF TypeOK, RowInv, RowTypeOK, WorkerState
<1>1. CASE Exhaust(w)
  BY <1>0, <1>1, GoesOn DEF Exhaust, PCs
<1>2. CASE ExhaustRefused(w) \/ ClaimReconciliationRefused(w) \/ ReconciliationRefused(w)
  BY <1>2, Ends DEF ExhaustRefused, ClaimReconciliationRefused, ReconciliationRefused,
     Raise, Abandon, End
<1>3. CASE ClaimReconciliation(w)
  BY <1>0, <1>3, GoesOn, TokenTypes DEF ClaimReconciliation, PCs
<1>4. CASE ReadClaim(w)
  BY <1>0, <1>4, GoesOn DEF ReadClaim, Step, PCs
<1>5. CASE ConfirmSuccess(w) \/ WaitForHumanAfterReconciliation(w)
  BY <1>0, <1>5, WorkDone DEF ConfirmSuccess, WaitForHumanAfterReconciliation,
     ReconciliationAuthority
<1>6. CASE ConfirmFailure(w) \/ DeferReconciliation(w)
  BY <1>0, <1>6, WorkDone DEF ConfirmFailure, DeferReconciliation, SettleFailure,
     ReconciliationAuthority
<1>7. CASE LateReconciliation(w)
  BY <1>0, <1>7, WorkDone DEF LateReconciliation, LateResult, Step
<1> QED
  BY <1>1, <1>2, <1>3, <1>4, <1>5, <1>6, <1>7 DEF Reconcile

LEMMA ReplayHandler ==
  ASSUME TypeOK, BusyHasEvent, HandlersConsume, RowInv', NEW w \in Workers, HandleReplay(w)
  PROVE  HandlerChange
<1>0. /\ NoToken \in Token /\ 0 \in Nat /\ deadLetter \in Nat /\ deadLetter' \in Nat
      /\ token' \in Token
  BY TokenTypes DEF TypeOK, RowInv, RowTypeOK
<1>1. CASE ApplyReplay(w)
  BY <1>0, <1>1, GoesOn DEF ApplyReplay, PCs
<1>2. CASE ReplayMoot(w) \/ ReplaySuperseded(w) \/ CompleteReplay(w) \/ JoinReplayWork(w)
  BY <1>0, <1>2, GoesOn DEF ReplayMoot, ReplaySuperseded, CompleteReplay, JoinReplayWork,
     Step, PCs
<1>3. CASE ResumeReplay(w)
  BY <1>0, <1>3, GoesOn DEF ResumeReplay, Step, PCs
<1>4. CASE ClaimReplayAgain(w)
  <2>1. replay[worker[w].event].claim \in Token
    BY <1>4 DEF ClaimReplayAgain, BusyHasEvent, TypeOK, Lifecycle
  <2> QED
    BY <1>0, <1>4, <2>1, GoesOn DEF ClaimReplayAgain, Step, PCs
<1>5. CASE ClaimReplayWork(w)
  BY <1>0, <1>5, GoesOn DEF ClaimReplayWork, PCs
<1>6. CASE ClaimReplayFailed(w)
  <2>1. CallbackToken(worker[w].event) \in Token
    BY <1>6, TokenTypes DEF ClaimReplayFailed, BusyHasEvent, EventIds
  <2> QED
    BY <1>0, <1>6, <2>1, GoesOn DEF ClaimReplayFailed, Step, PCs
<1>7. CASE \/ ClaimReplayRefused(w) \/ CompleteReplayRefused(w) \/ PrepareTerminalRefused(w)
           \/ CompleteTerminalRefused(w)
  BY <1>7, Ends DEF ClaimReplayRefused, CompleteReplayRefused, PrepareTerminalRefused,
     CompleteTerminalRefused, Raise, Abandon, End
<1>8. CASE PrepareTerminal(w)
  <2>1. EventOf(w).source # NoLetter
    BY <1>8 DEF PrepareTerminal, HandlersConsume
  <2> QED
    BY <1>0, <1>8, <2>1, GoesOn, Returns DEF PrepareTerminal, Step, PCs
<1>9. CASE CompleteTerminal(w)
  <2>1. EventOf(w).source # NoLetter
    BY <1>9 DEF CompleteTerminal, HandlersConsume
  <2> QED
    BY <1>9, <2>1, Returns DEF CompleteTerminal, Step
<1> QED
  BY <1>1, <1>2, <1>3, <1>4, <1>5, <1>6, <1>7, <1>8, <1>9 DEF HandleReplay

\* Every step changes the handlers in one of these ways.
LEMMA HandlerStep ==
  ASSUME TypeOK, BusyHasEvent, HandlersConsume, RowInv', [Next]_vars
  PROVE  HandlerChange
<1>1. ASSUME NEW e \in EventIds, Publish(e) \/ GiveUp(e) \/ Replay(e)
      PROVE  HandlerChange
  BY <1>1 DEF Publish, GiveUp, Replay, HandlerChange
<1>2. ASSUME NEW w \in Workers, NEW e \in EventIds, Deliver(w, e) \/ Overtake(w, e)
      PROVE  HandlerChange
  BY <1>2 DEF Deliver, Overtake, HandlerChange
<1>3. ASSUME NEW w \in Workers, RecordConvergence(w)
      PROVE  HandlerChange
  BY <1>3, WorkDone DEF RecordConvergence, Step
<1>4. ASSUME NEW w \in Workers, Consume(w)
      PROVE  HandlerChange
  <2>1. PICK e \in EventIds : e = worker[w].event
    BY <1>4 DEF Consume, BusyHasEvent
  <2>2. EventOf(w).gen <= consumed'
    BY <1>4, <2>1 DEF Consume, EventOf, TypeOK, Event
  <2> QED
    BY <1>4, <2>2, Returns DEF Consume, Step
<1>5. ASSUME NEW w \in Workers, Settle(w) \/ WorkerCrash(w) \/ HandlerFails(w)
      PROVE  HandlerChange
  BY <1>5, Ends DEF Settle, WorkerCrash, HandlerFails, Abandon, End
<1>6. ASSUME Scanner \/ CompleteHumanWait \/ Cancel
      PROVE  HandlerChange
  BY <1>6 DEF Scanner, RecoverClaimed, RecoverRunning, ScanReadyRetry, ScanReconciliation,
     CompleteHumanWait, Cancel, TouchAll, HandlerChange
<1>7. ASSUME Clock \/ ExecutionDeadlineElapses \/ ReconciliationDeadlineElapses \/ UNCHANGED vars
      PROVE  HandlerChange
  BY <1>7 DEF Clock, LeaseExpires, RetryBecomesDue, ReconciliationBecomesDue,
     ExecutionDeadlineElapses, ReconciliationDeadlineElapses, HandlerChange, vars
<1> QED
  BY <1>1, <1>2, <1>3, <1>4, <1>5, <1>6, <1>7, ExecuteHandler, ReconcileHandler, ReplayHandler
     DEF Next, WorkerStep, Fault
AppliedStages == {"PREPARED", "CLAIMED", "COMPLETED"}

\* What a step does to the lifecycle of a replay: it is recorded with its event,
\* and once it was applied it stays applied.
ReplayKept(e) ==
    \/ replay'[e] = replay[e]
    \/ event[e].status # "absent" /\ replay'[e].stage \in AppliedStages
    \/ /\ event[e].status = "absent" /\ event'[e].status # "absent"
       /\ replay'[e].stage = "RECORDED"

LEMMA SetKept ==
  ASSUME TypeOK, NEW f \in EventIds, event[f].status # "absent",
         NEW stage \in AppliedStages, NEW claim, SetReplay(f, stage, claim), NEW e \in EventIds
  PROVE  ReplayKept(e)
  BY DEF SetReplay, Stage, ReplayKept, TypeOK

LEMMA CompletedKept ==
  ASSUME EventsNumbered, NEW t, CompleteClaimedReplays(t), NEW e \in EventIds
  PROVE  ReplayKept(e)
  BY DEF CompleteClaimedReplays, EventsNumbered, Stage, ReplayKept, AppliedStages

\* Every step keeps the lifecycle of every replay in one of these ways.
LEMMA ReplayStep ==
  ASSUME TypeOK, BusyHasEvent, EventsNumbered, HandlersConsume, [Next]_vars, NEW e \in EventIds
  PROVE  ReplayKept(e)
<1>0. ASSUME UNCHANGED replay
      PROVE  ReplayKept(e)
  BY <1>0 DEF ReplayKept
<1>1. ASSUME NEW f \in EventIds, Replay(f)
      PROVE  ReplayKept(e)
  <2>1. CASE e = f
    <3>1. event[e].status = "absent" /\ replay'[e].stage = "RECORDED"
      BY <1>1, <2>1 DEF Replay, FirstFree, SetReplay, Stage, TypeOK
    <3>2. event'[e].status = "unpublished"
      BY <1>1, <2>1 DEF Replay, NewEvent, TypeOK
    <3> QED
      BY <3>1, <3>2 DEF ReplayKept
  <2>2. CASE e # f
    BY <1>1, <2>2 DEF Replay, SetReplay, ReplayKept, TypeOK
  <2> QED
    BY <2>1, <2>2
<1>2. ASSUME NEW f \in EventIds, Publish(f) \/ GiveUp(f)
             \/ \E w \in Workers : Deliver(w, f) \/ Overtake(w, f)
      PROVE  ReplayKept(e)
  BY <1>0, <1>2 DEF Publish, GiveUp, Deliver, Overtake, Handling
<1>3. ASSUME NEW w \in Workers, Execute(w)
      PROVE  ReplayKept(e)
  BY <1>0, <1>3, CompletedKept DEF Execute, ReadOperation, ExecuteRefused, ClaimExecution,
     ClaimRefused, ReadExhausted, Start, StartRefused, Succeed, WaitForHuman,
     RequireReconciliation, Fail, SettleFailure, LateExecution, LateExecutionRefused,
     LateResult, Raise, Abandon, End
<1>4. ASSUME NEW w \in Workers, Reconcile(w)
      PROVE  ReplayKept(e)
  BY <1>0, <1>4, CompletedKept DEF Reconcile, Exhaust, ExhaustRefused, ClaimReconciliation,
     ClaimReconciliationRefused, ReadClaim, ConfirmSuccess, ConfirmFailure,
     DeferReconciliation, WaitForHumanAfterReconciliation, SettleFailure, LateReconciliation,
     ReconciliationRefused, LateResult, Raise, Abandon, End
<1>5. ASSUME NEW w \in Workers, HandleReplay(w)
      PROVE  ReplayKept(e)
  <2>1. worker[w].pc # "idle"
    BY <1>5 DEF HandleReplay, ApplyReplay, ReplayMoot, ResumeReplay, ClaimReplayAgain,
       ClaimReplayWork, JoinReplayWork, ClaimReplayFailed, ReplaySuperseded,
       ClaimReplayRefused, CompleteReplay, CompleteReplayRefused, PrepareTerminal,
       PrepareTerminalRefused, CompleteTerminal, CompleteTerminalRefused
  <2>2. PICK f \in EventIds : f = worker[w].event /\ event[f].status # "absent"
    BY <2>1 DEF BusyHasEvent, HandlersConsume, EventOf
  <2>3. ASSUME NEW stage \in AppliedStages, NEW claim, SetReplay(f, stage, claim)
        PROVE  ReplayKept(e)
    BY <2>2, <2>3, SetKept
  <2>4. CASE ApplyReplay(w) \/ ReplayMoot(w) \/ ClaimReplayAgain(w) \/ ClaimReplayWork(w)
             \/ JoinReplayWork(w)
    BY <1>0, <2>2, <2>3, <2>4 DEF ApplyReplay, ReplayMoot, ClaimReplayAgain, ClaimReplayWork,
       JoinReplayWork, AppliedStages
  <2>5. CASE ClaimReplayFailed(w) \/ ReplaySuperseded(w) \/ CompleteReplay(w)
             \/ PrepareTerminal(w) \/ CompleteTerminal(w)
    BY <1>0, <2>2, <2>3, <2>5 DEF ClaimReplayFailed, ReplaySuperseded, CompleteReplay,
       PrepareTerminal, CompleteTerminal, AppliedStages
  <2>6. CASE ResumeReplay(w) \/ ClaimReplayRefused(w) \/ CompleteReplayRefused(w)
             \/ PrepareTerminalRefused(w) \/ CompleteTerminalRefused(w)
    BY <1>0, <2>6 DEF ResumeReplay, ClaimReplayRefused, CompleteReplayRefused,
       PrepareTerminalRefused, CompleteTerminalRefused, Raise, Abandon, End
  <2> QED
    BY <1>5, <2>4, <2>5, <2>6 DEF HandleReplay
<1>6. ASSUME NEW w \in Workers, RecordConvergence(w) \/ Consume(w) \/ Settle(w)
             \/ WorkerCrash(w) \/ HandlerFails(w)
      PROVE  ReplayKept(e)
  BY <1>0, <1>6 DEF RecordConvergence, Consume, Settle, WorkerCrash, HandlerFails, Abandon, End
<1>7. ASSUME Scanner
      PROVE  ReplayKept(e)
  BY <1>0, <1>7, CompletedKept DEF Scanner, RecoverClaimed, RecoverRunning, ScanReadyRetry,
     ScanReconciliation
<1>8. ASSUME CompleteHumanWait \/ Cancel \/ Clock
             \/ ExecutionDeadlineElapses \/ ReconciliationDeadlineElapses \/ UNCHANGED vars
      PROVE  ReplayKept(e)
  BY <1>0, <1>8 DEF CompleteHumanWait, Cancel, Clock, LeaseExpires, RetryBecomesDue,
     ReconciliationBecomesDue, ExecutionDeadlineElapses, ReconciliationDeadlineElapses, vars
<1> QED
  BY <1>1, <1>2, <1>3, <1>4, <1>5, <1>6, <1>7, <1>8 DEF Next, WorkerStep, Fault

-----------------------------------------------------------------------------
(* The history of the events and the replays *)

\* An event that is stored stays what it is, whatever moves it.
LEMMA StoredStays ==
  ASSUME TypeOK, GenerationChange, NEW e \in EventIds, event[e].status # "absent"
  PROVE  /\ event'[e].status # "absent"
         /\ event'[e].reason = event[e].reason /\ event'[e].gen = event[e].gen
         /\ event'[e].source = event[e].source
<1>1. CASE UNCHANGED event
  BY <1>1
<1>2. ASSUME NEW f \in EventIds, NEW status \in Statuses \ {"absent"}, Moved(f, status)
      PROVE  /\ event'[e].status # "absent"
             /\ event'[e].reason = event[e].reason /\ event'[e].gen = event[e].gen
             /\ event'[e].source = event[e].source
  BY <1>2 DEF Moved, TypeOK, Event
<1>3. ASSUME NEW f \in EventIds, NEW new, event[f].status = "absent",
             event' = [event EXCEPT ![f] = new]
      PROVE  event'[e] = event[e]
  BY <1>3 DEF TypeOK
<1> QED
  BY <1>1, <1>2, <1>3 DEF GenerationChange

\* Generations only grow.
LEMMA ConsumedGrows ==
  ASSUME TypeOK, GenerationChange
  PROVE  /\ consumed <= consumed' /\ generation <= generation'
         /\ consumed \in Nat /\ generation \in Nat
         /\ consumed' \in Nat /\ generation' \in Nat
  BY DEF TypeOK, GenerationChange, genVars

LEMMA NumberedStep ==
  ASSUME TypeOK, GenerationChange, EventsNumbered, HandlersConsume, BusyHasEvent, [Next]_vars
  PROVE  EventsNumbered'
<1> SUFFICES ASSUME NEW e \in EventIds
             PROVE  /\ event'[e].gen <= generation'
                    /\ event'[e].status = "absent" => replay'[e].stage = "NONE"
  BY DEF EventsNumbered
<1>1. event'[e].status = "absent" => replay'[e].stage = "NONE"
  BY ReplayStep, StoredStays DEF EventsNumbered, ReplayKept
<1>2. event[e].gen \in Nat /\ event[e].gen <= generation /\ generation \in Nat
  BY DEF EventsNumbered, TypeOK, Event
<1>3. CASE UNCHANGED <<event, generation>>
  BY <1>1, <1>2, <1>3
<1>4. ASSUME NEW f \in EventIds, NEW status \in Statuses \ {"absent"}, Moved(f, status),
             UNCHANGED genVars
      PROVE  event'[e].gen <= generation'
  BY <1>2, <1>4 DEF Moved, TypeOK, Event, genVars
<1>5. ASSUME NEW f \in EventIds, NEW reason, NEW gen \in Nat, NEW source,
             event' = [event EXCEPT ![f] = NewEvent(reason, gen, source)],
             gen <= generation'
      PROVE  event'[e].gen <= generation'
  BY <1>2, <1>5, ConsumedGrows DEF NewEvent, TypeOK
<1>6. \A gen \in 0..generation : gen \in Nat /\ gen <= generation
  BY <1>2
<1>7. generation + 1 \in Nat /\ generation + 1 <= generation + 1
  BY <1>2
<1> QED
  BY <1>1, <1>3, <1>4, <1>5, <1>6, <1>7 DEF GenerationChange, genVars

LEMMA HandlersStep ==
  ASSUME TypeOK, BusyHasEvent, GenerationChange, HandlerChange, HandlersConsume
  PROVE  HandlersConsume'
<1> SUFFICES ASSUME NEW w \in Workers, worker'[w].pc # "idle"
             PROVE  LET e == worker'[w].event IN
                    /\ event'[e].status # "absent"
                    /\ worker'[w].pc = "done" =>
                          event'[e].source # NoLetter \/ event'[e].gen <= consumed'
                    /\ worker'[w].pc \in {"prepare_terminal", "complete_terminal"} =>
                          event'[e].source # NoLetter
  BY DEF HandlersConsume, EventOf
<1>1. ASSUME worker[w].pc # "idle", worker'[w].event = worker[w].event, Fits(w, worker'[w])
      PROVE  LET e == worker'[w].event IN
             /\ event'[e].status # "absent"
             /\ worker'[w].pc = "done" =>
                   event'[e].source # NoLetter \/ event'[e].gen <= consumed'
             /\ worker'[w].pc \in {"prepare_terminal", "complete_terminal"} =>
                   event'[e].source # NoLetter
  <2>1. PICK e \in EventIds : e = worker[w].event /\ event[e].status # "absent"
    BY <1>1 DEF BusyHasEvent, HandlersConsume, EventOf
  <2> QED
    BY <1>1, <2>1, StoredStays DEF Fits, EventOf
<1>2. ASSUME worker'[w].pc = worker[w].pc, worker'[w].event = worker[w].event
      PROVE  Fits(w, worker'[w])
  <2>1. PICK e \in EventIds : e = worker[w].event /\ event[e].gen \in Nat
    BY <1>2 DEF BusyHasEvent, TypeOK, Event
  <2> QED
    BY <1>2, <2>1, ConsumedGrows DEF Fits, HandlersConsume, EventOf
<1>3. CASE UNCHANGED worker \/ OutdateAll
  <2>1. worker'[w].pc = worker[w].pc /\ worker'[w].event = worker[w].event
    <3>1. CASE OutdateAll
      <4>1. worker'[w] = [worker[w] EXCEPT !.current = FALSE]
        BY <3>1 DEF OutdateAll
      <4> QED
        BY <4>1 DEF TypeOK, WorkerState
    <3> QED
      BY <1>3, <3>1
  <2> QED
    BY <1>1, <1>2, <2>1
<1>4. ASSUME NEW v \in Workers, NEW e \in EventIds, Handling(v, e), v = w
      PROVE  LET f == worker'[w].event IN
             /\ event'[f].status # "absent"
             /\ worker'[w].pc = "done" =>
                   event'[f].source # NoLetter \/ event'[f].gen <= consumed'
             /\ worker'[w].pc \in {"prepare_terminal", "complete_terminal"} =>
                   event'[f].source # NoLetter
  BY <1>4 DEF Handling, Move, At, TypeOK, IsTerminalReplay, IsReplay
<1>5. ASSUME NEW v \in Workers, NEW e \in EventIds, Handling(v, e), v # w
      PROVE  worker'[w] = worker[w]
  BY <1>5 DEF Handling, Move, TypeOK
<1>6. ASSUME NEW v \in Workers, NEW next \in WorkerState, Fits(v, next),
             Move(v, next) \/ Touch(v, next)
      PROVE  \/ v = w /\ worker'[w] = next
             \/ v # w /\ worker'[w].pc = worker[w].pc /\ worker'[w].event = worker[w].event
  <2>1. CASE Move(v, next)
    BY <2>1 DEF Move, TypeOK
  <2>2. CASE Touch(v, next)
    <3>1. worker'[w] = IF w = v THEN next ELSE [worker[w] EXCEPT !.current = FALSE]
      BY <2>2 DEF Touch
    <3>2. CASE w # v
      BY <3>1, <3>2 DEF TypeOK, WorkerState
    <3> QED
      BY <3>1, <3>2
  <2> QED
    BY <1>6, <2>1, <2>2
<1> QED
  BY <1>1, <1>2, <1>3, <1>4, <1>5, <1>6 DEF HandlerChange, Fits

\* At most one generation is outstanding: the scanner reserves the next one only
\* when the last is consumed, and its event is settled only after that.
LEMMA GenerationsStep ==
  ASSUME TypeOK, GenerationChange, EventsNumbered, HandlersConsume, OneGeneration
  PROVE  OneGeneration'
<1>0. generation \in Nat /\ consumed \in Nat
  BY DEF TypeOK
<1>1. CASE UNCHANGED <<event, genVars>>
  BY <1>1 DEF OneGeneration, genVars
<1>2. ASSUME NEW e \in EventIds, NEW status \in Statuses \ {"absent"}, Moved(e, status),
             UNCHANGED genVars,
             status = "processed" =>
                 \E w \in Workers : worker[w].pc = "done" /\ worker[w].event = e
      PROVE  OneGeneration'
  <2>1. CASE generation <= consumed
    BY <1>0, <1>2, <2>1 DEF OneGeneration, genVars
  <2>2. ASSUME generation > consumed
        PROVE  OneGeneration'
    <3>1. PICK f \in EventIds :
              /\ event[f].gen = generation /\ event[f].source = NoLetter
              /\ event[f].status \in {"unpublished", "published", "dead"}
      BY <2>2 DEF OneGeneration
    <3>2. event'[f].gen = generation /\ event'[f].source = NoLetter
      BY <1>2, <3>1 DEF Moved, TypeOK, Event
    <3>3. CASE f # e
      BY <1>2, <3>1, <3>2, <3>3 DEF Moved, TypeOK, OneGeneration, genVars
    <3>4. CASE f = e
      <4>1. status # "processed"
        BY <1>0, <1>2, <2>2, <3>1, <3>4 DEF HandlersConsume, EventOf
      <4>2. event'[f].status = status
        BY <1>2, <3>4 DEF Moved, TypeOK, Event
      <4> QED
        BY <1>2, <3>2, <4>1, <4>2 DEF Statuses, OneGeneration, genVars
    <3> QED
      BY <3>3, <3>4
  <2> QED
    BY <1>0, <2>1, <2>2
<1>3. ASSUME NEW e \in EventIds, NEW new, event[e].status = "absent",
             event' = [event EXCEPT ![e] = new], UNCHANGED genVars
      PROVE  OneGeneration'
  BY <1>3 DEF OneGeneration, genVars, TypeOK
<1>4. ASSUME generation = consumed, generation' = generation + 1, UNCHANGED consumed,
             NEW e \in EventIds, NEW reason \in Reasons,
             event' = [event EXCEPT ![e] = NewEvent(reason, generation + 1, NoLetter)]
      PROVE  OneGeneration'
  <2>1. /\ event'[e].gen = generation' /\ event'[e].source = NoLetter
        /\ event'[e].status = "unpublished"
    BY <1>4 DEF NewEvent, TypeOK
  <2> QED
    BY <1>0, <1>4, <2>1 DEF OneGeneration
<1>5. CASE UNCHANGED <<event, generation>> /\ consumed' \in (consumed + 1)..generation
  <2>1. consumed' = generation
    BY <1>0, <1>5 DEF OneGeneration
  <2> QED
    BY <1>0, <1>5, <2>1 DEF OneGeneration
<1> QED
  BY <1>1, <1>2, <1>3, <1>4, <1>5 DEF GenerationChange

\* The replays that were applied, by what they bought.
Executions == {e \in Applied : ~ReconcileOnly(e)}
Queries == {e \in Applied : ReconcileOnly(e)}

\* What a replay has bought stays bought.
LEMMA AppliedStays ==
  ASSUME TypeOK, BusyHasEvent, EventsNumbered, HandlersConsume, GenerationChange, [Next]_vars
  PROVE  Executions \subseteq Executions' /\ Queries \subseteq Queries'
<1> SUFFICES ASSUME NEW e \in EventIds, replay[e].stage \in AppliedStages
             PROVE  replay'[e].stage \in AppliedStages /\ event'[e].reason = event[e].reason
  BY DEF Executions, Queries, Applied, ReconcileOnly, AppliedStages
<1>1. event[e].status # "absent"
  BY DEF EventsNumbered, AppliedStages
<1> QED
  BY <1>1, StoredStays, ReplayStep DEF ReplayKept

LEMMA FinitelyApplied ==
  /\ IsFiniteSet(Executions) /\ IsFiniteSet(Queries)
  /\ IsFiniteSet(Executions') /\ IsFiniteSet(Queries')
<1>1. IsFiniteSet(EventIds)
  BY FS_Interval DEF EventIds
<1> QED
  BY <1>1, FS_Subset DEF Executions, Queries, Applied

\* Only the first handling of a terminal dead letter's replay raises a maximum,
\* by one.
LEMMA MaximaKept ==
  ASSUME RowChange
  PROVE  UNCHANGED <<maxAttempts, maxRec>> \/ \E e \in EventIds : Reopened(e)
  BY DEF RowChange, Quiet, Claimed, TakeExecution, Started, ExhaustExecutionDeadline,
     EnterReconciliation, TakeReconciliation, ExhaustReconciliation, Succeeded, ApplySuccess,
     Failed, ApplyFailure, Deferred, Waiting, Released, Ended, leaseVars, execVars, recVars

LEMMA BudgetStep ==
  ASSUME TypeOK, BusyHasEvent, EventsNumbered, HandlersConsume, GenerationChange, RowChange,
         BudgetsPaid, [Next]_vars
  PROVE  BudgetsPaid'
<1>1. /\ Executions \subseteq Executions' /\ Queries \subseteq Queries'
      /\ Cardinality(Executions) \in Nat /\ Cardinality(Queries) \in Nat
      /\ Cardinality(Executions') \in Nat /\ Cardinality(Queries') \in Nat
      /\ Cardinality(Executions) <= Cardinality(Executions')
      /\ Cardinality(Queries) <= Cardinality(Queries')
  BY AppliedStays, FinitelyApplied, FS_Subset, FS_CardinalityType
<1>2. /\ maxAttempts <= MaxAttempts + Cardinality(Executions)
      /\ maxRec <= MaxReconciliations + Cardinality(Queries)
  BY DEF BudgetsPaid, Executions, Queries
<1>3. SUFFICES /\ maxAttempts' <= MaxAttempts + Cardinality(Executions')
               /\ maxRec' <= MaxReconciliations + Cardinality(Queries')
  BY DEF BudgetsPaid, Executions, Queries
<1>4. CASE UNCHANGED <<maxAttempts, maxRec>>
  BY <1>1, <1>2, <1>4 DEF TypeOK
<1>5. ASSUME NEW e \in EventIds, Reopened(e)
      PROVE  /\ maxAttempts' <= MaxAttempts + Cardinality(Executions')
             /\ maxRec' <= MaxReconciliations + Cardinality(Queries')
  <2>1. /\ e \notin Applied /\ e \in Applied' /\ event[e].status # "absent"
    BY <1>5 DEF Reopened, Applied, EventsNumbered
  <2>2. event'[e].reason = event[e].reason
    BY <2>1, StoredStays
  <2>3. CASE ReconcileOnly(e)
    <3>1. e \notin Queries /\ e \in Queries'
      BY <2>1, <2>2, <2>3 DEF Queries, ReconcileOnly
    <3>2. Cardinality(Queries) + 1 <= Cardinality(Queries')
      <4>1. Cardinality(Queries \cup {e}) = Cardinality(Queries) + 1
        BY <3>1, FinitelyApplied, FS_AddElement
      <4> QED
        BY <1>1, <3>1, <4>1, FinitelyApplied, FS_Subset
    <3>3. maxRec' = recAttempts + 1 /\ maxAttempts' = maxAttempts
      BY <1>5, <2>3 DEF Reopened, ReplayFailure, execVars
    <3> QED
      BY <1>1, <1>2, <3>2, <3>3 DEF TypeOK
  <2>4. CASE ~ReconcileOnly(e)
    <3>1. e \notin Executions /\ e \in Executions'
      BY <2>1, <2>2, <2>4 DEF Executions, ReconcileOnly
    <3>2. Cardinality(Executions) + 1 <= Cardinality(Executions')
      <4>1. Cardinality(Executions \cup {e}) = Cardinality(Executions) + 1
        BY <3>1, FinitelyApplied, FS_AddElement
      <4> QED
        BY <1>1, <3>1, <4>1, FinitelyApplied, FS_Subset
    <3>3. maxAttempts' = attempts + 1 /\ maxRec' = maxRec
      BY <1>5, <2>4 DEF Reopened, ReplayFailure, recVars
    <3> QED
      BY <1>1, <1>2, <3>2, <3>3 DEF TypeOK
  <2> QED
    BY <2>3, <2>4
<1> QED
  BY <1>4, <1>5, MaximaKept

LEMMA HistoryInit ==
  ASSUME Init
  PROVE  HistoryInv
<1>1. EventsNumbered /\ OneGeneration
  BY DEF Init, EventsNumbered, OneGeneration, Stage
<1>2. HandlersConsume
  BY DEF Init, HandlersConsume, At
<1>3. BudgetsPaid
  BY FinitelyApplied, FS_CardinalityType DEF Init, BudgetsPaid, Executions, Queries
<1> QED
  BY <1>1, <1>2, <1>3 DEF HistoryInv

LEMMA HistoryStep ==
  ASSUME OperationInv, HistoryInv, [Next]_vars
  PROVE  HistoryInv'
<1>1. /\ TypeOK /\ BusyHasEvent
      /\ EventsNumbered /\ HandlersConsume /\ OneGeneration /\ BudgetsPaid
  BY DEF OperationInv, HistoryInv
<1>2. RowInv'
  BY InvStep DEF OperationInv, TypeOK, RowInv, RowTypeOK, LastReason, ReasonRemembers
<1>3. RowChange /\ GenerationChange /\ HandlerChange
  BY <1>1, <1>2, RowStep, GenerationStep, HandlerStep
<1> QED
  BY <1>1, <1>3, NumberedStep, HandlersStep, GenerationsStep, BudgetStep DEF HistoryInv

\* What the events and the replays remember of the past holds in every reachable
\* state.
LEMMA HistoryInvariant == Spec => []HistoryInv
<1>1. Init => HistoryInv
  BY HistoryInit
<1>2. OperationInv /\ HistoryInv /\ [Next]_vars => HistoryInv'
  BY HistoryStep
<1> QED
  BY <1>1, <1>2, OperationInvariant, PTL DEF Spec

\* claim_recoverable reserves a recovery generation only when the last one was
\* consumed, and the event of an outstanding generation is never settled as
\* processed: no recovery is lost, and none is announced twice.
THEOREM GenerationsInOrder == Spec => []OneGeneration
<1>1. HistoryInv => OneGeneration
  BY DEF HistoryInv
<1> QED
  BY <1>1, HistoryInvariant, PTL

\* attempt_count and reconciliation_attempt_count pass the first budget only by
\* what the operators' replays bought, one execution or one query each, whatever
\* is redelivered or claimed again.
THEOREM ReplaysBuyOneEach == Spec => []ReplayBudget
<1>1. OperationInv /\ HistoryInv => ReplayBudget
  <2> SUFFICES ASSUME OperationInv, HistoryInv
               PROVE  ReplayBudget
    OBVIOUS
  <2>1. Cardinality(Executions) \in Nat /\ Cardinality(Queries) \in Nat
    BY FinitelyApplied, FS_CardinalityType
  <2> QED
    BY <2>1 DEF OperationInv, HistoryInv, TypeOK, BudgetsPaid, ReplayBudget, Executions, Queries
<1> QED
  BY <1>1, OperationInvariant, HistoryInvariant, PTL
=============================================================================
