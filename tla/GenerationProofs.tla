--------------------------- MODULE GenerationProofs ---------------------------
(***************************************************************************)
(* Proofs about Generation, for every number of workers, directions,       *)
(* candidates, routes, attempts, replays and faults.                       *)
(*                                                                         *)
(* The argument for PaidOnce: an operation may be attempted again only     *)
(* while it is Free, and it is Free only while nothing was paid and no     *)
(* executor works for it; so the executor that submits is the only one     *)
(* there ever was whose call the provider accepted.                        *)
(***************************************************************************)
EXTENDS Generation, TLAPS

USE GenerationAssumption DEF Batches, CandidateImages

-----------------------------------------------------------------------------
(* Slots and operations *)

\* A slot belongs to one direction.
LEMMA SlotFacts ==
  /\ \A s \in Slots : s[1] \in Directions /\ s \in SlotsOf(s[1])
  /\ \A d \in Directions : \A s \in SlotsOf(d) : s \in Slots /\ s[1] = d
  BY DEF Slots, SlotsOf

LEMMA BoundTypes ==
  /\ MaxAttempts \in Nat \ {0} /\ MaxReplays \in Nat
  /\ NewOperation \in Operation /\ Idle \in Executor
<1>1. MaxAttempts \in Nat \ {0} /\ MaxReplays \in Nat
  OBVIOUS
<1>2. NewOperation \in Operation
  BY <1>1 DEF NewOperation, Operation
<1>3. Idle \in Executor
  BY DEF Idle, Executor
<1> QED
  BY <1>1, <1>2, <1>3

\* What the adapters report.
LEMMA Reports ==
  ASSUME NEW r, NEW e \in Wire
  PROVE  /\ Adapter(r, e) \in Outcomes
         /\ Adapter(r, e) \in {"FAILURE", "RETRY"} => Makes(e) = {FALSE}
         /\ Makes(e) \subseteq BOOLEAN
  BY DEF Adapter, Kuaipao, Wan, Makes, Wire, Outcomes

-----------------------------------------------------------------------------
(* A step of an executor before its commit *)

Paying == {"prepare", "claim", "submit"}

\* The executor goes on, or is gone; it may have fenced its own attempt, paid
\* from its submission, or stored the object of its own attempt.
ExecutorMove(w, next) ==
    /\ Busy(w) /\ next \in Executor /\ worker' = [worker EXCEPT ![w] = next]
    /\ UNCHANGED <<environment, commandVars, op, candidate, ready, evaluation>>
    /\ faults' \in Nat /\ changes' \in Nat
    /\ next.pc # "idle" =>
          /\ next.slot = SlotOf(w) /\ next.number = Number(w)
          /\ next.pc \in Paying \/ next.outcome \in {"FAILURE", "RETRY"}
                => produced'[SlotOf(w)] = 0
          /\ next.pc = "record" => next.outcome \in Outcomes
          /\ next.pc = "finish" => next.outcome \in Outcomes \ {"SUCCESS"}
          /\ next.pc = "commit" => ObjectKey(w) \in objects'
          /\ worker[w].pc = "finish" => next.pc = "finish"
    /\ \/ UNCHANGED produced
       \/ worker[w].pc = "submit" /\ Produce(w)
    /\ \/ UNCHANGED attempt
       \/ /\ worker[w].pc \in {"claim", "record"}
          /\ \E state \in {"DISPATCHING"} \cup Outcomes : Fence(w, state)
    /\ objects \subseteq objects' /\ objects' \subseteq objects \cup {ObjectKey(w)}

\* Going to another step of the same attempt, with the outcome it has or another.
LEMMA Goes ==
  ASSUME TypeOK, NEW w \in Workers,
         NEW pc \in {"claim", "submit", "record", "publish", "commit", "finish"}, Goto(w, pc)
  PROVE  \E next \in Executor :
            /\ worker' = [worker EXCEPT ![w] = next]
            /\ next.pc = pc /\ next.slot = SlotOf(w) /\ next.number = Number(w)
            /\ next.outcome = worker[w].outcome
<1> DEFINE next == [worker[w] EXCEPT !.pc = pc]
<1>1. worker[w] \in Executor
  BY DEF TypeOK
<1>2. /\ next \in Executor /\ next.pc = pc /\ next.slot = SlotOf(w)
      /\ next.number = Number(w) /\ next.outcome = worker[w].outcome
  BY <1>1 DEF Executor, SlotOf, Number
<1>3. worker' = [worker EXCEPT ![w] = next]
  BY DEF Goto
<1> QED
  BY <1>2, <1>3

\* Going to the next step with a new outcome.
Report(w, pc, outcome) == worker' = [worker EXCEPT ![w].pc = pc, ![w].outcome = outcome]

LEMMA Reported ==
  ASSUME TypeOK, NEW w \in Workers, NEW pc \in {"record", "finish"}, NEW outcome \in Outcomes,
         Report(w, pc, outcome)
  PROVE  \E next \in Executor :
            /\ worker' = [worker EXCEPT ![w] = next]
            /\ next.pc = pc /\ next.slot = SlotOf(w) /\ next.number = Number(w)
            /\ next.outcome = outcome
<1> DEFINE next == [worker[w] EXCEPT !.pc = pc, !.outcome = outcome]
<1>1. worker[w] \in Executor
  BY DEF TypeOK
<1>2. next \in Executor
  BY <1>1 DEF Executor, Outcomes
<1>3. next.pc = pc /\ next.outcome = outcome
  BY <1>1 DEF Executor
<1>4. next.slot = SlotOf(w) /\ next.number = Number(w)
  BY <1>1 DEF Executor, SlotOf, Number
<1>5. worker' = [worker EXCEPT ![w] = next]
  BY DEF Report
<1> QED
  BY <1>2, <1>3, <1>4, <1>5

LEMMA Ends ==
  ASSUME TypeOK, NEW w \in Workers, NEW outcome \in Outcomes, End(w, outcome)
  PROVE  \E next \in Executor :
            /\ worker' = [worker EXCEPT ![w] = next]
            /\ next.pc = "finish" /\ next.slot = SlotOf(w) /\ next.number = Number(w)
            /\ next.outcome = outcome
<1>1. Report(w, "finish", outcome)
  BY DEF End, Report
<1> QED
  BY <1>1, Reported

\* Each of these steps is such a move.
LEMMA ExecutorSteps ==
  ASSUME GenerationInv, NEW w \in Workers,
         \/ Prepare(w) \/ AdapterUnavailable(w) \/ Claim(w) \/ ClaimUnknown(w)
         \/ SubmitLost(w) \/ RecordOutcome(w) \/ RecordUnknown(w)
         \/ \E e \in Wire : Submit(w, e)
         \/ Publish(w) \/ PublishUnknown(w) \/ CommitRefused(w) \/ Crash(w)
  PROVE  \E next \in Executor : ExecutorMove(w, next)
<1>0. /\ TypeOK /\ worker[w] \in Executor /\ faults' \in Nat /\ changes' \in Nat
  BY DEF GenerationInv, TypeOK, Prepare, AdapterUnavailable, Claim, ClaimUnknown, SubmitLost,
     RecordOutcome, RecordUnknown, Submit, Publish, PublishUnknown, CommitRefused, Crash,
     Calm, Disturb
<1>1. Busy(w)
  BY DEF Busy, Prepare, AdapterUnavailable, Claim, ClaimUnknown, SubmitLost,
     RecordOutcome, RecordUnknown, Submit, Publish, PublishUnknown, CommitRefused, Crash
<1>2. /\ SlotOf(w) \in Slots /\ produced[SlotOf(w)] \in Nat
      /\ worker[w].pc \in Paying \/ worker[w].outcome \in {"FAILURE", "RETRY"}
            => produced[SlotOf(w)] = 0
      /\ worker[w].pc = "record" => worker[w].outcome \in Outcomes
  BY <1>1 DEF GenerationInv, OneExecutor, UnpaidUntilSubmitted, TypeOK, Paying
<1>3. ASSUME NEW pc \in {"claim", "submit", "publish", "commit", "finish"}, Goto(w, pc),
             UNCHANGED <<environment, commandVars, op, candidate, ready, evaluation>>,
             UNCHANGED produced,
             UNCHANGED attempt \/ (/\ worker[w].pc \in {"claim", "record"}
                                  /\ \E state \in {"DISPATCHING"} \cup Outcomes : Fence(w, state)),
             objects \subseteq objects', objects' \subseteq objects \cup {ObjectKey(w)},
             pc \in Paying => worker[w].pc \in Paying,
             pc = "finish" => worker[w].outcome \in Outcomes \ {"SUCCESS"},
             pc = "commit" => ObjectKey(w) \in objects',
             worker[w].pc # "finish"
      PROVE  \E next \in Executor : ExecutorMove(w, next)
  <2>1. PICK next \in Executor :
            /\ worker' = [worker EXCEPT ![w] = next]
            /\ next.pc = pc /\ next.slot = SlotOf(w) /\ next.number = Number(w)
            /\ next.outcome = worker[w].outcome
    BY <1>0, <1>3, Goes
  <2>2. ExecutorMove(w, next)
    BY <1>0, <1>1, <1>2, <1>3, <2>1 DEF ExecutorMove, Paying
  <2> QED
    BY <2>2
<1>4. ASSUME NEW outcome \in Outcomes \ {"SUCCESS"}, End(w, outcome),
             UNCHANGED <<environment, commandVars, op, candidate, ready, evaluation>>,
             UNCHANGED produced \/ (worker[w].pc = "submit" /\ Produce(w)),
             UNCHANGED attempt \/ (/\ worker[w].pc \in {"claim", "record"}
                                  /\ \E state \in {"DISPATCHING"} \cup Outcomes : Fence(w, state)),
             objects \subseteq objects', objects' \subseteq objects \cup {ObjectKey(w)},
             outcome \in {"FAILURE", "RETRY"} => worker[w].pc \in Paying /\ UNCHANGED produced
      PROVE  \E next \in Executor : ExecutorMove(w, next)
  <2>1. PICK next \in Executor :
            /\ worker' = [worker EXCEPT ![w] = next]
            /\ next.pc = "finish" /\ next.slot = SlotOf(w) /\ next.number = Number(w)
            /\ next.outcome = outcome
    BY <1>0, <1>4, Ends
  <2>2. ExecutorMove(w, next)
    BY <1>0, <1>1, <1>2, <1>4, <2>1 DEF ExecutorMove, Paying
  <2> QED
    BY <2>2
<1>5. CASE Prepare(w) \/ AdapterUnavailable(w)
  BY <1>3, <1>4, <1>5 DEF Prepare, AdapterUnavailable, Paying, Outcomes
<1>6. CASE Claim(w) \/ ClaimUnknown(w)
  BY <1>3, <1>4, <1>6 DEF Claim, ClaimUnknown, Paying, Outcomes
<1>7. ASSUME NEW e \in Wire, Submit(w, e)
      PROVE  \E next \in Executor : ExecutorMove(w, next)
  <2> DEFINE outcome == Adapter(RouteOf(w), e)
  <2>0. Report(w, "record", outcome) /\ outcome \in Outcomes /\ worker[w].pc = "submit"
    BY <1>7, Reports DEF Submit, Report
  <2> HIDE DEF outcome
  <2>1. PICK next \in Executor :
            /\ worker' = [worker EXCEPT ![w] = next]
            /\ next.pc = "record" /\ next.slot = SlotOf(w) /\ next.number = Number(w)
            /\ next.outcome = outcome
    BY <1>0, <2>0, Reported
  <2>2. outcome \in {"FAILURE", "RETRY"} => produced'[SlotOf(w)] = 0
    BY <1>2, <1>7, Reports DEF Submit, Paying, outcome
  <2>3. UNCHANGED produced \/ Produce(w)
    BY <1>7 DEF Submit
  <2>4. ExecutorMove(w, next)
    BY <1>0, <1>1, <1>7, <2>0, <2>1, <2>2, <2>3 DEF Submit, ExecutorMove, Paying
  <2> QED
    BY <2>4
<1>8. CASE SubmitLost(w) \/ CommitRefused(w)
  BY <1>4, <1>8 DEF SubmitLost, CommitRefused, Outcomes
<1>9. CASE RecordOutcome(w) \/ RecordUnknown(w)
  <2>1. CASE RecordOutcome(w) /\ worker[w].outcome = "SUCCESS"
    BY <1>2, <1>3, <2>1 DEF RecordOutcome, Paying
  <2>2. CASE RecordOutcome(w) /\ worker[w].outcome # "SUCCESS"
    BY <1>2, <1>3, <2>2 DEF RecordOutcome, Paying
  <2>3. CASE RecordUnknown(w)
    BY <1>2, <1>4, <2>3 DEF RecordUnknown, Outcomes
  <2> QED
    BY <1>9, <2>1, <2>2, <2>3
<1>10. CASE Publish(w) \/ PublishUnknown(w)
  BY <1>3, <1>4, <1>10 DEF Publish, PublishUnknown, Paying, Outcomes
<1>11. CASE Crash(w)
  <2>1. ExecutorMove(w, Idle)
    BY <1>0, <1>1, <1>11, BoundTypes DEF Crash, ExecutorMove, Idle
  <2> QED
    BY <2>1, BoundTypes
<1> QED
  BY <1>5, <1>6, <1>7, <1>8, <1>9, <1>10, <1>11

\* Payment and fences: only the executor's own slot is touched, and only while
\* it has not paid for it.
LEMMA MovePays ==
  ASSUME GenerationInv, NEW w \in Workers, NEW next \in Executor, ExecutorMove(w, next)
  PROVE  /\ produced' \in [Slots -> Nat] /\ PaidOnce'
         /\ attempt' \in [Slots -> [Numbers -> {"NONE", "DISPATCHING"} \cup Outcomes]]
         /\ \A s \in Slots : Free(op[s]) => produced'[s] = 0
         /\ \A s \in Slots : s # SlotOf(w) => produced'[s] = produced[s]
         /\ \A s \in Slots : candidate[s] # 0 => attempt'[s] = attempt[s]
<1>1. /\ Busy(w) /\ SlotOf(w) \in Slots /\ Number(w) \in Numbers /\ ~Free(op[SlotOf(w)])
      /\ worker[w].pc = "submit" => produced[SlotOf(w)] = 0
      /\ op[SlotOf(w)].state = "SUCCEEDED" => worker[w].pc = "finish"
  BY DEF GenerationInv, OneExecutor, UnpaidUntilSubmitted, StoredBeforeCommit, ExecutorMove
<1>2. /\ produced \in [Slots -> Nat] /\ \A s \in Slots : produced[s] <= 1
      /\ \A s \in Slots : Free(op[s]) => produced[s] = 0
      /\ attempt \in [Slots -> [Numbers -> {"NONE", "DISPATCHING"} \cup Outcomes]]
      /\ \A s \in Slots : candidate[s] # 0 => op[s].state = "SUCCEEDED"
  BY DEF GenerationInv, TypeOK, PaidOnce, UnpaidUntilSubmitted, CandidateIsWhole
<1>3. CASE UNCHANGED produced
  <2>1. /\ produced' \in [Slots -> Nat] /\ PaidOnce'
        /\ \A s \in Slots : Free(op[s]) => produced'[s] = 0
        /\ \A s \in Slots : s # SlotOf(w) => produced'[s] = produced[s]
    BY <1>2, <1>3 DEF PaidOnce
  <2> QED
    BY <1>1, <1>2, <2>1 DEF ExecutorMove, Fence
<1>4. CASE worker[w].pc = "submit" /\ Produce(w)
  <2>1. produced' = [produced EXCEPT ![SlotOf(w)] = 1]
    BY <1>1, <1>2, <1>4 DEF Produce
  <2>2. /\ produced' \in [Slots -> Nat] /\ PaidOnce'
        /\ \A s \in Slots : Free(op[s]) => produced'[s] = 0
        /\ \A s \in Slots : s # SlotOf(w) => produced'[s] = produced[s]
    BY <1>1, <1>2, <2>1 DEF PaidOnce
  <2>3. UNCHANGED attempt
    BY <1>4 DEF ExecutorMove
  <2> QED
    BY <1>2, <2>2, <2>3
<1> QED
  BY <1>3, <1>4 DEF ExecutorMove

LEMMA MoveTypes ==
  ASSUME GenerationInv, NEW w \in Workers, NEW next \in Executor, ExecutorMove(w, next)
  PROVE  TypeOK'
<1>1. objects' \subseteq Slots \X Nat
  <2>1. SlotOf(w) \in Slots /\ Number(w) \in Nat
    BY DEF GenerationInv, OneExecutor, ExecutorMove, Numbers
  <2> QED
    BY <2>1 DEF GenerationInv, TypeOK, ExecutorMove, ObjectKey
<1>2. worker' \in [Workers -> Executor]
  BY DEF GenerationInv, TypeOK, ExecutorMove
<1> QED
  BY <1>1, <1>2, MovePays DEF GenerationInv, TypeOK, ExecutorMove, environment, commandVars

LEMMA MoveKeepsExecutors ==
  ASSUME GenerationInv, NEW w \in Workers, NEW next \in Executor, ExecutorMove(w, next)
  PROVE  OneExecutor' /\ UnpaidUntilSubmitted' /\ StoredBeforeCommit'
<1>1. /\ worker \in [Workers -> Executor] /\ worker' = [worker EXCEPT ![w] = next] /\ op' = op
      /\ Busy(w)
  BY DEF GenerationInv, TypeOK, ExecutorMove
<1>2. worker'[w] = next /\ \A v \in Workers : v # w => worker'[v] = worker[v]
  BY <1>1
<1>3. \A v \in Workers : Busy(v)' => Busy(v) /\ SlotOf(v)' = SlotOf(v) /\ Number(v)' = Number(v)
  BY <1>1, <1>2 DEF ExecutorMove, Busy, SlotOf, Number
<1>4. OneExecutor'
  BY <1>1, <1>3 DEF GenerationInv, OneExecutor
<1>5. ASSUME NEW v \in Workers, Busy(v)', v # w
      PROVE  produced'[SlotOf(v)] = produced[SlotOf(v)]
  BY <1>1, <1>3, <1>5, MovePays DEF GenerationInv, OneExecutor
<1>6. UnpaidUntilSubmitted'
  <2>1. \A s \in Slots : Free(op'[s]) => produced'[s] = 0
    BY <1>1, MovePays
  <2>2. ASSUME NEW v \in Workers, Busy(v)'
        PROVE  /\ worker'[v].pc \in Paying \/ worker'[v].outcome \in {"FAILURE", "RETRY"}
                     => produced'[SlotOf(v)'] = 0
               /\ worker'[v].pc = "record" => worker'[v].outcome \in Outcomes
               /\ worker'[v].pc = "finish" => worker'[v].outcome \in Outcomes \ {"SUCCESS"}
    <3>1. CASE v = w
      BY <1>2, <1>3, <2>2, <3>1 DEF ExecutorMove, Busy
    <3>2. CASE v # w
      BY <1>2, <1>3, <1>5, <2>2, <3>2 DEF GenerationInv, UnpaidUntilSubmitted, Paying
    <3> QED
      BY <3>1, <3>2
  <2> QED
    BY <2>1, <2>2 DEF UnpaidUntilSubmitted, Paying
<1>7. StoredBeforeCommit'
  <2>1. ASSUME NEW v \in Workers
        PROVE  /\ worker'[v].pc = "commit" => ObjectKey(v)' \in objects'
               /\ Busy(v)' /\ op'[SlotOf(v)'].state = "SUCCEEDED" => worker'[v].pc = "finish"
    <3>1. CASE v = w
      <4>1. worker[v].pc = "finish" /\ Busy(v)' => worker'[v].pc = "finish"
        BY <1>2, <3>1 DEF ExecutorMove, Busy
      <4>2. worker'[v].pc = "commit" => ObjectKey(v)' \in objects'
        BY <1>2, <3>1 DEF ExecutorMove, ObjectKey, SlotOf, Number
      <4> QED
        BY <1>1, <1>3, <4>1, <4>2 DEF GenerationInv, StoredBeforeCommit
    <3>2. CASE v # w
      BY <1>1, <1>2, <1>3, <3>2 DEF GenerationInv, StoredBeforeCommit, ExecutorMove, Busy,
         ObjectKey, SlotOf, Number
    <3> QED
      BY <3>1, <3>2
  <2> QED
    BY <2>1 DEF StoredBeforeCommit
<1> QED
  BY <1>4, <1>6, <1>7

LEMMA MoveKeepsInvariant ==
  ASSUME GenerationInv, NEW w \in Workers, NEW next \in Executor, ExecutorMove(w, next)
  PROVE  GenerationInv'
<1>1. CandidateIsWhole'
  BY MovePays DEF GenerationInv, CandidateIsWhole, ExecutorMove
<1>2. WithinBudget' /\ CreatedWithBatch' /\ EvaluatedOnce' /\ ReadyNotLost'
  BY DEF GenerationInv, WithinBudget, CreatedWithBatch, EvaluatedOnce, ReadyNotLost,
     ExecutorMove, environment, commandVars, BatchComplete, PlanIsCurrent
<1> QED
  BY <1>1, <1>2, MovePays, MoveTypes, MoveKeepsExecutors DEF GenerationInv

-----------------------------------------------------------------------------
(* A step of the durable operation of one slot *)

\* Neither before nor after the step does the operation stand for a candidate.
SlotChange(s, o) ==
    /\ op' = [op EXCEPT ![s] = o]
    /\ op[s].state \notin {"NONE", "SUCCEEDED"} /\ o.state \notin {"NONE", "SUCCEEDED"}
    /\ o.budget <= MaxAttempts + o.replays /\ o.attempts <= o.budget
    /\ o.state = "READY" => o.attempts < o.budget
    /\ UNCHANGED <<environment, commandVars, attempt, produced, objects, candidate, ready,
                   evaluation>>
    /\ faults' \in Nat /\ changes' \in Nat

LEMMA SlotChangeKeepsCandidates ==
  ASSUME GenerationInv, NEW s \in Slots, NEW o \in Operation, SlotChange(s, o)
  PROVE  /\ op' \in [Slots -> Operation] /\ op'[s] = o
         /\ \A t \in Slots : t # s => op'[t] = op[t]
         /\ WithinBudget' /\ CreatedWithBatch' /\ EvaluatedOnce' /\ PaidOnce'
         /\ CandidateIsWhole' /\ ReadyNotLost'
<1>1. /\ op' \in [Slots -> Operation] /\ op'[s] = o
      /\ \A t \in Slots : t # s => op'[t] = op[t]
  BY DEF GenerationInv, TypeOK, SlotChange
<1>2. WithinBudget'
  BY <1>1 DEF GenerationInv, WithinBudget, SlotChange
<1>3. \A t \in Slots : op'[t].state = "SUCCEEDED" <=> op[t].state = "SUCCEEDED"
  BY <1>1 DEF SlotChange
<1>4. CreatedWithBatch'
  BY <1>1, SlotFacts DEF GenerationInv, CreatedWithBatch, SlotChange, commandVars
<1>5. \A d \in Directions : BatchComplete(d)' <=> BatchComplete(d)
  BY <1>3, SlotFacts DEF BatchComplete, SlotChange
<1>6. EvaluatedOnce' /\ ReadyNotLost'
  BY <1>5 DEF GenerationInv, EvaluatedOnce, ReadyNotLost, SlotChange, environment, PlanIsCurrent
<1>7. CandidateIsWhole'
  BY <1>1, <1>3 DEF GenerationInv, CandidateIsWhole, SlotChange
<1>8. PaidOnce'
  BY DEF GenerationInv, PaidOnce, SlotChange
<1> QED
  BY <1>1, <1>2, <1>4, <1>6, <1>7, <1>8

\* The scanner and the administrator work behind the executors' backs.
LEMMA SlotChangeBehindExecutors ==
  ASSUME GenerationInv, NEW s \in Slots, NEW o \in Operation, SlotChange(s, o),
         UNCHANGED worker, o.attempts = op[s].attempts, Free(o) => Free(op[s])
  PROVE  GenerationInv'
<1>1. /\ op' \in [Slots -> Operation] /\ op'[s] = o
      /\ \A t \in Slots : t # s => op'[t] = op[t]
  BY SlotChangeKeepsCandidates
<1>2. /\ \A t \in Slots : op'[t].attempts = op[t].attempts /\ (Free(op'[t]) => Free(op[t]))
      /\ \A t \in Slots : op'[t].state = "SUCCEEDED" => op[t].state = "SUCCEEDED"
  BY <1>1 DEF SlotChange
<1>3. \A v \in Workers : /\ Busy(v)' <=> Busy(v)
                         /\ SlotOf(v)' = SlotOf(v) /\ Number(v)' = Number(v)
  BY DEF Busy, SlotOf, Number
<1>4. TypeOK'
  BY <1>1 DEF GenerationInv, TypeOK, SlotChange, environment, commandVars
<1>5. OneExecutor'
  BY <1>2, <1>3 DEF GenerationInv, OneExecutor
<1>6. UnpaidUntilSubmitted'
  BY <1>2, <1>3 DEF GenerationInv, UnpaidUntilSubmitted, SlotChange
<1>7. StoredBeforeCommit'
  <2>1. \A v \in Workers : Busy(v) => SlotOf(v) \in Slots
    BY DEF GenerationInv, OneExecutor
  <2> QED
    BY <1>2, <1>3, <2>1 DEF GenerationInv, StoredBeforeCommit, SlotChange, ObjectKey
<1> QED
  BY <1>4, <1>5, <1>6, <1>7, SlotChangeKeepsCandidates DEF GenerationInv

LEMMA ScannerSteps ==
  ASSUME GenerationInv, NEW s \in Slots, Recover(s) \/ ReconciliationDisabled(s) \/ Replay(s)
  PROVE  GenerationInv'
<1>1. /\ op \in [Slots -> Operation] /\ op[s] \in Operation
      /\ op[s].budget <= MaxAttempts + op[s].replays /\ op[s].attempts <= op[s].budget
      /\ faults' \in Nat /\ changes' \in Nat
  <2>1. /\ op \in [Slots -> Operation] /\ faults \in Nat /\ changes \in Nat
        /\ op[s].budget <= MaxAttempts + op[s].replays /\ op[s].attempts <= op[s].budget
    BY DEF GenerationInv, TypeOK, WithinBudget
  <2>2. Calm \/ Disturb \/ Change
    BY DEF Recover, ReconciliationDisabled, Replay
  <2> QED
    BY <2>1, <2>2 DEF Calm, Disturb, Change
<1>2. CASE Recover(s)
  <2> DEFINE o == [op[s] EXCEPT !.state = "RECONCILING"]
  <2>1. o \in Operation /\ o.attempts = op[s].attempts /\ ~Free(o)
    BY <1>1 DEF Operation, Free
  <2>2. SlotChange(s, o)
    BY <1>1, <1>2 DEF Recover, SlotChange, Operation
  <2>3. UNCHANGED worker
    BY <1>2 DEF Recover
  <2> HIDE DEF o
  <2> QED
    BY <2>1, <2>2, <2>3, SlotChangeBehindExecutors
<1>3. CASE ReconciliationDisabled(s)
  <2> DEFINE o == Failed(op[s], TRUE)
  <2>1. o \in Operation /\ o.attempts = op[s].attempts /\ ~Free(o)
    BY <1>1 DEF Operation, Free, Failed
  <2>2. SlotChange(s, o)
    BY <1>1, <1>3 DEF ReconciliationDisabled, SlotChange, Operation, Failed
  <2>3. UNCHANGED worker
    BY <1>3 DEF ReconciliationDisabled
  <2> HIDE DEF o
  <2> QED
    BY <2>1, <2>2, <2>3, SlotChangeBehindExecutors
<1>4. CASE Replay(s)
  <2> DEFINE o == Replayed(op[s])
  <2>1. op[s].replays + 1 \in 0..MaxReplays
    BY <1>1, <1>4, BoundTypes DEF Replay, Operation
  <2>2. o \in Operation /\ o.attempts = op[s].attempts
    <3>1. op[s].attempts + 1 \in Nat /\ op[s].attempts \in Nat
      BY <1>1 DEF Operation
    <3>2. CASE op[s].unknown
      BY <1>1, <2>1, <3>1, <3>2 DEF Operation, Replayed
    <3>3. CASE ~op[s].unknown
      BY <1>1, <2>1, <3>1, <3>3 DEF Operation, Replayed
    <3> QED
      BY <3>2, <3>3
  <2>3. Free(o) => Free(op[s])
    BY <1>1, <1>4 DEF Replay, Operation, Replayed, Free
  <2>4. o.attempts + 1 <= MaxAttempts + op[s].replays + 1
    BY <1>1, <2>2, BoundTypes DEF Operation
  <2>5. /\ o.state \in {"READY", "RECONCILING"} /\ o.replays = op[s].replays + 1
        /\ o.budget \in {op[s].budget, op[s].attempts + 1}
        /\ o.state = "READY" => o.budget = op[s].attempts + 1
    BY <1>1 DEF Replayed, Operation
  <2>6. SlotChange(s, o)
    <3>1. op' = [op EXCEPT ![s] = o] /\ op[s].state = "FAILED"
      BY <1>4 DEF Replay
    <3>2. /\ o.budget <= MaxAttempts + o.replays /\ o.attempts <= o.budget
          /\ o.state = "READY" => o.attempts < o.budget
      BY <1>1, <2>2, <2>4, <2>5, BoundTypes DEF Operation
    <3> HIDE DEF o
    <3> QED
      BY <1>1, <1>4, <2>5, <3>1, <3>2 DEF Replay, SlotChange
  <2>7. UNCHANGED worker
    BY <1>4 DEF Replay
  <2> HIDE DEF o
  <2> QED
    BY <2>2, <2>3, <2>6, <2>7, SlotChangeBehindExecutors
<1> QED
  BY <1>2, <1>3, <1>4

\* Taking an operation begins its next attempt.
LEMMA TakeStep ==
  ASSUME GenerationInv, NEW w \in Workers, NEW s \in Slots, Take(w, s)
  PROVE  GenerationInv'
<1> DEFINE o == [op[s] EXCEPT !.state = "RUNNING", !.attempts = @ + 1]
           next == [Idle EXCEPT !.pc = "prepare", !.slot = s, !.number = op[s].attempts + 1]
<1>1. /\ op \in [Slots -> Operation] /\ op[s] \in Operation /\ op[s].state = "READY"
      /\ op[s].budget <= MaxAttempts + op[s].replays /\ op[s].attempts < op[s].budget
      /\ worker \in [Workers -> Executor] /\ faults' \in Nat /\ changes' \in Nat
      /\ worker[w].pc = "idle" /\ Free(op[s])
  BY DEF GenerationInv, TypeOK, WithinBudget, Take, Calm, Free
<1>2. /\ o \in Operation /\ o.attempts = op[s].attempts + 1 /\ o.state = "RUNNING"
      /\ o.budget = op[s].budget /\ o.replays = op[s].replays
  <2>1. op[s].attempts + 1 \in Nat
    BY <1>1 DEF Operation
  <2>2. o \in Operation
    BY <1>1, <2>1 DEF Operation
  <2>3. o.attempts = op[s].attempts + 1
    BY <1>1 DEF Operation
  <2>4. o.state = "RUNNING"
    BY <1>1 DEF Operation
  <2>5. o.budget = op[s].budget /\ o.replays = op[s].replays
    BY <1>1 DEF Operation
  <2> QED
    BY <2>2, <2>3, <2>4, <2>5
<1>3. /\ next \in Executor /\ next.pc = "prepare" /\ next.slot = s
      /\ next.number = op[s].attempts + 1
  <2>1. op[s].attempts + 1 \in Nat
    BY <1>1 DEF Operation
  <2>2. Idle \in Executor
    BY BoundTypes
  <2>3. next \in Executor
    BY <2>1, <2>2 DEF Executor
  <2>4. next.pc = "prepare"
    BY <2>2 DEF Executor
  <2>5. next.slot = s
    BY <2>2 DEF Executor
  <2>6. next.number = op[s].attempts + 1
    BY <2>2 DEF Executor
  <2> QED
    BY <2>3, <2>4, <2>5, <2>6
<1>4. op[s].attempts + 1 \in Numbers
  BY <1>1, BoundTypes DEF Operation, Numbers
<1>5. op' = [op EXCEPT ![s] = o] /\ worker' = [worker EXCEPT ![w] = next]
  BY <1>1 DEF Take
<1> HIDE DEF o, next
<1>6. SlotChange(s, o)
  BY <1>1, <1>2, <1>5 DEF SlotChange, Take, Operation
<1>7. /\ op' \in [Slots -> Operation] /\ op'[s] = o
      /\ \A t \in Slots : t # s => op'[t] = op[t]
  BY <1>2, <1>6, SlotChangeKeepsCandidates
<1>8. worker'[w] = next /\ \A v \in Workers : v # w => worker'[v] = worker[v]
  BY <1>1, <1>5
<1>9. \A v \in Workers : v # w =>
          /\ Busy(v)' <=> Busy(v)
          /\ SlotOf(v)' = SlotOf(v) /\ Number(v)' = Number(v)
          /\ Busy(v) => SlotOf(v) \in Slots \ {s}
  BY <1>1, <1>8 DEF GenerationInv, OneExecutor, Busy, SlotOf, Number
<1>10. Busy(w)' /\ SlotOf(w)' = s /\ Number(w)' = o.attempts /\ o.attempts \in Numbers
  BY <1>2, <1>3, <1>4, <1>8 DEF Busy, SlotOf, Number
<1>11. TypeOK'
  BY <1>1, <1>3, <1>5, <1>7 DEF GenerationInv, TypeOK, Take, environment, commandVars
<1>12. OneExecutor'
  <2>1. ASSUME NEW v \in Workers, Busy(v)'
        PROVE  /\ SlotOf(v)' \in Slots /\ Number(v)' \in Numbers
               /\ Number(v)' = op'[SlotOf(v)'].attempts /\ ~Free(op'[SlotOf(v)'])
    <3>1. CASE v = w
      BY <1>2, <1>7, <1>10, <3>1 DEF Free
    <3>2. CASE v # w
      BY <1>7, <1>9, <2>1, <3>2 DEF GenerationInv, OneExecutor
    <3> QED
      BY <3>1, <3>2
  <2>2. \A u, v \in Workers : Busy(u)' /\ Busy(v)' /\ SlotOf(u)' = SlotOf(v)' => u = v
    BY <1>9, <1>10 DEF GenerationInv, OneExecutor
  <2> QED
    BY <2>1, <2>2 DEF OneExecutor
<1>13. UnpaidUntilSubmitted'
  <2>1. UNCHANGED produced /\ produced[s] = 0
    BY <1>1 DEF Take, GenerationInv, UnpaidUntilSubmitted
  <2>2. \A t \in Slots : Free(op'[t]) => produced'[t] = 0
    BY <1>7, <2>1 DEF GenerationInv, UnpaidUntilSubmitted
  <2> QED
    BY <1>3, <1>8, <1>9, <1>10, <2>1, <2>2 DEF GenerationInv, UnpaidUntilSubmitted
<1>14. StoredBeforeCommit'
  <2>1. UNCHANGED objects
    BY DEF Take
  <2> QED
    BY <1>2, <1>3, <1>7, <1>8, <1>9, <1>10, <2>1 DEF GenerationInv, StoredBeforeCommit, ObjectKey
<1> QED
  BY <1>2, <1>6, <1>11, <1>12, <1>13, <1>14, SlotChangeKeepsCandidates DEF GenerationInv

\* The executor reports; only a refusal makes the operation Free again.
LEMMA FinishStep ==
  ASSUME GenerationInv, NEW w \in Workers, Finish(w)
  PROVE  GenerationInv'
<1> DEFINE s == SlotOf(w)
<1>1. /\ worker \in [Workers -> Executor] /\ faults' \in Nat /\ changes' \in Nat
      /\ worker' = [worker EXCEPT ![w] = Idle] /\ Busy(w) /\ s \in Slots
      /\ worker[w].outcome \in Outcomes \ {"SUCCESS"}
      /\ worker[w].outcome \in {"FAILURE", "RETRY"} => produced[s] = 0
  BY DEF GenerationInv, TypeOK, OneExecutor, UnpaidUntilSubmitted, Finish, Calm, Busy
<1>2. CASE ~Holds(w)
  <2>1. ExecutorMove(w, Idle)
    BY <1>1, <1>2, BoundTypes DEF Finish, ExecutorMove, Idle
  <2> QED
    BY <2>1, BoundTypes, MoveKeepsInvariant
<1>3. CASE Holds(w)
  <2> DEFINE o == Settled(op[s], worker[w].outcome)
  <2>1. /\ op[s] \in Operation /\ op[s].state = "RUNNING"
        /\ op[s].budget <= MaxAttempts + op[s].replays /\ op[s].attempts <= op[s].budget
    BY <1>1, <1>3 DEF GenerationInv, TypeOK, WithinBudget, Holds
  <2>2. o \in Operation
    BY <2>1 DEF Settled, Failed, Operation
  <2>3. o.attempts = op[s].attempts /\ o.budget = op[s].budget /\ o.replays = op[s].replays
    BY <2>1 DEF Settled, Failed, Operation
  <2>4. /\ o.state \in {"READY", "RECONCILING", "FAILED"}
        /\ o.state = "READY" => op[s].attempts < op[s].budget
    BY <2>1 DEF Settled, Failed, Operation
  <2>5. Free(o) => produced[s] = 0
    <3>1. CASE worker[w].outcome \in {"UNKNOWN", "PENDING"}
      BY <2>1, <3>1 DEF Settled, Free, Operation
    <3>2. CASE worker[w].outcome \notin {"UNKNOWN", "PENDING"}
      BY <1>1, <3>2 DEF Outcomes
    <3> QED
      BY <3>1, <3>2
  <2>6. op' = [op EXCEPT ![s] = o]
    BY <1>3 DEF Finish
  <2> HIDE DEF o, s
  <2>7. SlotChange(s, o)
    BY <1>1, <2>1, <2>3, <2>4, <2>6 DEF SlotChange, Finish
  <2>8. /\ op' \in [Slots -> Operation] /\ op'[s] = o
        /\ \A t \in Slots : t # s => op'[t] = op[t]
    BY <1>1, <2>2, <2>7, SlotChangeKeepsCandidates
  <2>9. \A v \in Workers : Busy(v)' =>
            /\ Busy(v) /\ v # w /\ worker'[v] = worker[v]
            /\ SlotOf(v)' = SlotOf(v) /\ Number(v)' = Number(v) /\ SlotOf(v) \in Slots \ {s}
    <3>1. ASSUME NEW v \in Workers, Busy(v)'
          PROVE  v # w /\ worker'[v] = worker[v]
      BY <1>1, <3>1 DEF Busy, Idle
    <3> QED
      BY <1>1, <3>1 DEF GenerationInv, OneExecutor, Busy, SlotOf, Number, s
  <2>10. TypeOK'
    <3>1. worker' \in [Workers -> Executor]
      BY <1>1, BoundTypes
    <3> QED
      BY <1>1, <2>8, <3>1 DEF GenerationInv, TypeOK, Finish, environment, commandVars
  <2>11. OneExecutor'
    BY <2>8, <2>9 DEF GenerationInv, OneExecutor
  <2>12. UnpaidUntilSubmitted'
    <3>1. UNCHANGED produced
      BY DEF Finish
    <3>2. \A t \in Slots : Free(op'[t]) => produced'[t] = 0
      BY <2>5, <2>8, <3>1 DEF GenerationInv, UnpaidUntilSubmitted
    <3> QED
      BY <2>9, <3>1, <3>2 DEF GenerationInv, UnpaidUntilSubmitted
  <2>13. StoredBeforeCommit'
    <3>1. UNCHANGED objects
      BY DEF Finish
    <3>2. ASSUME NEW v \in Workers
          PROVE  /\ worker'[v].pc = "commit" => ObjectKey(v)' \in objects'
                 /\ Busy(v)' /\ op'[SlotOf(v)'].state = "SUCCEEDED" => worker'[v].pc = "finish"
      BY <2>8, <2>9, <3>1 DEF GenerationInv, StoredBeforeCommit, ObjectKey, Busy
    <3> QED
      BY <3>2 DEF StoredBeforeCommit
  <2> QED
    BY <1>1, <2>2, <2>7, <2>10, <2>11, <2>12, <2>13, SlotChangeKeepsCandidates DEF GenerationInv
<1> QED
  BY <1>2, <1>3

-----------------------------------------------------------------------------
(* The commit of an image *)

LEMMA CommitSteps ==
  ASSUME GenerationInv, NEW w \in Workers, Commit(w) \/ CommitUnknown(w)
  PROVE  GenerationInv'
<1> DEFINE s == SlotOf(w)
           n == Number(w)
<1>1. /\ worker[w].pc = "commit" /\ MayCommit(w) /\ CommitSuccess(w) /\ Busy(w)
      /\ UNCHANGED <<environment, commandVars, attempt, produced, objects, evaluation>>
      /\ faults' \in Nat /\ changes' \in Nat
  BY DEF Commit, CommitUnknown, Calm, Disturb, GenerationInv, TypeOK, Busy
<1>2. PICK next \in Executor :
          /\ worker' = [worker EXCEPT ![w] = next]
          /\ \/ next = Idle
             \/ /\ next.pc = "finish" /\ next.slot = s /\ next.number = n
                /\ next.outcome = "UNKNOWN"
  <2>1. CASE Commit(w)
    BY <2>1, BoundTypes DEF Commit
  <2>2. CASE CommitUnknown(w)
    <3>1. TypeOK /\ End(w, "UNKNOWN") /\ "UNKNOWN" \in Outcomes
      BY <2>2 DEF CommitUnknown, GenerationInv, Outcomes
    <3> QED
      BY <3>1, Ends
  <2> QED
    BY <2>1, <2>2
<1>3. /\ s \in Slots /\ n \in Numbers /\ n = op[s].attempts /\ op[s].state = "RUNNING"
      /\ <<s, n>> \in objects /\ attempt[s][n] = "SUCCESS"
      /\ op \in [Slots -> Operation] /\ op[s] \in Operation
      /\ candidate \in [Slots -> Nat] /\ worker \in [Workers -> Executor]
  BY <1>1 DEF GenerationInv, TypeOK, OneExecutor, StoredBeforeCommit, MayCommit, Holds, ObjectKey
<1> DEFINE o == [op[s] EXCEPT !.state = "SUCCEEDED"]
<1>4. /\ o \in Operation /\ o.state = "SUCCEEDED" /\ o.attempts = op[s].attempts
      /\ o.budget = op[s].budget /\ o.replays = op[s].replays
  BY <1>3 DEF Operation
<1>5. /\ op' = [op EXCEPT ![s] = o] /\ candidate' = [candidate EXCEPT ![s] = n]
      /\ ready' = ready \cup {s}
  BY <1>1 DEF CommitSuccess, CandidateImage, Announce
<1> HIDE DEF o, s, n
<1>6. /\ op' \in [Slots -> Operation] /\ op'[s] = o
      /\ \A t \in Slots : t # s => op'[t] = op[t]
      /\ candidate' \in [Slots -> Nat] /\ candidate'[s] = n /\ n # 0
      /\ \A t \in Slots : t # s => candidate'[t] = candidate[t]
  BY <1>3, <1>4, <1>5 DEF Numbers
<1>7. \A v \in Workers : Busy(v)' =>
          /\ Busy(v) /\ SlotOf(v)' = SlotOf(v) /\ Number(v)' = Number(v)
          /\ v # w => worker'[v] = worker[v] /\ SlotOf(v) \in Slots \ {s}
          /\ v = w => worker'[v].pc = "finish" /\ worker'[v].outcome = "UNKNOWN" /\ SlotOf(v) = s
  <2>1. ASSUME NEW v \in Workers, Busy(v)', v # w
        PROVE  worker'[v] = worker[v] /\ Busy(v) /\ SlotOf(v) \in Slots \ {s}
    BY <1>1, <1>2, <1>3, <2>1 DEF GenerationInv, OneExecutor, Busy, s
  <2>2. ASSUME Busy(w)'
        PROVE  /\ worker'[w].pc = "finish" /\ worker'[w].outcome = "UNKNOWN"
               /\ worker'[w].slot = s /\ worker'[w].number = n
    BY <1>2, <1>3, <2>2 DEF Busy, Idle
  <2> QED
    BY <1>1, <2>1, <2>2 DEF SlotOf, Number, s, n
<1>8. TypeOK'
  <2>1. worker' \in [Workers -> Executor]
    BY <1>2, <1>3
  <2> QED
    BY <1>1, <1>3, <1>5, <1>6, <2>1 DEF GenerationInv, TypeOK, environment, commandVars
<1>9. OneExecutor'
  <2>1. ASSUME NEW v \in Workers, Busy(v)'
        PROVE  /\ SlotOf(v)' \in Slots /\ Number(v)' \in Numbers
               /\ Number(v)' = op'[SlotOf(v)'].attempts /\ ~Free(op'[SlotOf(v)'])
    BY <1>4, <1>6, <1>7, <2>1 DEF GenerationInv, OneExecutor, Free
  <2>2. \A u, v \in Workers : Busy(u)' /\ Busy(v)' /\ SlotOf(u)' = SlotOf(v)' => u = v
    BY <1>7 DEF GenerationInv, OneExecutor
  <2> QED
    BY <2>1, <2>2 DEF OneExecutor
<1>10. UnpaidUntilSubmitted'
  <2>1. UNCHANGED produced
    BY <1>1
  <2>2. \A t \in Slots : Free(op'[t]) => produced'[t] = 0
    BY <1>4, <1>6, <2>1 DEF GenerationInv, UnpaidUntilSubmitted, Free
  <2>3. ASSUME NEW v \in Workers, Busy(v)'
        PROVE  /\ worker'[v].pc \in {"prepare", "claim", "submit"}
                     \/ worker'[v].outcome \in {"FAILURE", "RETRY"} => produced'[SlotOf(v)'] = 0
               /\ worker'[v].pc = "record" => worker'[v].outcome \in Outcomes
               /\ worker'[v].pc = "finish" => worker'[v].outcome \in Outcomes \ {"SUCCESS"}
    <3>1. CASE v = w
      BY <1>7, <2>3, <3>1 DEF Outcomes
    <3>2. CASE v # w
      BY <1>7, <2>1, <2>3, <3>2 DEF GenerationInv, UnpaidUntilSubmitted
    <3> QED
      BY <3>1, <3>2
  <2> QED
    BY <2>2, <2>3 DEF UnpaidUntilSubmitted
<1>11. WithinBudget'
  BY <1>4, <1>6 DEF GenerationInv, WithinBudget
<1>12. StoredBeforeCommit'
  <2>1. UNCHANGED objects
    BY <1>1
  <2>2. ASSUME NEW v \in Workers
        PROVE  /\ worker'[v].pc = "commit" => ObjectKey(v)' \in objects'
               /\ Busy(v)' /\ op'[SlotOf(v)'].state = "SUCCEEDED" => worker'[v].pc = "finish"
    BY <1>6, <1>7, <2>1 DEF GenerationInv, StoredBeforeCommit, ObjectKey, Busy
  <2> QED
    BY <2>2 DEF StoredBeforeCommit
<1>13. CreatedWithBatch'
  <2>1. UNCHANGED batch
    BY <1>1 DEF commandVars
  <2>2. op[s].state # "NONE"
    BY <1>3
  <2> QED
    BY <1>6, <2>1, <2>2, SlotFacts DEF GenerationInv, CreatedWithBatch
<1>14. \A d \in Directions : /\ BatchComplete(d) => BatchComplete(d)'
                             /\ d # s[1] => (BatchComplete(d)' <=> BatchComplete(d))
  BY <1>4, <1>6, SlotFacts DEF BatchComplete
<1>15. EvaluatedOnce'
  BY <1>1, <1>14 DEF GenerationInv, EvaluatedOnce, environment
<1>16. PaidOnce'
  BY <1>1 DEF GenerationInv, PaidOnce
<1>17. CandidateIsWhole'
  BY <1>1, <1>3, <1>4, <1>6 DEF GenerationInv, CandidateIsWhole
<1>18. ReadyNotLost'
  <2>1. s \in SlotsOf(s[1]) /\ s \in ready' /\ ready \subseteq ready'
    BY <1>3, <1>5, SlotFacts
  <2>2. UNCHANGED <<workflow, evaluation>>
    BY <1>1 DEF environment
  <2>3. ASSUME NEW d \in Directions,
               \/ BatchComplete(d)' /\ PlanIsCurrent'
               \/ workflow'.status = "EVALUATING" /\ evaluation'[d] = "RUNNING"
        PROVE  SlotsOf(d) \cap ready' # {}
    <3>1. CASE d = s[1]
      BY <2>1, <3>1
    <3>2. CASE d # s[1]
      BY <1>14, <2>1, <2>2, <2>3, <3>2 DEF GenerationInv, ReadyNotLost, PlanIsCurrent
    <3> QED
      BY <3>1, <3>2
  <2> QED
    BY <2>3 DEF ReadyNotLost
<1> QED
  BY <1>8, <1>9, <1>10, <1>11, <1>12, <1>13, <1>15, <1>16, <1>17, <1>18 DEF GenerationInv

-----------------------------------------------------------------------------
(* The command *)

LEMMA CommandTypes ==
  ASSUME TypeOK, NEW k \in Keys, key[k].command # None
  PROVE  /\ key[k].command \in Command
         /\ key[k].command.direction \in Directions /\ key[k].command.route \in Routes
  BY DEF TypeOK, Command

\* The client only learns what is there.
LEMMA CommandSteps ==
  ASSUME GenerationInv, NEW k \in Keys,
         \/ \E c \in Command : StartOnce(k, c) \/ StartExisting(k, c)
         \/ ConvergeLogicalWinner(k) \/ StartRefused(k)
  PROVE  GenerationInv'
<1>1. key \in [Keys -> [command : Command \cup {None}, done : BOOLEAN]]
  BY DEF GenerationInv, TypeOK
<1>2. key' \in [Keys -> [command : Command \cup {None}, done : BOOLEAN]]
  <2>1. ASSUME NEW c \in Command, StartOnce(k, c) \/ StartExisting(k, c)
        PROVE  key' \in [Keys -> [command : Command \cup {None}, done : BOOLEAN]]
    <3>1. key[k] \in [command : Command \cup {None}, done : BOOLEAN]
      BY <1>1
    <3>2. /\ [key[k] EXCEPT !.command = c] \in [command : Command \cup {None}, done : BOOLEAN]
          /\ [command |-> c, done |-> TRUE] \in [command : Command \cup {None}, done : BOOLEAN]
      BY <3>1
    <3> QED
      BY <1>1, <2>1, <3>2 DEF StartOnce, StartExisting
  <2>2. /\ [key[k] EXCEPT !.done = TRUE] \in [command : Command \cup {None}, done : BOOLEAN]
        /\ [key[k] EXCEPT !.command = None] \in [command : Command \cup {None}, done : BOOLEAN]
    BY <1>1
  <2>3. CASE ConvergeLogicalWinner(k) \/ StartRefused(k)
    BY <1>1, <2>2, <2>3 DEF ConvergeLogicalWinner, StartRefused, Complete
  <2> QED
    BY <2>1, <2>3
<1>3. UNCHANGED <<environment, batch, op, attempt, produced, objects, candidate, ready,
                  evaluation, worker, faults, changes>>
  BY DEF StartOnce, StartExisting, ConvergeLogicalWinner, StartRefused, Calm
<1>4. TypeOK'
  BY <1>2, <1>3 DEF GenerationInv, TypeOK, environment
<1>5. OneExecutor' /\ UnpaidUntilSubmitted' /\ StoredBeforeCommit'
  BY <1>3 DEF GenerationInv, OneExecutor, UnpaidUntilSubmitted, StoredBeforeCommit, Busy,
     SlotOf, Number, ObjectKey
<1>6. /\ WithinBudget' /\ CreatedWithBatch' /\ EvaluatedOnce'
      /\ PaidOnce' /\ CandidateIsWhole' /\ ReadyNotLost'
  BY <1>3 DEF GenerationInv, WithinBudget, CreatedWithBatch, EvaluatedOnce, PaidOnce,
     CandidateIsWhole, ReadyNotLost, BatchComplete, PlanIsCurrent, environment
<1> QED
  BY <1>4, <1>5, <1>6 DEF GenerationInv

\* The operations of a new batch are new: none existed in their place.
LEMMA CreateBatchStep ==
  ASSUME GenerationInv, NEW k \in Keys, CreateBatch(k)
  PROVE  GenerationInv'
<1> DEFINE d == key[k].command.direction
           r == key[k].command.route
<1>1. /\ d \in Directions /\ r \in Routes /\ batch[d] = None
      /\ batch' = [batch EXCEPT ![d] = NewBatch(r)]
      /\ op' = [s \in Slots |-> IF s \in SlotsOf(d) THEN NewOperation ELSE op[s]]
      /\ key' = [key EXCEPT ![k].done = TRUE]
      /\ UNCHANGED <<environment, attempt, produced, objects, candidate, ready, evaluation,
                     worker, faults, changes>>
  BY CommandTypes DEF CreateBatch, Complete, Calm, GenerationInv
<1> HIDE DEF d, r
<1>2. /\ NewBatch(r) \in [route : Routes, rights : Nat] /\ NewBatch(r) # None
  BY <1>1 DEF NewBatch, GenerationInv, TypeOK
<1>3. /\ \A s \in SlotsOf(d) : op[s].state = "NONE" /\ op'[s] = NewOperation
      /\ \A s \in Slots \ SlotsOf(d) : op'[s] = op[s]
  BY <1>1, SlotFacts DEF GenerationInv, CreatedWithBatch
<1>4. \A s \in Slots : op'[s].state = "SUCCEEDED" <=> op[s].state = "SUCCEEDED"
  BY <1>3 DEF NewOperation
<1>5. \A c \in Directions : BatchComplete(c)' <=> BatchComplete(c)
  BY <1>1, <1>4, SlotFacts DEF BatchComplete
<1>6. \A v \in Workers :
          /\ Busy(v)' <=> Busy(v)
          /\ SlotOf(v)' = SlotOf(v) /\ Number(v)' = Number(v)
          /\ Busy(v) => SlotOf(v) \in Slots \ SlotsOf(d)
  BY <1>1, <1>3 DEF GenerationInv, OneExecutor, Free, Busy, SlotOf, Number
<1>7. TypeOK'
  <2>1. op' \in [Slots -> Operation]
    BY <1>1, BoundTypes DEF GenerationInv, TypeOK
  <2>2. batch' \in [Directions -> [route : Routes, rights : Nat] \cup {None}]
    BY <1>1, <1>2 DEF GenerationInv, TypeOK
  <2>3. key' \in [Keys -> [command : Command \cup {None}, done : BOOLEAN]]
    <3>1. key \in [Keys -> [command : Command \cup {None}, done : BOOLEAN]]
      BY DEF GenerationInv, TypeOK
    <3>2. [key[k] EXCEPT !.done = TRUE] \in [command : Command \cup {None}, done : BOOLEAN]
      BY <3>1
    <3> QED
      BY <1>1, <3>1, <3>2
  <2> QED
    BY <1>1, <2>1, <2>2, <2>3 DEF GenerationInv, TypeOK, environment
<1>8. OneExecutor'
  BY <1>3, <1>6 DEF GenerationInv, OneExecutor
<1>9. UnpaidUntilSubmitted'
  <2>1. \A s \in Slots : Free(op'[s]) => Free(op[s])
    BY <1>3 DEF Free
  <2> QED
    BY <1>1, <1>6, <2>1 DEF GenerationInv, UnpaidUntilSubmitted
<1>10. WithinBudget'
  BY <1>3, BoundTypes DEF GenerationInv, WithinBudget, NewOperation
<1>11. StoredBeforeCommit'
  BY <1>1, <1>3, <1>6 DEF GenerationInv, StoredBeforeCommit, ObjectKey
<1>12. CreatedWithBatch'
  <2>1. ASSUME NEW c \in Directions, batch'[c] = None
        PROVE  c # d /\ batch[c] = None
    BY <1>1, <1>2, <2>1 DEF GenerationInv, TypeOK
  <2> QED
    BY <1>1, <1>3, <2>1, SlotFacts DEF GenerationInv, CreatedWithBatch
<1>13. EvaluatedOnce' /\ ReadyNotLost'
  BY <1>1, <1>5 DEF GenerationInv, EvaluatedOnce, ReadyNotLost, PlanIsCurrent, environment
<1>14. PaidOnce'
  BY <1>1 DEF GenerationInv, PaidOnce
<1>15. CandidateIsWhole'
  BY <1>1, <1>3, <1>4 DEF GenerationInv, CandidateIsWhole
<1> QED
  BY <1>7, <1>8, <1>9, <1>10, <1>11, <1>12, <1>13, <1>14, <1>15 DEF GenerationInv

-----------------------------------------------------------------------------
(* The continuation of the workflow, and everybody else *)

\* Steps that leave batches, operations, images and executors alone.
Elsewhere == UNCHANGED <<commandVars, op, attempt, produced, objects, candidate, worker>>

LEMMA ElsewhereKeeps ==
  ASSUME GenerationInv, Elsewhere
  PROVE  /\ OneExecutor' /\ UnpaidUntilSubmitted' /\ WithinBudget' /\ StoredBeforeCommit'
         /\ CreatedWithBatch' /\ PaidOnce' /\ CandidateIsWhole'
         /\ \A d \in Directions : BatchComplete(d)' <=> BatchComplete(d)
<1>1. OneExecutor' /\ UnpaidUntilSubmitted' /\ StoredBeforeCommit'
  BY DEF GenerationInv, OneExecutor, UnpaidUntilSubmitted, StoredBeforeCommit, Busy, SlotOf,
     Number, ObjectKey, Elsewhere
<1>2. WithinBudget' /\ CreatedWithBatch' /\ PaidOnce' /\ CandidateIsWhole'
  BY DEF GenerationInv, WithinBudget, CreatedWithBatch, PaidOnce, CandidateIsWhole, Elsewhere,
     commandVars
<1>3. \A d \in Directions : BatchComplete(d)' <=> BatchComplete(d)
  BY DEF BatchComplete, Elsewhere
<1> QED
  BY <1>1, <1>2, <1>3

LEMMA ContinuationSteps ==
  ASSUME GenerationInv, NEW s \in Slots, Continue(s) \/ Evaluate(s) \/ SettleReady(s)
  PROVE  GenerationInv'
<1>1. Elsewhere
  BY DEF Continue, Evaluate, SettleReady, Elsewhere
<1>2. s[1] \in Directions /\ s \in SlotsOf(s[1]) /\ s \in ready
      /\ \A d \in Directions : s \in SlotsOf(d) => d = s[1]
  BY SlotFacts DEF Continue, Evaluate, SettleReady
<1>3. TypeOK'
  <2>1. TypeOK /\ WorkflowStatus = {"GENERATING", "EVALUATING", "AWAITING_RESULT_APPROVAL", "EXPORTING", "CLOSED"}
    BY DEF GenerationInv, WorkflowStatus
  <2>2. CASE Continue(s)
    BY <1>2, <2>1, <2>2 DEF TypeOK, Continue, Calm, commandVars
  <2>3. CASE Evaluate(s)
    BY <1>2, <2>1, <2>3 DEF TypeOK, Evaluate, Calm, commandVars
  <2>4. CASE SettleReady(s)
    BY <2>1, <2>4 DEF TypeOK, SettleReady, Calm, Disturb, environment, commandVars
  <2> QED
    BY <2>2, <2>3, <2>4
<1>4. EvaluatedOnce'
  BY <1>1, <1>2, ElsewhereKeeps DEF GenerationInv, TypeOK, EvaluatedOnce, Continue, Evaluate,
     SettleReady, environment
<1>5. ReadyNotLost'
  <2>1. CASE Continue(s)
    <3>1. /\ workflow.node = "approve_plan" /\ ~PlanIsCurrent' /\ UNCHANGED ready
          /\ evaluation' = [evaluation EXCEPT ![s[1]] = "RUNNING"]
      BY <2>1 DEF Continue, PlanIsCurrent
    <3>2. \A d \in Directions : evaluation'[d] = "RUNNING" => d = s[1]
      BY <3>1 DEF GenerationInv, TypeOK, EvaluatedOnce
    <3> QED
      BY <1>2, <3>1, <3>2 DEF ReadyNotLost
  <2>2. CASE Evaluate(s)
    BY <2>2 DEF Evaluate, ReadyNotLost, PlanIsCurrent
  <2>3. CASE SettleReady(s)
    <3>1. /\ UNCHANGED <<workflow, evaluation>> /\ ready \ {s} \subseteq ready' /\ Settles(s)
      BY <2>3 DEF SettleReady, environment
    <3>2. ~( \/ BatchComplete(s[1]) /\ PlanIsCurrent
             \/ workflow.status = "EVALUATING" /\ evaluation[s[1]] = "RUNNING")
      BY <1>2, <3>1 DEF Settles, GenerationInv, EvaluatedOnce
    <3>3. \A d \in Directions : d # s[1] => SlotsOf(d) \cap ready \subseteq SlotsOf(d) \cap ready'
      BY <1>2, <3>1
    <3> QED
      BY <1>1, <3>1, <3>2, <3>3, ElsewhereKeeps DEF GenerationInv, ReadyNotLost, PlanIsCurrent
  <2> QED
    BY <2>1, <2>2, <2>3
<1> QED
  BY <1>1, <1>3, <1>4, <1>5, ElsewhereKeeps DEF GenerationInv

LEMMA EnvironmentSteps ==
  ASSUME GenerationInv, DecideResults \/ Close \/ ChangeRights \/ \E r \in Routes : Observe(r)
  PROVE  GenerationInv'
<1>1. Elsewhere /\ UNCHANGED <<ready, evaluation>> /\ Change
  BY DEF DecideResults, Close, ChangeRights, Observe, Elsewhere
<1>2. /\ observed' \in [Routes -> Nat] /\ rights' \in Nat
  <2>1. observed \in [Routes -> Nat] /\ rights \in Nat
    BY DEF GenerationInv, TypeOK
  <2>2. CASE UNCHANGED observed /\ UNCHANGED rights
    BY <2>1, <2>2
  <2>3. CASE ChangeRights
    BY <2>1, <2>3 DEF ChangeRights
  <2>4. ASSUME NEW r \in Routes, Observe(r)
        PROVE  observed' \in [Routes -> Nat] /\ UNCHANGED rights
    BY <2>1, <2>4 DEF Observe
  <2> QED
    BY <2>1, <2>2, <2>3, <2>4 DEF DecideResults, Close
<1>3. /\ workflow' \in [status : WorkflowStatus, node : {"approve_plan", "evaluate_results", "approve_results"}]
      /\ \/ UNCHANGED workflow
         \/ /\ workflow'.node = workflow.node
            /\ \/ workflow'.status = "CLOSED"
               \/ workflow'.status \in {"EXPORTING", "GENERATING"} /\ workflow.node # "approve_plan"
  BY DEF GenerationInv, TypeOK, EvaluatedOnce, WorkflowStatus, DecideResults, Close, ChangeRights,
     Observe
<1>4. TypeOK'
  BY <1>1, <1>2, <1>3 DEF GenerationInv, TypeOK, Elsewhere, Change, commandVars
<1>5. EvaluatedOnce' /\ ReadyNotLost'
  BY <1>1, <1>3, ElsewhereKeeps DEF GenerationInv, TypeOK, EvaluatedOnce, ReadyNotLost,
     PlanIsCurrent
<1> QED
  BY <1>1, <1>4, <1>5, ElsewhereKeeps DEF GenerationInv

-----------------------------------------------------------------------------
(* The theorems *)

LEMMA GenerationInit ==
  ASSUME Init
  PROVE  GenerationInv
<1>1. \A s \in Slots : /\ op[s] = [NewOperation EXCEPT !.state = "NONE", !.budget = 0]
                       /\ op[s] \in Operation /\ op[s].state = "NONE"
                       /\ op[s].budget = 0 /\ op[s].attempts = 0
                       /\ op[s].replays = 0
  BY BoundTypes DEF Init, NewOperation, Operation
<1>2. \A w \in Workers : worker[w] = Idle /\ ~Busy(w)
  BY DEF Init, Idle, Busy
<1>3. observed \in [Routes -> Nat]
  BY DEF Init
<1>4. TypeOK
  BY <1>1, <1>2, <1>3, BoundTypes DEF Init, TypeOK, WorkflowStatus
<1>5. OneExecutor /\ UnpaidUntilSubmitted /\ StoredBeforeCommit
  BY <1>1, <1>2 DEF Init, OneExecutor, UnpaidUntilSubmitted, StoredBeforeCommit, Idle
<1>6. WithinBudget /\ CreatedWithBatch /\ EvaluatedOnce /\ PaidOnce
  BY <1>1, BoundTypes, SlotFacts DEF Init, WithinBudget, CreatedWithBatch, EvaluatedOnce, PaidOnce
<1>7. CandidateIsWhole
  BY <1>1 DEF Init, CandidateIsWhole
<1>8. \A d \in Directions : ~BatchComplete(d)
  <2>1. \A d \in Directions : <<d, 1>> \in SlotsOf(d)
    BY DEF SlotsOf
  <2> QED
    BY <1>1, <2>1, SlotFacts DEF BatchComplete
<1>9. ReadyNotLost
  BY <1>8 DEF Init, ReadyNotLost
<1> QED
  BY <1>4, <1>5, <1>6, <1>7, <1>9 DEF GenerationInv

LEMMA GenerationStep ==
  ASSUME GenerationInv, [Next]_vars
  PROVE  GenerationInv'
<1>1. ASSUME NEW k \in Keys,
             \/ \E c \in Command : StartOnce(k, c) \/ StartExisting(k, c)
             \/ CreateBatch(k) \/ ConvergeLogicalWinner(k) \/ StartRefused(k)
      PROVE  GenerationInv'
  BY <1>1, CommandSteps, CreateBatchStep
<1>2. ASSUME NEW w \in Workers,
             \/ \E s \in Slots : Take(w, s)
             \/ Prepare(w) \/ AdapterUnavailable(w) \/ Claim(w) \/ ClaimUnknown(w)
             \/ SubmitLost(w) \/ RecordOutcome(w) \/ RecordUnknown(w)
             \/ \E e \in Wire : Submit(w, e)
             \/ Publish(w) \/ PublishUnknown(w) \/ Commit(w) \/ CommitUnknown(w) \/ CommitRefused(w)
             \/ Finish(w) \/ Crash(w)
      PROVE  GenerationInv'
  BY <1>2, TakeStep, ExecutorSteps, MoveKeepsInvariant, CommitSteps, FinishStep
<1>3. ASSUME NEW s \in Slots,
             \/ Recover(s) \/ ReconciliationDisabled(s) \/ Replay(s)
             \/ Continue(s) \/ Evaluate(s) \/ SettleReady(s)
      PROVE  GenerationInv'
  BY <1>3, ScannerSteps, ContinuationSteps
<1>4. CASE DecideResults \/ Close \/ ChangeRights \/ \E r \in Routes : Observe(r)
  BY <1>4, EnvironmentSteps
<1>5. CASE UNCHANGED vars
  <2>1. Elsewhere /\ UNCHANGED <<environment, ready, evaluation, faults, changes>>
    BY <1>5 DEF vars, Elsewhere, environment, commandVars
  <2> QED
    BY <2>1, ElsewhereKeeps DEF GenerationInv, TypeOK, EvaluatedOnce, ReadyNotLost, Elsewhere,
       environment, commandVars, PlanIsCurrent
<1> QED
  BY <1>1, <1>2, <1>3, <1>4, <1>5 DEF Next

\* The inductive invariant of image generation.
THEOREM GenerationInvariant == Spec => []GenerationInv
<1>1. Init => GenerationInv
  BY GenerationInit
<1>2. GenerationInv /\ [Next]_vars => GenerationInv'
  BY GenerationStep
<1> QED
  BY <1>1, <1>2, PTL DEF Spec

\* The provider makes at most one image for a slot: the fence, the outcomes the
\* adapters report and the operation's states together never let a submission
\* that may have been accepted be made again (generation_executor.py,
\* ADR-009-candidate-slot-durable-operation.md).
THEOREM PaidAtMostOnce == Spec => []PaidOnce
<1>1. GenerationInv => PaidOnce
  BY DEF GenerationInv
<1> QED
  BY <1>1, GenerationInvariant, PTL

\* A published candidate is whole: operation, image, stored object and recorded
\* call agree (commit_success writes them in one transaction).
THEOREM CandidatesAreWhole == Spec => []CandidateIsWhole
<1>1. GenerationInv => CandidateIsWhole
  BY DEF GenerationInv
<1> QED
  BY <1>1, GenerationInvariant, PTL

\* A complete batch the workflow waits for has an outstanding event
\* (claim_ready_batch acknowledges all the others).
THEOREM ReadyKept == Spec => []ReadyNotLost
<1>1. GenerationInv => ReadyNotLost
  BY DEF GenerationInv
<1> QED
  BY <1>1, GenerationInvariant, PTL

=============================================================================
