-------------------------- MODULE MessagingProofs --------------------------
(***************************************************************************)
(* Proofs about Messaging, for every number of events, dispatchers,        *)
(* workers and tokens and every value of the budgets and leases.           *)
(***************************************************************************)
EXTENDS Messaging, TLAPS

USE MessagingAssumption

-----------------------------------------------------------------------------
(* Types *)

\* The rows that the transactions write are rows.
LEMMA UnlockedType ==
  ASSUME NEW published \in BOOLEAN, NEW delay \in 0..MaxDelay
  PROVE  UnlockedRow(published, delay) \in OutboxRow
  BY DEF OutboxRow, UnlockedRow

LEMMA LockedType ==
  ASSUME NEW t \in Tokens
  PROVE  LockedRow(t) \in OutboxRow
  BY DEF OutboxRow, LockedRow

LEMMA ClosedType ==
  ASSUME NEW row \in InboxRow, NEW status \in InboxStatus
  PROVE  Closed(row, status) \in InboxRow
  BY DEF InboxRow, Closed

LEMMA ClaimTypes ==
  ASSUME NEW c \in Claim, NEW stage \in {"claimed", "confirmed", "refused"}
  PROVE  /\ c.event \in Events /\ c.token \in Tokens
         /\ [c EXCEPT !.stage = stage] \in Claim
         /\ [c EXCEPT !.advanced = TRUE] \in Claim
<1>1. c.event \in Events /\ c.token \in Tokens
  BY DEF Claim
<1>2. [c EXCEPT !.stage = stage] \in Claim
  BY DEF Claim
<1>3. [c EXCEPT !.advanced = TRUE] \in Claim
  BY DEF Claim
<1> QED
  BY <1>1, <1>2, <1>3

LEMMA AdvanceType ==
  ASSUME NEW S \in SUBSET Claim, NEW e \in Events
  PROVE  AdvanceClaims(S, e) \in SUBSET Claim
  BY ClaimTypes DEF AdvanceClaims

\* Advancing touches nothing but the flag.
LEMMA AdvanceKeeps ==
  ASSUME NEW S \in SUBSET Claim, NEW e \in Events, NEW b \in AdvanceClaims(S, e)
  PROVE  \E a \in S : b.event = a.event /\ b.token = a.token /\ b.stage = a.stage
  BY DEF AdvanceClaims, Claim

LEMMA AtType ==
  ASSUME NEW pc \in {"idle", "claim", "looked", "handle"},
         NEW e \in Events \cup {NoEvent}, NEW t \in Tokens \cup {NoToken}
  PROVE  At(pc, e, t) \in WorkerState
  BY DEF At, WorkerState

LEMMA IdleType == Idle \in WorkerState
  BY DEF Idle, At, WorkerState

\* Being overtaken changes nothing but the flag.
LEMMA OvertakeKeeps ==
  ASSUME TypeOK, NEW e \in Events
  PROVE  /\ OvertakeLooks(e) \in [Workers -> WorkerState]
         /\ \A w \in Workers : /\ OvertakeLooks(e)[w].pc = worker[w].pc
                              /\ OvertakeLooks(e)[w].event = worker[w].event
                              /\ OvertakeLooks(e)[w].token = worker[w].token
<1>1. ASSUME NEW s \in WorkerState
      PROVE  /\ [s EXCEPT !.overtaken = TRUE] \in WorkerState
             /\ [s EXCEPT !.overtaken = TRUE].pc = s.pc
             /\ [s EXCEPT !.overtaken = TRUE].event = s.event
             /\ [s EXCEPT !.overtaken = TRUE].token = s.token
  BY DEF WorkerState
<1> QED
  BY <1>1 DEF OvertakeLooks, TypeOK

\* A busy worker's event is an event.
LEMMA BusyEvent ==
  ASSUME TypeOK, WorkerShape, NEW w \in Workers, worker[w].pc # "idle"
  PROVE  worker[w].event \in Events
  BY DEF TypeOK, WorkerShape, WorkerState

\* Growing older changes nothing but the age.
LEMMA AgeKeeps ==
  ASSUME NEW s \in WorkerState, s.age < InboxLease
  PROVE  /\ [s EXCEPT !.age = @ + 1] \in WorkerState
         /\ [s EXCEPT !.age = @ + 1].pc = s.pc
         /\ [s EXCEPT !.age = @ + 1].event = s.event
         /\ [s EXCEPT !.age = @ + 1].token = s.token
<1>1. s.age + 1 \in 0..InboxLease
  BY MessagingAssumption DEF WorkerState
<1> QED
  BY <1>1 DEF WorkerState

\* Rejecting a delivery keeps the types.
LEMMA RejectType ==
  ASSUME TypeOK, NEW w \in Workers, worker[w].event \in Events, RejectDelivery(w)
  PROVE  worker' \in [Workers -> WorkerState] /\ discarded' \subseteq Events
  BY IdleType DEF RejectDelivery, TypeOK

\* Every step of the dispatchers, the workers and the clock keeps the types.
LEMMA TypeStep ==
  ASSUME TypeOK, WorkerShape, [Next]_vars
  PROVE  TypeOK'
<1> USE DEF TypeOK
<1>1. ASSUME NEW e \in Events, NEW delay \in 0..MaxDelay, Add(e, delay)
      PROVE  TypeOK'
  BY <1>1, UnlockedType DEF Add
<1>2. ASSUME NEW d \in Dispatchers, NEW batch \in SUBSET Events,
             NEW token \in [batch -> Tokens], ClaimReady(d, batch, token)
      PROVE  TypeOK'
  <2>1. outbox' \in [Events -> OutboxRow]
    BY <1>2, LockedType DEF ClaimReady
  <2>2. ASSUME NEW e \in batch
        PROVE  [event |-> e, token |-> token[e], stage |-> "claimed", advanced |-> FALSE]
                  \in Claim
    BY DEF Claim
  <2>3. dispatcher' \in [Dispatchers -> SUBSET Claim]
    BY <1>2, <2>2 DEF ClaimReady
  <2> QED
    BY <1>2, <2>1, <2>3 DEF ClaimReady
<1>3. ASSUME NEW d \in Dispatchers, NEW c \in dispatcher[d],
             \/ PublishConfirmed(d, c)
             \/ \E accepted \in BOOLEAN : PublishRefused(d, c, accepted)
      PROVE  TypeOK'
  <2>1. c.event \in Events
    BY ClaimTypes
  <2>2. dispatcher' \in [Dispatchers -> SUBSET Claim]
    <3>1. ASSUME NEW stage \in {"confirmed", "refused"}, Restage(d, c, stage)
          PROVE  dispatcher' \in [Dispatchers -> SUBSET Claim]
      <4>1. [c EXCEPT !.stage = stage] \in Claim
        BY ClaimTypes
      <4> QED
        BY <3>1, <4>1 DEF Restage
    <3> QED
      BY <1>3, <3>1 DEF PublishConfirmed, PublishRefused
  <2>3. queue' \in [Events -> Nat]
    BY <1>3, <2>1 DEF PublishConfirmed, PublishRefused
  <2> QED
    BY <1>3, <2>2, <2>3 DEF PublishConfirmed, PublishRefused
<1>4. ASSUME NEW d \in Dispatchers, NEW c \in dispatcher[d], MarkPublished(d, c)
      PROVE  TypeOK'
  <2>1. c.event \in Events
    BY ClaimTypes
  <2>2. outbox[c.event].availableIn \in 0..MaxDelay
    BY <2>1 DEF OutboxRow
  <2>3. outbox' \in [Events -> OutboxRow]
    BY <1>4, <2>1, <2>2, UnlockedType DEF MarkPublished
  <2> QED
    BY <1>4, <2>3 DEF MarkPublished
<1>5. ASSUME NEW d \in Dispatchers, NEW c \in dispatcher[d],
             \/ MarkPublishedConflict(d, c)
             \/ MarkPublishFailedConflict(d, c)
             \/ DispatcherCrash(d)
      PROVE  TypeOK'
  BY <1>5 DEF MarkPublishedConflict, MarkPublishFailedConflict, DispatcherCrash
<1>6. ASSUME NEW d \in Dispatchers, NEW c \in dispatcher[d], NEW delay \in 1..MaxDelay,
             MarkPublishFailed(d, c, delay)
      PROVE  TypeOK'
  <2>1. c.event \in Events /\ c.token \in Tokens
    BY ClaimTypes
  <2>2. outbox' \in [Events -> OutboxRow]
    BY <1>6, <2>1, UnlockedType, delay \in 0..MaxDelay DEF MarkPublishFailed
  <2>3. dispatcher' \in [Dispatchers -> SUBSET Claim]
    BY <1>6, <2>1, AdvanceType DEF MarkPublishFailed
  <2>4. worker' \in [Workers -> WorkerState]
    BY <1>6, <2>1, OvertakeKeeps DEF MarkPublishFailed
  <2> QED
    BY <1>6, <2>2, <2>3, <2>4 DEF MarkPublishFailed
<1>7. ASSUME NEW w \in Workers, NEW e \in Events, Receive(w, e)
      PROVE  TypeOK'
  <2>1. At("claim", e, NoToken) \in WorkerState
    BY AtType
  <2> QED
    BY <1>7, <2>1 DEF Receive
<1>8. ASSUME NEW w \in Workers, LookEarly(w) \/ Look(w) \/ ClaimNothing(w)
      PROVE  TypeOK'
  <2>1. worker[w].event \in Events
    BY <1>8, BusyEvent DEF LookEarly, Look, ClaimNothing
  <2>2. At("looked", worker[w].event, NoToken) \in WorkerState
    BY <2>1, AtType
  <2> QED
    BY <1>8, <2>1, <2>2, IdleType
       DEF LookEarly, Look, ClaimNothing, Acknowledge, AddDeadLetter
<1>9. ASSUME NEW w \in Workers,
             ClaimConflict(w) \/ SettleConflict(w) \/ TransactionFails(w)
      PROVE  TypeOK'
  BY <1>9, BusyEvent, RejectType DEF ClaimConflict, SettleConflict, TransactionFails
<1>10. ASSUME NEW w \in Workers,
              ClaimExhausted(w) \/ MarkProcessed(w) \/ MarkPermanentFailed(w)
       PROVE  TypeOK'
  <2>1. worker[w].event \in Events
    BY <1>10, BusyEvent DEF ClaimExhausted, MarkProcessed, MarkPermanentFailed
  <2>2. inbox' \in [Events -> InboxRow]
    BY <1>10, <2>1, ClosedType
       DEF ClaimExhausted, MarkProcessed, MarkPermanentFailed, Finish, InboxStatus
  <2> QED
    BY <1>10, <2>1, <2>2, IdleType
       DEF ClaimExhausted, MarkProcessed, MarkPermanentFailed, Acknowledge,
       AddDeadLetter
<1>11. ASSUME NEW w \in Workers, NEW t \in Tokens, ClaimMessage(w, t)
       PROVE  TypeOK'
  <2>1. worker[w].event \in Events
    BY <1>11, BusyEvent DEF ClaimMessage
  <2>2. inbox[worker[w].event].deliveryAttempts + 1 \in 0..MaxDeliveryAttempts
    BY <1>11, <2>1 DEF ClaimMessage, InboxRow, BudgetLeft
  <2>3. InboxLease - worker[w].age \in 0..InboxLease
    <3>1. worker[w].age \in 0..InboxLease
      BY DEF WorkerState
    <3> QED
      BY <3>1, MessagingAssumption
  <2>5. [status |-> "PROCESSING", leaseToken |-> t, leaseFor |-> InboxLease - worker[w].age,
         deliveryAttempts |-> inbox[worker[w].event].deliveryAttempts + 1] \in InboxRow
    BY <2>2, <2>3 DEF InboxRow, InboxStatus
  <2>4. At("handle", worker[w].event, t) \in WorkerState
    BY <2>1, AtType
  <2> QED
    BY <1>11, <2>4, <2>5 DEF ClaimMessage
<1>12. ASSUME NEW w \in Workers, NEW outcome \in {"succeeded", "unroutable", "raised"},
              Handle(w, outcome)
       PROVE  TypeOK'
  <2>1. ASSUME NEW s \in WorkerState
        PROVE  [s EXCEPT !.pc = outcome] \in WorkerState
    BY DEF WorkerState
  <2> QED
    BY <1>12, <2>1 DEF Handle
<1>13. ASSUME NEW w \in Workers, NEW delay \in 1..MaxDelay, ScheduleRetry(w, delay)
       PROVE  TypeOK'
  <2>1. worker[w].event \in Events
    BY <1>13, BusyEvent DEF ScheduleRetry
  <2>2. inbox' \in [Events -> InboxRow]
    BY <1>13, <2>1, ClosedType DEF ScheduleRetry, Finish, InboxStatus
  <2>4. outbox' \in [Events -> OutboxRow]
    BY <1>13, <2>1, UnlockedType, delay \in 0..MaxDelay DEF ScheduleRetry
  <2>5. dispatcher' \in [Dispatchers -> SUBSET Claim]
    BY <1>13, <2>1, AdvanceType DEF ScheduleRetry
  <2>6. worker' \in [Workers -> WorkerState]
    BY <1>13, <2>1, OvertakeKeeps, IdleType DEF ScheduleRetry
  <2> QED
    BY <1>13, <2>2, <2>4, <2>5, <2>6 DEF ScheduleRetry
<1>14. CASE Tick
  <2>1. outbox' \in [Events -> OutboxRow]
    BY <1>14 DEF Tick, OutboxRow, Elapse
  <2>2. inbox' \in [Events -> InboxRow]
    BY <1>14 DEF Tick, InboxRow, Elapse
  <2>3. worker' \in [Workers -> WorkerState]
    BY <1>14, AgeKeeps DEF Tick
  <2> QED
    BY <1>14, <2>1, <2>2, <2>3 DEF Tick
<1>15. ASSUME NEW w \in Workers, WorkerCrash(w)
       PROVE  TypeOK'
  BY <1>15, BusyEvent, IdleType DEF WorkerCrash
<1>16. ASSUME NEW d \in Dispatchers, DispatcherCrash(d)
       PROVE  TypeOK'
  BY <1>16 DEF DispatcherCrash
<1>17. CASE UNCHANGED vars
  BY <1>17 DEF vars
<1> QED
  BY <1>1, <1>2, <1>3, <1>4, <1>5, <1>6, <1>7, <1>8, <1>9, <1>10, <1>11, <1>12, <1>13,
     <1>14, <1>15, <1>16, <1>17 DEF Next, FaultFree, Fault, DispatcherStep, WorkerStep

-----------------------------------------------------------------------------
(* Which steps touch what *)

\* The delivery in a worker's hands, and how far it has come with it.
SameHands(w) ==
    /\ worker'[w].pc = worker[w].pc
    /\ worker'[w].event = worker[w].event
    /\ worker'[w].token = worker[w].token

\* A worker takes a delivery, looks, claims, runs the handler, or becomes idle;
\* the others keep what they hold.
LEMMA WorkerMoves ==
  ASSUME TypeOK, WorkerShape, [Next]_vars
  PROVE  \/ \A v \in Workers : SameHands(v)
         \/ \E w \in Workers :
               worker'[w] = Idle /\ \A v \in Workers \ {w} : SameHands(v)
         \/ \E w \in Workers, e \in Events : Receive(w, e)
         \/ \E w \in Workers : Look(w)
         \/ \E w \in Workers, t \in Tokens : ClaimMessage(w, t)
         \/ \E w \in Workers, outcome \in {"succeeded", "unroutable", "raised"} :
               Handle(w, outcome)
<1> DEFINE Frees(w) == worker'[w] = Idle /\ \A v \in Workers \ {w} : SameHands(v)
<1>1. ASSUME NEW d \in Dispatchers, DispatcherStep(d)
      PROVE  \A v \in Workers : SameHands(v)
  <2>1. CASE worker' = worker
    BY <2>1 DEF SameHands
  <2>2. ASSUME NEW c \in dispatcher[d], NEW delay \in 1..MaxDelay,
               MarkPublishFailed(d, c, delay)
        PROVE  \A v \in Workers : SameHands(v)
    <3>1. c.event \in Events
      BY ClaimTypes DEF TypeOK
    <3> QED
      BY <2>2, <3>1, OvertakeKeeps DEF MarkPublishFailed, SameHands
  <2> QED
    BY <1>1, <2>1, <2>2 DEF DispatcherStep, ClaimReady, PublishConfirmed, MarkPublished,
       MarkPublishedConflict, MarkPublishFailedConflict
<1>2. ASSUME NEW w \in Workers, worker' = [worker EXCEPT ![w] = Idle]
      PROVE  Frees(w)
  BY <1>2 DEF TypeOK, SameHands
<1>3. ASSUME NEW w \in Workers, NEW delay \in 1..MaxDelay, ScheduleRetry(w, delay)
      PROVE  Frees(w)
  <2>1. worker[w].event \in Events
    BY <1>3, BusyEvent DEF ScheduleRetry
  <2> QED
    BY <1>3, <2>1, OvertakeKeeps DEF ScheduleRetry, SameHands
<1>4. ASSUME NEW w \in Workers, WorkerStep(w)
      PROVE  \/ Frees(w)
             \/ Look(w)
             \/ \E t \in Tokens : ClaimMessage(w, t)
             \/ \E outcome \in {"succeeded", "unroutable", "raised"} : Handle(w, outcome)
  BY <1>2, <1>3, <1>4 DEF WorkerStep, LookEarly, ClaimNothing, ClaimConflict, ClaimExhausted,
     MarkProcessed, MarkPermanentFailed, SettleConflict, RejectDelivery, Acknowledge
<1>5. ASSUME Fault
      PROVE  (\A v \in Workers : SameHands(v)) \/ \E w \in Workers : Frees(w)
  BY <1>2, <1>5 DEF Fault, PublishRefused, DispatcherCrash, TransactionFails, WorkerCrash,
     RejectDelivery, SameHands
<1>6. CASE Tick
  BY <1>6, AgeKeeps DEF Tick, TypeOK, SameHands
<1>7. ASSUME worker' = worker
      PROVE  \A v \in Workers : SameHands(v)
  BY <1>7 DEF SameHands
<1> QED
  BY <1>1, <1>4, <1>5, <1>6, <1>7 DEF Next, FaultFree, Add, vars

\* The Inbox and the dead letters change only when a worker claims or settles,
\* and when time passes.
LEMMA InboxMoves ==
  ASSUME [Next]_vars
  PROVE  \/ inbox' = inbox /\ deadLetters' = deadLetters
         \/ \E w \in Workers : ClaimNothing(w)
         \/ \E w \in Workers : ClaimExhausted(w)
         \/ \E w \in Workers, t \in Tokens : ClaimMessage(w, t)
         \/ \E w \in Workers : MarkProcessed(w) \/ MarkPermanentFailed(w)
         \/ \E w \in Workers, delay \in 1..MaxDelay : ScheduleRetry(w, delay)
         \/ Tick
<1>1. ASSUME NEW d \in Dispatchers, DispatcherStep(d)
      PROVE  inbox' = inbox /\ deadLetters' = deadLetters
  BY <1>1 DEF DispatcherStep, ClaimReady, PublishConfirmed, MarkPublished,
     MarkPublishedConflict, MarkPublishFailed, MarkPublishFailedConflict
<1>2. ASSUME NEW w \in Workers,
             \/ \E e \in Events : Receive(w, e)
             \/ LookEarly(w) \/ Look(w) \/ ClaimConflict(w)
             \/ \E outcome \in {"succeeded", "unroutable", "raised"} : Handle(w, outcome)
             \/ SettleConflict(w)
      PROVE  inbox' = inbox /\ deadLetters' = deadLetters
  BY <1>2 DEF Receive, LookEarly, Look, ClaimConflict, Handle, SettleConflict
<1>3. ASSUME Fault
      PROVE  inbox' = inbox /\ deadLetters' = deadLetters
  BY <1>3 DEF Fault, PublishRefused, DispatcherCrash, TransactionFails, WorkerCrash
<1> QED
  BY <1>1, <1>2, <1>3 DEF Next, FaultFree, WorkerStep, Add, vars

-----------------------------------------------------------------------------
(* The invariant *)

LEMMA ShapeStep ==
  ASSUME TypeOK, WorkerShape, [Next]_vars
  PROVE  WorkerShape'
<1> USE DEF WorkerShape, SameHands
<1>1. CASE \A v \in Workers : SameHands(v)
  BY <1>1
<1>2. ASSUME NEW w \in Workers, worker'[w] = Idle, \A v \in Workers \ {w} : SameHands(v)
      PROVE  WorkerShape'
  BY <1>2 DEF Idle, At
<1>3. ASSUME NEW w \in Workers, NEW e \in Events, Receive(w, e)
      PROVE  WorkerShape'
  BY <1>3 DEF Receive, At, TypeOK
<1>4. ASSUME NEW w \in Workers, Look(w) \/ \E t \in Tokens : ClaimMessage(w, t)
      PROVE  WorkerShape'
  <2>1. worker[w].event \in Events
    BY <1>4, BusyEvent DEF Look, ClaimMessage
  <2>2. CASE Look(w)
    BY <2>1, <2>2 DEF Look, At, TypeOK
  <2>3. ASSUME NEW t \in Tokens, ClaimMessage(w, t)
        PROVE  WorkerShape'
    BY <2>1, <2>3 DEF ClaimMessage, At, TypeOK
  <2> QED
    BY <1>4, <2>2, <2>3
<1>5. ASSUME NEW w \in Workers, NEW outcome \in {"succeeded", "unroutable", "raised"},
             Handle(w, outcome)
      PROVE  WorkerShape'
  BY <1>5 DEF Handle, TypeOK, WorkerState
<1> QED
  BY <1>1, <1>2, <1>3, <1>4, <1>5, WorkerMoves

\* The token of a claim is fresh, and no other step hands out tokens.
LEMMA LeaseStep ==
  ASSUME TypeOK, WorkerShape, DistinctLeases, [Next]_vars
  PROVE  DistinctLeases'
<1> USE DEF DistinctLeases, SameHands
<1>1. CASE \A v \in Workers : SameHands(v)
  BY <1>1
<1>2. ASSUME NEW w \in Workers, worker'[w] = Idle, \A v \in Workers \ {w} : SameHands(v)
      PROVE  DistinctLeases'
  BY <1>2 DEF Idle, At
<1>3. ASSUME NEW w \in Workers, (\E e \in Events : Receive(w, e)) \/ Look(w)
      PROVE  DistinctLeases'
  BY <1>3 DEF Receive, Look, At, TypeOK
<1>4. ASSUME NEW w \in Workers, NEW t \in Tokens, ClaimMessage(w, t)
      PROVE  DistinctLeases'
  <2>1. \A v \in Workers : worker[v].event = worker[w].event => worker[v].token # t
    BY <1>4 DEF ClaimMessage, FreshLease, LeaseTokensOf
  <2> QED
    BY <1>4, <2>1 DEF ClaimMessage, At, TypeOK
<1>5. ASSUME NEW w \in Workers, NEW outcome \in {"succeeded", "unroutable", "raised"},
             Handle(w, outcome)
      PROVE  DistinctLeases'
  BY <1>5 DEF Handle, TypeOK, WorkerState
<1> QED
  BY <1>1, <1>2, <1>3, <1>4, <1>5, WorkerMoves

LEMMA DeadLetterStep ==
  ASSUME TypeOK, WorkerShape, DeadLetterMatchesInbox, [Next]_vars
  PROVE  DeadLetterMatchesInbox'
<1> USE DEF DeadLetterMatchesInbox, TypeOK
<1>1. CASE inbox' = inbox /\ deadLetters' = deadLetters
  BY <1>1
<1>2. ASSUME NEW w \in Workers, ClaimNothing(w)
      PROVE  DeadLetterMatchesInbox'
  BY <1>2 DEF ClaimNothing, AddDeadLetter
<1>3. ASSUME NEW w \in Workers, ClaimExhausted(w)
      PROVE  DeadLetterMatchesInbox'
  BY <1>3, BusyEvent DEF ClaimExhausted, Closed, AddDeadLetter
<1>4. ASSUME NEW w \in Workers, NEW t \in Tokens, ClaimMessage(w, t)
      PROVE  DeadLetterMatchesInbox'
  BY <1>4, BusyEvent DEF ClaimMessage, Claimable, Settled
<1>5. ASSUME NEW w \in Workers, MarkProcessed(w) \/ MarkPermanentFailed(w)
      PROVE  DeadLetterMatchesInbox'
  BY <1>5, BusyEvent DEF MarkProcessed, MarkPermanentFailed, Finish, Closed, HoldsLease,
     AddDeadLetter
<1>6. ASSUME NEW w \in Workers, NEW delay \in 1..MaxDelay, ScheduleRetry(w, delay)
      PROVE  DeadLetterMatchesInbox'
  BY <1>6, BusyEvent DEF ScheduleRetry, Finish, Closed, HoldsLease
<1>7. CASE Tick
  BY <1>7 DEF Tick
<1> QED
  BY <1>1, <1>2, <1>3, <1>4, <1>5, <1>6, <1>7, InboxMoves

\* A row is published or locked only while it is due, and an event that is not
\* stored appears nowhere.
LEMMA DueStep ==
  ASSUME TypeOK, WorkerShape, DueRows, [Next]_vars
  PROVE  DueRows'
<1> USE DEF DueRows, TypeOK
<1>1. ASSUME NEW e \in Events, NEW delay \in 0..MaxDelay, Add(e, delay)
      PROVE  DueRows'
  BY <1>1 DEF Add, UnlockedRow
<1>2. ASSUME NEW d \in Dispatchers, NEW batch \in SUBSET Events,
             NEW token \in [batch -> Tokens], ClaimReady(d, batch, token)
      PROVE  DueRows'
  BY <1>2 DEF ClaimReady, LockedRow, Ready
<1>3. ASSUME NEW d \in Dispatchers, NEW c \in dispatcher[d],
             \/ PublishConfirmed(d, c)
             \/ \E accepted \in BOOLEAN : PublishRefused(d, c, accepted)
      PROVE  DueRows'
  <2>1. c.event \in Events /\ outbox[c.event].stored
    BY ClaimTypes
  <2>2. \A x \in Dispatchers : \A b \in dispatcher'[x] :
           \E a \in dispatcher[x] : b.event = a.event
    <3>1. ASSUME NEW stage \in {"confirmed", "refused"}, Restage(d, c, stage)
          PROVE  \A x \in Dispatchers : \A b \in dispatcher'[x] :
                    \E a \in dispatcher[x] : b.event = a.event
      <4>1. [c EXCEPT !.stage = stage].event = c.event
        BY ClaimTypes DEF Claim
      <4> QED
        BY <3>1, <4>1 DEF Restage
    <3> QED
      BY <1>3, <3>1 DEF PublishConfirmed, PublishRefused
  <2> QED
    BY <1>3, <2>1, <2>2 DEF PublishConfirmed, PublishRefused
<1>4. ASSUME NEW d \in Dispatchers, NEW c \in dispatcher[d], MarkPublished(d, c)
      PROVE  DueRows'
  <2>1. c.event \in Events /\ c.token \in Tokens
    BY ClaimTypes
  <2> QED
    BY <1>4, <2>1 DEF MarkPublished, UnlockedRow, HoldsLock
<1>5. ASSUME NEW d \in Dispatchers,
             \/ DispatcherCrash(d)
             \/ \E c \in dispatcher[d] :
                   MarkPublishedConflict(d, c) \/ MarkPublishFailedConflict(d, c)
      PROVE  DueRows'
  BY <1>5 DEF MarkPublishedConflict, MarkPublishFailedConflict, DispatcherCrash
<1>6. ASSUME NEW d \in Dispatchers, NEW c \in dispatcher[d], NEW delay \in 1..MaxDelay,
             MarkPublishFailed(d, c, delay)
      PROVE  DueRows'
  <2>1. c.event \in Events /\ outbox[c.event].stored
    BY ClaimTypes
  <2>2. \A x \in Dispatchers : \A b \in dispatcher'[x] :
           \E a \in dispatcher[x] : b.event = a.event
    <3>1. \A x \in Dispatchers :
             \E S \in SUBSET Claim : S \subseteq dispatcher[x]
                                     /\ dispatcher'[x] = AdvanceClaims(S, c.event)
      BY <1>6 DEF MarkPublishFailed
    <3> QED
      BY <2>1, <3>1, AdvanceKeeps
  <2>3. outbox' = [outbox EXCEPT ![c.event] = UnlockedRow(FALSE, delay)]
        /\ inbox' = inbox /\ queue' = queue
        /\ \A v \in Workers : worker'[v].event = worker[v].event
    BY <1>6, <2>1, OvertakeKeeps DEF MarkPublishFailed
  <2> QED
    BY <2>1, <2>2, <2>3 DEF UnlockedRow
<1>7. ASSUME NEW w \in Workers, NEW e \in Events, Receive(w, e)
      PROVE  DueRows'
  BY <1>7 DEF Receive, At
<1>8. ASSUME NEW w \in Workers,
             ClaimConflict(w) \/ SettleConflict(w) \/ TransactionFails(w) \/ WorkerCrash(w)
      PROVE  DueRows'
  <2>1. worker[w].event \in Events /\ outbox[worker[w].event].stored
    BY <1>8, BusyEvent DEF ClaimConflict, SettleConflict, TransactionFails, WorkerCrash
  <2> QED
    BY <1>8, <2>1
       DEF ClaimConflict, SettleConflict, TransactionFails, WorkerCrash, RejectDelivery, Idle, At
<1>9. ASSUME NEW w \in Workers,
             \/ LookEarly(w) \/ ClaimNothing(w) \/ ClaimExhausted(w)
             \/ MarkProcessed(w) \/ MarkPermanentFailed(w)
      PROVE  DueRows'
  <2>1. worker[w].event \in Events /\ outbox[worker[w].event].stored
    BY <1>9, BusyEvent
       DEF LookEarly, ClaimNothing, ClaimExhausted, MarkProcessed, MarkPermanentFailed
  <2> QED
    BY <1>9, <2>1 DEF LookEarly, ClaimNothing, ClaimExhausted, MarkProcessed,
       MarkPermanentFailed, Acknowledge, Idle, At, Finish
<1>10. ASSUME NEW w \in Workers, Look(w) \/ \E t \in Tokens : ClaimMessage(w, t)
       PROVE  DueRows'
  <2>1. worker[w].event \in Events /\ outbox[worker[w].event].stored
    BY <1>10, BusyEvent DEF Look, ClaimMessage
  <2>2. CASE Look(w)
    BY <2>1, <2>2 DEF Look, At
  <2>3. ASSUME NEW t \in Tokens, ClaimMessage(w, t)
        PROVE  DueRows'
    BY <2>1, <2>3 DEF ClaimMessage, At
  <2> QED
    BY <1>10, <2>2, <2>3
<1>11. ASSUME NEW w \in Workers, NEW outcome \in {"succeeded", "unroutable", "raised"},
              Handle(w, outcome)
       PROVE  DueRows'
  BY <1>11 DEF Handle, WorkerState
<1>12. ASSUME NEW w \in Workers, NEW delay \in 1..MaxDelay, ScheduleRetry(w, delay)
       PROVE  DueRows'
  <2>1. worker[w].event \in Events /\ outbox[worker[w].event].stored
    BY <1>12, BusyEvent DEF ScheduleRetry
  <2>2. \A x \in Dispatchers : \A b \in dispatcher'[x] :
           \E a \in dispatcher[x] : b.event = a.event
    BY <1>12, <2>1, AdvanceKeeps DEF ScheduleRetry
  <2>3. /\ outbox' = [outbox EXCEPT ![worker[w].event] = UnlockedRow(FALSE, delay)]
        /\ inbox' = [inbox EXCEPT ![worker[w].event] = Closed(@, "FAILED")]
        /\ queue' = queue /\ worker'[w] = Idle
        /\ \A v \in Workers \ {w} : worker'[v].event = worker[v].event
    BY <1>12, <2>1, OvertakeKeeps DEF ScheduleRetry, Finish
  <2>4. Idle.event = NoEvent
    BY DEF Idle, At
  <2>5. ASSUME NEW e \in Events
        PROVE  outbox'[e].published \/ outbox'[e].lockToken # NoToken
                  => outbox'[e].availableIn = 0
    BY <2>1, <2>3 DEF UnlockedRow
  <2>6. ASSUME NEW e \in Events, ~outbox'[e].stored
        PROVE  /\ ~outbox'[e].published /\ outbox'[e].lockToken = NoToken
               /\ outbox'[e].availableIn = 0 /\ queue'[e] = 0
               /\ inbox'[e].status = "NONE"
               /\ \A x \in Workers : worker'[x].event # e
               /\ \A x \in Dispatchers : \A b \in dispatcher'[x] : b.event # e
    <3>1. e # worker[w].event /\ outbox'[e] = outbox[e] /\ inbox'[e] = inbox[e]
      BY <2>1, <2>3, <2>6 DEF UnlockedRow
    <3>2. \A x \in Workers : worker'[x].event # e
      BY <2>3, <2>4, <2>6, <3>1, MessagingAssumption
    <3> QED
      BY <2>2, <2>3, <2>6, <3>1, <3>2
  <2> QED
    BY <2>5, <2>6
<1>13. CASE Tick
  <2>1. \A v \in Workers : worker'[v].event = worker[v].event
    BY <1>13, AgeKeeps DEF Tick
  <2> QED
    BY <1>13, <2>1 DEF Tick, Elapse, OutboxRow
<1>14. CASE UNCHANGED vars
  BY <1>14 DEF vars
<1> QED
  BY <1>1, <1>2, <1>3, <1>4, <1>5, <1>6, <1>7, <1>8, <1>9, <1>10, <1>11, <1>12, <1>13,
     <1>14 DEF Next, FaultFree, Fault, DispatcherStep, WorkerStep

\* The safety invariant is inductive.
THEOREM SafetyInvariant == Spec => []SafetyInv
<1>1. Init => SafetyInv
  <2> SUFFICES ASSUME Init PROVE SafetyInv
    OBVIOUS
  <2>1. TypeOK
    <3>1. outbox \in [Events -> OutboxRow]
      BY DEF Init, OutboxRow
    <3>2. inbox \in [Events -> InboxRow]
      BY DEF Init, InboxRow, InboxStatus
    <3> QED
      BY <3>1, <3>2, IdleType DEF Init, TypeOK
  <2> QED
    BY <2>1 DEF Init, SafetyInv, WorkerShape, DistinctLeases, DeadLetterMatchesInbox, DueRows,
       Idle, At
<1>2. SafetyInv /\ [Next]_vars => SafetyInv'
  BY TypeStep, ShapeStep, LeaseStep, DeadLetterStep, DueStep DEF SafetyInv
<1> QED
  BY <1>1, <1>2, PTL DEF Spec

\* No two workers can settle one message.
THEOREM Authority == Spec => []SingleAuthority
<1>1. SafetyInv => SingleAuthority
  BY DEF SafetyInv, DistinctLeases, SingleAuthority, HoldsLease
<1> QED
  BY <1>1, SafetyInvariant, PTL

\* The dead-letter table and the Inbox never disagree.
THEOREM DeadLettersAgree == Spec => []DeadLetterMatchesInbox
<1>1. SafetyInv => DeadLetterMatchesInbox
  BY DEF SafetyInv
<1> QED
  BY <1>1, SafetyInvariant, PTL

\* PROCESSED and DEAD are never left.
THEOREM SettledStays == Spec => SettledIsFinal
<1>1. SafetyInv /\ [Next]_vars =>
         [\A e \in Events : Settled(e) => inbox'[e].status = inbox[e].status]_vars
  <2> SUFFICES ASSUME SafetyInv, [Next]_vars, NEW e \in Events, Settled(e)
               PROVE  inbox'[e].status = inbox[e].status
    OBVIOUS
  <2> USE DEF SafetyInv, TypeOK, Settled
  <2>1. CASE inbox' = inbox /\ deadLetters' = deadLetters
    BY <2>1
  <2>2. ASSUME NEW w \in Workers, ClaimNothing(w)
        PROVE  inbox'[e].status = inbox[e].status
    BY <2>2 DEF ClaimNothing
  <2>3. ASSUME NEW w \in Workers, ClaimExhausted(w)
        PROVE  inbox'[e].status = inbox[e].status
    BY <2>3, BusyEvent DEF ClaimExhausted, Claimable
  <2>4. ASSUME NEW w \in Workers, NEW t \in Tokens, ClaimMessage(w, t)
        PROVE  inbox'[e].status = inbox[e].status
    BY <2>4, BusyEvent DEF ClaimMessage, Claimable
  <2>5. ASSUME NEW w \in Workers, MarkProcessed(w) \/ MarkPermanentFailed(w)
        PROVE  inbox'[e].status = inbox[e].status
    BY <2>5, BusyEvent DEF MarkProcessed, MarkPermanentFailed, Finish, HoldsLease
  <2>6. ASSUME NEW w \in Workers, NEW delay \in 1..MaxDelay, ScheduleRetry(w, delay)
        PROVE  inbox'[e].status = inbox[e].status
    BY <2>6, BusyEvent DEF ScheduleRetry, Finish, HoldsLease
  <2>7. CASE Tick
    BY <2>7 DEF Tick
  <2> QED
    BY <2>1, <2>2, <2>3, <2>4, <2>5, <2>6, <2>7, InboxMoves
<1> QED
  BY <1>1, SafetyInvariant, PTL DEF Spec, SettledIsFinal

\* Only a claim starts a handler, and a claim follows a look that found the row
\* published, hence due, or its available_at passed.
LookedBeforeDelay ==
    \A w \in Workers : \A e \in Events :
        Looking(w, e) => outbox[e].availableIn = 0 \/ worker[w].overtaken

LEMMA LookStep ==
  ASSUME SafetyInv, LookedBeforeDelay, [Next]_vars
  PROVE  LookedBeforeDelay'
<1> USE DEF SafetyInv, TypeOK
<1> SUFFICES ASSUME NEW w \in Workers, NEW e \in Events, Looking(w, e)'
             PROVE  outbox'[e].availableIn = 0 \/ worker'[w].overtaken
  BY DEF LookedBeforeDelay
<1> DEFINE Goal == outbox'[e].availableIn = 0 \/ worker'[w].overtaken
<1>0. worker'[w].pc = "looked" /\ worker'[w].event = e
  BY DEF Looking
<1>1. ASSUME outbox'[e].availableIn = outbox[e].availableIn, worker'[w] = worker[w]
      PROVE  Goal
  BY <1>0, <1>1 DEF Looking, LookedBeforeDelay
<1>2. ASSUME NEW v \in Workers, Look(v)
      PROVE  Goal
  <2>1. CASE v = w
    <3>1. worker[w].event = e /\ ~RetryNotReady(e)
      BY <1>0, <1>2, <2>1 DEF Look, At
    <3>2. outbox[e].availableIn \in 0..MaxDelay
      BY DEF OutboxRow
    <3> QED
      BY <1>2, <3>1, <3>2 DEF Look, RetryNotReady, DueRows
  <2>2. CASE v # w
    BY <1>1, <1>2, <2>2 DEF Look
  <2> QED
    BY <2>1, <2>2
<1>3. ASSUME NEW d \in Dispatchers, NEW c \in dispatcher[d], NEW delay \in 1..MaxDelay,
             MarkPublishFailed(d, c, delay)
      PROVE  Goal
  <2>1. c.event \in Events
    BY ClaimTypes
  <2>2. CASE c.event = e
    <3>1. Looking(w, e)
      BY <1>0, <1>3, <2>1, OvertakeKeeps DEF MarkPublishFailed, Looking
    <3>2. worker'[w] = [worker[w] EXCEPT !.overtaken = TRUE]
      BY <1>3, <2>2, <3>1 DEF MarkPublishFailed, OvertakeLooks
    <3> QED
      BY <3>2 DEF WorkerState
  <2>3. CASE c.event # e
    <3>1. ~Looking(w, c.event)
      BY <1>0, <1>3, <2>1, <2>3, OvertakeKeeps DEF MarkPublishFailed, Looking
    <3> QED
      BY <1>1, <1>3, <2>1, <2>3, <3>1 DEF MarkPublishFailed, OvertakeLooks
  <2> QED
    BY <2>2, <2>3
<1>4. ASSUME NEW v \in Workers, NEW delay \in 1..MaxDelay, ScheduleRetry(v, delay)
      PROVE  Goal
  <2>1. worker[v].event \in Events
    BY <1>4, BusyEvent DEF ScheduleRetry
  <2>2. v # w /\ worker'[w] = OvertakeLooks(worker[v].event)[w]
    BY <1>0, <1>4, <2>1, OvertakeKeeps DEF ScheduleRetry, Idle, At
  <2>3. CASE worker[v].event = e
    <3>1. Looking(w, e)
      BY <1>0, <2>1, <2>2, OvertakeKeeps DEF Looking
    <3>2. worker'[w] = [worker[w] EXCEPT !.overtaken = TRUE]
      BY <2>2, <2>3, <3>1 DEF OvertakeLooks
    <3> QED
      BY <3>2 DEF WorkerState
  <2>4. CASE worker[v].event # e
    <3>1. ~Looking(w, worker[v].event)
      BY <1>0, <2>1, <2>2, <2>4, OvertakeKeeps DEF Looking
    <3>2. worker'[w] = worker[w]
      BY <2>2, <3>1 DEF OvertakeLooks
    <3> QED
      BY <1>1, <1>4, <2>1, <2>4, <3>2 DEF ScheduleRetry
  <2> QED
    BY <2>3, <2>4
<1>5. CASE Tick
  <2>1. /\ worker'[w].pc = worker[w].pc /\ worker'[w].event = worker[w].event
        /\ worker'[w].overtaken = worker[w].overtaken
    BY <1>5 DEF Tick, WorkerState
  <2>2. outbox[e].availableIn = 0 => outbox'[e].availableIn = 0
    BY <1>5 DEF Tick, Elapse
  <2> QED
    BY <1>0, <2>1, <2>2 DEF Looking, LookedBeforeDelay
<1>6. ASSUME NEW f \in Events, NEW delay \in 0..MaxDelay, Add(f, delay)
      PROVE  Goal
  BY <1>0, <1>1, <1>6 DEF Add, DueRows
<1>7. ASSUME NEW d \in Dispatchers,
             \/ \E batch \in SUBSET Events : \E token \in [batch -> Tokens] :
                   ClaimReady(d, batch, token)
             \/ \E c \in dispatcher[d] :
                   \/ PublishConfirmed(d, c)
                   \/ \E accepted \in BOOLEAN : PublishRefused(d, c, accepted)
                   \/ MarkPublished(d, c)
                   \/ MarkPublishedConflict(d, c)
                   \/ MarkPublishFailedConflict(d, c)
             \/ DispatcherCrash(d)
      PROVE  Goal
  <2>1. worker' = worker
    BY <1>7 DEF ClaimReady, PublishConfirmed, PublishRefused, MarkPublished,
       MarkPublishedConflict, MarkPublishFailedConflict, DispatcherCrash
  <2>2. CASE outbox' = outbox
    BY <1>1, <2>1, <2>2
  <2>3. ASSUME NEW batch \in SUBSET Events, NEW token \in [batch -> Tokens],
               ClaimReady(d, batch, token)
        PROVE  Goal
    BY <1>1, <2>1, <2>3 DEF ClaimReady, LockedRow
  <2>4. ASSUME NEW c \in dispatcher[d], MarkPublished(d, c)
        PROVE  Goal
    BY <1>1, <2>1, <2>4, ClaimTypes DEF MarkPublished, UnlockedRow
  <2> QED
    BY <1>7, <2>2, <2>3, <2>4 DEF PublishConfirmed, PublishRefused, MarkPublishedConflict,
       MarkPublishFailedConflict, DispatcherCrash
<1>8. ASSUME NEW v \in Workers,
             \/ \E f \in Events : Receive(v, f)
             \/ LookEarly(v) \/ ClaimNothing(v) \/ ClaimConflict(v) \/ ClaimExhausted(v)
             \/ \E t \in Tokens : ClaimMessage(v, t)
             \/ MarkProcessed(v) \/ MarkPermanentFailed(v) \/ SettleConflict(v)
             \/ TransactionFails(v) \/ WorkerCrash(v)
      PROVE  Goal
  <2>1. /\ outbox' = outbox
        /\ \E f \in Events \cup {NoEvent}, t \in Tokens \cup {NoToken},
              pc \in {"idle", "claim", "handle"} : worker' = [worker EXCEPT ![v] = At(pc, f, t)]
    BY <1>8, BusyEvent
       DEF Receive, LookEarly, ClaimNothing, ClaimConflict, ClaimExhausted, ClaimMessage,
       MarkProcessed, MarkPermanentFailed, SettleConflict, TransactionFails, WorkerCrash,
       RejectDelivery, Acknowledge, Idle
  <2>2. v # w
    BY <1>0, <2>1 DEF At
  <2> QED
    BY <1>1, <2>1, <2>2
<1>9. ASSUME NEW v \in Workers, NEW outcome \in {"succeeded", "unroutable", "raised"},
             Handle(v, outcome)
      PROVE  Goal
  BY <1>0, <1>1, <1>9 DEF Handle, WorkerState
<1>10. CASE UNCHANGED vars
  BY <1>1, <1>10 DEF vars
<1> QED
  BY <1>2, <1>3, <1>4, <1>5, <1>6, <1>7, <1>8, <1>9, <1>10
     DEF Next, FaultFree, Fault, DispatcherStep, WorkerStep

\* A handler starts before available_at only behind a look from before the delay.
THEOREM NoHandlerBeforeDue == Spec => NoEarlyHandling
<1> DEFINE Timely ==
       \A e \in Events :
          inbox'[e].deliveryAttempts > inbox[e].deliveryAttempts =>
              \/ outbox[e].availableIn = 0
              \/ \E w \in Workers :
                    Looking(w, e) /\ worker[w].overtaken /\ worker'[w].pc = "handle"
<1>1. Init => LookedBeforeDelay
  BY DEF Init, LookedBeforeDelay, Looking, Idle, At
<1>2. SafetyInv /\ LookedBeforeDelay /\ [Next]_vars => LookedBeforeDelay'
  BY LookStep
<1>3. SafetyInv /\ LookedBeforeDelay /\ [Next]_vars => [Timely]_vars
  <2> SUFFICES ASSUME SafetyInv, LookedBeforeDelay, [Next]_vars, NEW e \in Events,
                      inbox'[e].deliveryAttempts > inbox[e].deliveryAttempts
               PROVE  \/ outbox[e].availableIn = 0
                      \/ \E w \in Workers :
                            Looking(w, e) /\ worker[w].overtaken /\ worker'[w].pc = "handle"
    OBVIOUS
  <2> USE DEF SafetyInv, TypeOK
  <2>1. inbox[e].deliveryAttempts \in Nat
    BY DEF InboxRow
  <2>2. ASSUME NEW w \in Workers, NEW t \in Tokens, ClaimMessage(w, t)
        PROVE  \/ outbox[e].availableIn = 0
               \/ Looking(w, e) /\ worker[w].overtaken /\ worker'[w].pc = "handle"
    <3>1. e = worker[w].event
      BY <2>1, <2>2, BusyEvent DEF ClaimMessage
    <3>2. Looking(w, e) /\ worker'[w].pc = "handle"
      BY <2>2, <3>1 DEF ClaimMessage, Looking, At
    <3> QED
      BY <3>2 DEF LookedBeforeDelay
  <2>3. CASE \/ inbox' = inbox /\ deadLetters' = deadLetters
             \/ \E w \in Workers : ClaimNothing(w)
    BY <2>1, <2>3 DEF ClaimNothing
  <2>4. ASSUME NEW w \in Workers,
               ClaimExhausted(w) \/ MarkProcessed(w) \/ MarkPermanentFailed(w)
        PROVE  FALSE
    BY <2>1, <2>4, BusyEvent DEF ClaimExhausted, MarkProcessed, MarkPermanentFailed, Finish,
       Closed
  <2>5. ASSUME NEW w \in Workers, NEW delay \in 1..MaxDelay, ScheduleRetry(w, delay)
        PROVE  FALSE
    BY <2>1, <2>5, BusyEvent DEF ScheduleRetry, Finish, Closed
  <2>6. CASE Tick
    BY <2>1, <2>6 DEF Tick
  <2> QED
    BY <2>2, <2>3, <2>4, <2>5, <2>6, InboxMoves
<1>4. Spec => []LookedBeforeDelay
  BY <1>1, <1>2, SafetyInvariant, PTL DEF Spec
<1> QED
  BY <1>3, <1>4, SafetyInvariant, PTL DEF Spec, NoEarlyHandling

-----------------------------------------------------------------------------
(* No event is lost *)

\* The event stays carried, or its row is waiting to be published again and
\* nobody holds its lock.
LEMMA CarriedStep ==
  ASSUME SafetyInv, [Next]_vars, NEW e \in Events, Carried(e)
  PROVE  Carried(e)' \/ (~outbox'[e].published /\ outbox'[e].lockToken = NoToken)
<1> USE DEF SafetyInv, TypeOK, Carried, Settled
<1> DEFINE Goal == Carried(e)' \/ (~outbox'[e].published /\ outbox'[e].lockToken = NoToken)
<1>1. ASSUME inbox' = inbox, queue' = queue, discarded' = discarded,
             \A v \in Workers : worker'[v].event = worker[v].event
      PROVE  Goal
  BY <1>1
<1>2. ASSUME NEW d \in Dispatchers, NEW c \in dispatcher[d],
             \/ PublishConfirmed(d, c)
             \/ \E accepted \in BOOLEAN : PublishRefused(d, c, accepted)
      PROVE  Goal
  <2>1. c.event \in Events /\ inbox' = inbox /\ worker' = worker
    BY <1>2, ClaimTypes DEF PublishConfirmed, PublishRefused
  <2>2. \/ queue' = queue /\ discarded' = discarded
        \/ queue' = [queue EXCEPT ![c.event] = @ + 1] /\ discarded' = discarded \ {c.event}
    BY <1>2 DEF PublishConfirmed, PublishRefused
  <2> QED
    BY <2>1, <2>2
<1>3. ASSUME NEW w \in Workers, NEW f \in Events, Receive(w, f)
      PROVE  Goal
  <2>1. ASSUME NEW v \in Workers, worker[v].event = e
        PROVE  worker'[v].event = e
    BY <1>3, <2>1 DEF Receive, WorkerShape
  <2>2. CASE f = e
    <3>1. worker'[w].event = e
      BY <1>3, <2>2 DEF Receive, At
    <3> QED
      BY <3>1
  <2>3. CASE f # e
    BY <1>3, <2>1, <2>3 DEF Receive
  <2> QED
    BY <2>2, <2>3
<1>4. ASSUME NEW w \in Workers, LookEarly(w) \/ ClaimNothing(w)
      PROVE  Goal
  <2>1. outbox[e].availableIn \in 0..MaxDelay
    BY DEF OutboxRow
  <2>2. CASE worker[w].event = e
    BY <1>4, <2>1, <2>2 DEF LookEarly, ClaimNothing, RetryNotReady, DueRows
  <2>3. CASE worker[w].event # e
    BY <1>4, <2>3 DEF LookEarly, ClaimNothing, Acknowledge
  <2> QED
    BY <2>2, <2>3
<1>5. ASSUME NEW w \in Workers,
             ClaimConflict(w) \/ SettleConflict(w) \/ TransactionFails(w) \/ WorkerCrash(w)
      PROVE  Goal
  <2>1. worker[w].event \in Events
    BY <1>5, BusyEvent DEF ClaimConflict, SettleConflict, TransactionFails, WorkerCrash
  <2>2. /\ worker' = [worker EXCEPT ![w] = Idle]
        /\ inbox' = inbox
        /\ \/ queue' = queue /\ discarded' = discarded \cup {worker[w].event}
           \/ queue' = [queue EXCEPT ![worker[w].event] = @ + 1] /\ discarded' = discarded
    BY <1>5 DEF ClaimConflict, SettleConflict, TransactionFails, WorkerCrash, RejectDelivery
  <2> QED
    BY <2>1, <2>2
<1>6. ASSUME NEW w \in Workers,
             ClaimExhausted(w) \/ MarkProcessed(w) \/ MarkPermanentFailed(w)
      PROVE  Goal
  <2>1. worker[w].event \in Events
    BY <1>6, BusyEvent DEF ClaimExhausted, MarkProcessed, MarkPermanentFailed
  <2>2. inbox'[worker[w].event].status \in {"PROCESSED", "DEAD"}
    BY <1>6, <2>1
       DEF ClaimExhausted, MarkProcessed, MarkPermanentFailed, Finish, Closed
  <2>3. CASE worker[w].event = e
    BY <2>2, <2>3
  <2>4. CASE worker[w].event # e
    BY <1>6, <2>1, <2>4
       DEF ClaimExhausted, MarkProcessed, MarkPermanentFailed, Finish, Acknowledge
  <2> QED
    BY <2>3, <2>4
<1>7. ASSUME NEW w \in Workers, Look(w) \/ \E t \in Tokens : ClaimMessage(w, t)
      PROVE  Goal
  <2>1. \A v \in Workers : worker'[v].event = worker[v].event
    <3>1. CASE Look(w)
      BY <3>1 DEF Look, At
    <3>2. ASSUME NEW t \in Tokens, ClaimMessage(w, t)
          PROVE  \A v \in Workers : worker'[v].event = worker[v].event
      BY <3>2 DEF ClaimMessage, At
    <3> QED
      BY <1>7, <3>1, <3>2
  <2> QED
    BY <1>7, <2>1, BusyEvent DEF Look, ClaimMessage, Claimable
<1>8. ASSUME NEW w \in Workers, NEW outcome \in {"succeeded", "unroutable", "raised"},
             Handle(w, outcome)
      PROVE  Goal
  BY <1>8 DEF Handle, WorkerState
<1>9. ASSUME NEW w \in Workers, NEW delay \in 1..MaxDelay, ScheduleRetry(w, delay)
      PROVE  Goal
  <2>1. worker[w].event \in Events
    BY <1>9, BusyEvent DEF ScheduleRetry
  <2>2. CASE worker[w].event = e
    BY <1>9, <2>2 DEF ScheduleRetry, UnlockedRow
  <2>3. CASE worker[w].event # e
    <3>1. /\ inbox'[e] = inbox[e] /\ queue' = queue /\ discarded' = discarded
          /\ \A v \in Workers \ {w} : worker'[v].event = worker[v].event
      BY <1>9, <2>1, <2>3, OvertakeKeeps DEF ScheduleRetry, Finish
    <3> QED
      BY <2>3, <3>1
  <2> QED
    BY <2>2, <2>3
<1>10. CASE Tick
  <2>1. \A v \in Workers : worker'[v].event = worker[v].event
    BY <1>10, AgeKeeps DEF Tick
  <2> QED
    BY <1>10, <2>1 DEF Tick
<1>11. ASSUME NEW d \in Dispatchers,
              \/ \E batch \in SUBSET Events : \E token \in [batch -> Tokens] :
                    ClaimReady(d, batch, token)
              \/ \E c \in dispatcher[d] :
                    \/ MarkPublished(d, c)
                    \/ MarkPublishedConflict(d, c)
                    \/ \E delay \in 1..MaxDelay : MarkPublishFailed(d, c, delay)
                    \/ MarkPublishFailedConflict(d, c)
              \/ DispatcherCrash(d)
       PROVE  Goal
  <2>1. \A v \in Workers : worker'[v].event = worker[v].event
    <3>1. CASE worker' = worker
      BY <3>1
    <3>2. ASSUME NEW c \in dispatcher[d], NEW delay \in 1..MaxDelay,
                 MarkPublishFailed(d, c, delay)
          PROVE  \A v \in Workers : worker'[v].event = worker[v].event
      <4>1. c.event \in Events
        BY ClaimTypes
      <4> QED
        BY <3>2, <4>1, OvertakeKeeps DEF MarkPublishFailed
    <3> QED
      BY <1>11, <3>1, <3>2 DEF ClaimReady, MarkPublished, MarkPublishedConflict,
         MarkPublishFailedConflict, DispatcherCrash
  <2> QED
    BY <1>1, <1>11, <2>1 DEF ClaimReady, MarkPublished, MarkPublishedConflict,
       MarkPublishFailed, MarkPublishFailedConflict, DispatcherCrash
<1>12. ASSUME NEW f \in Events, NEW delay \in 0..MaxDelay, Add(f, delay)
       PROVE  Goal
  BY <1>1, <1>12 DEF Add
<1>13. CASE UNCHANGED vars
  BY <1>1, <1>13 DEF vars
<1> QED
  BY <1>2, <1>3, <1>4, <1>5, <1>6, <1>7, <1>8, <1>9, <1>10, <1>11, <1>12, <1>13
     DEF Next, FaultFree, Fault, DispatcherStep, WorkerStep

\* Only mark_published publishes a row.
LEMMA PublishMoves ==
  ASSUME SafetyInv, [Next]_vars, NEW e \in Events,
         ~outbox[e].published, outbox'[e].published
  PROVE  \E d \in Dispatchers : \E c \in dispatcher[d] : MarkPublished(d, c) /\ c.event = e
<1> USE DEF SafetyInv, TypeOK
<1>1. ASSUME NEW d \in Dispatchers, NEW c \in dispatcher[d], MarkPublished(d, c)
      PROVE  c.event = e
  BY <1>1, ClaimTypes DEF MarkPublished
<1>2. ASSUME NEW f \in Events, NEW delay \in 0..MaxDelay, Add(f, delay)
      PROVE  FALSE
  BY <1>2 DEF Add, UnlockedRow
<1>3. ASSUME NEW d \in Dispatchers, NEW batch \in SUBSET Events,
             NEW token \in [batch -> Tokens], ClaimReady(d, batch, token)
      PROVE  FALSE
  BY <1>3 DEF ClaimReady, LockedRow
<1>4. ASSUME NEW d \in Dispatchers, NEW c \in dispatcher[d], NEW delay \in 1..MaxDelay,
             MarkPublishFailed(d, c, delay)
      PROVE  FALSE
  BY <1>4, ClaimTypes DEF MarkPublishFailed, UnlockedRow
<1>5. ASSUME NEW w \in Workers, NEW delay \in 1..MaxDelay, ScheduleRetry(w, delay)
      PROVE  FALSE
  BY <1>5, BusyEvent DEF ScheduleRetry, UnlockedRow
<1>6. CASE Tick
  BY <1>6 DEF Tick
<1>7. CASE outbox' = outbox
  BY <1>7
<1>8. ASSUME NEW d \in Dispatchers,
             \/ DispatcherCrash(d)
             \/ \E c \in dispatcher[d] :
                   \/ PublishConfirmed(d, c)
                   \/ \E accepted \in BOOLEAN : PublishRefused(d, c, accepted)
                   \/ MarkPublishedConflict(d, c)
                   \/ MarkPublishFailedConflict(d, c)
      PROVE  FALSE
  BY <1>7, <1>8 DEF DispatcherCrash, PublishConfirmed, PublishRefused, MarkPublishedConflict,
     MarkPublishFailedConflict
<1>9. ASSUME NEW w \in Workers,
             \/ \E f \in Events : Receive(w, f)
             \/ LookEarly(w) \/ Look(w)
             \/ ClaimNothing(w) \/ ClaimConflict(w) \/ ClaimExhausted(w)
             \/ \E t \in Tokens : ClaimMessage(w, t)
             \/ \E outcome \in {"succeeded", "unroutable", "raised"} : Handle(w, outcome)
             \/ MarkProcessed(w) \/ MarkPermanentFailed(w) \/ SettleConflict(w)
             \/ TransactionFails(w) \/ WorkerCrash(w)
      PROVE  FALSE
  BY <1>7, <1>9 DEF Receive, LookEarly, Look, ClaimNothing, ClaimConflict, ClaimExhausted, ClaimMessage, Handle,
     MarkProcessed, MarkPermanentFailed, SettleConflict, TransactionFails, WorkerCrash
<1>10. CASE UNCHANGED vars
  BY <1>7, <1>10 DEF vars
<1> QED
  BY <1>1, <1>2, <1>3, <1>4, <1>5, <1>6, <1>8, <1>9, <1>10
     DEF Next, FaultFree, Fault, DispatcherStep, WorkerStep

\* A confirmed claim that holds the lock after a step was just confirmed, or
\* was confirmed and held the lock before: a new lock has a fresh token.
LEMMA ClaimHistory ==
  ASSUME SafetyInv, [Next]_vars, NEW d \in Dispatchers, NEW c \in dispatcher'[d],
         c \in Claim, c.stage = "confirmed", HoldsLock(c)'
  PROVE  \/ \E b \in dispatcher[d] : PublishConfirmed(d, b) /\ b.event = c.event
         \/ \E a \in dispatcher[d] :
               a.event = c.event /\ a.stage = "confirmed" /\ HoldsLock(a)
<1> USE DEF SafetyInv, TypeOK
<1> DEFINE Kept == \E a \in dispatcher[d] :
              a.event = c.event /\ a.stage = "confirmed" /\ HoldsLock(a)
<1>0. /\ c.event \in Events /\ c.token \in Tokens
      /\ outbox'[c.event].lockToken = c.token /\ ~outbox'[c.event].published
  BY ClaimTypes DEF HoldsLock
<1>1. ASSUME outbox'[c.event].lockToken = outbox[c.event].lockToken,
             outbox'[c.event].published = outbox[c.event].published,
             \E a \in dispatcher[d] :
                a.event = c.event /\ a.token = c.token /\ a.stage = c.stage
      PROVE  Kept
  BY <1>0, <1>1 DEF HoldsLock
<1>2. ASSUME NEW f \in Events, NEW delay \in 0..MaxDelay, Add(f, delay)
      PROVE  Kept
  BY <1>0, <1>1, <1>2 DEF Add, UnlockedRow
<1>3. ASSUME NEW x \in Dispatchers, NEW batch \in SUBSET Events,
             NEW token \in [batch -> Tokens], ClaimReady(x, batch, token)
      PROVE  Kept
  <2>1. x # d
    BY <1>3 DEF ClaimReady
  <2>2. c \in dispatcher[d]
    BY <1>3, <2>1 DEF ClaimReady
  <2>3. c.token \in LockTokensOf(c.event)
    BY <2>2 DEF LockTokensOf
  <2>4. c.event \notin batch
    BY <1>0, <1>3, <2>3 DEF ClaimReady, FreshLock, LockedRow
  <2> QED
    BY <1>0, <1>1, <1>3, <2>2, <2>4 DEF ClaimReady
<1>4. ASSUME NEW x \in Dispatchers, NEW b \in dispatcher[x], PublishConfirmed(x, b)
      PROVE  Kept \/ (x = d /\ b.event = c.event)
  <2>1. outbox' = outbox
    BY <1>4 DEF PublishConfirmed
  <2>2. CASE c \in dispatcher[d]
    BY <1>1, <2>1, <2>2
  <2>3. CASE c \notin dispatcher[d]
    <3>1. x = d /\ c = [b EXCEPT !.stage = "confirmed"]
      BY <1>4, <2>3 DEF PublishConfirmed, Restage
    <3>2. c.event = b.event
      BY <3>1 DEF Claim
    <3> QED
      BY <3>1, <3>2
  <2> QED
    BY <2>2, <2>3
<1>5. ASSUME NEW x \in Dispatchers, NEW b \in dispatcher[x], NEW accepted \in BOOLEAN,
             PublishRefused(x, b, accepted)
      PROVE  Kept
  <2>1. outbox' = outbox
    BY <1>5 DEF PublishRefused
  <2>2. c \in dispatcher[d]
    <3>1. [b EXCEPT !.stage = "refused"].stage = "refused"
      BY DEF Claim
    <3> QED
      BY <1>5, <3>1 DEF PublishRefused, Restage
  <2> QED
    BY <1>1, <2>1, <2>2
<1>6. ASSUME NEW x \in Dispatchers, NEW b \in dispatcher[x], MarkPublished(x, b)
      PROVE  Kept
  <2>1. b.event # c.event
    BY <1>0, <1>6, ClaimTypes DEF MarkPublished, UnlockedRow
  <2> QED
    BY <1>0, <1>1, <1>6, <2>1 DEF MarkPublished
<1>7. ASSUME NEW x \in Dispatchers, NEW b \in dispatcher[x], NEW delay \in 1..MaxDelay,
             MarkPublishFailed(x, b, delay)
      PROVE  Kept
  <2>1. b.event \in Events
    BY ClaimTypes
  <2>2. b.event # c.event
    BY <1>0, <1>7, <2>1 DEF MarkPublishFailed, UnlockedRow
  <2>3. \E S \in SUBSET Claim : S \subseteq dispatcher[d] /\ c \in AdvanceClaims(S, b.event)
    BY <1>7 DEF MarkPublishFailed
  <2>4. \E a \in dispatcher[d] : a.event = c.event /\ a.token = c.token /\ a.stage = c.stage
    BY <2>1, <2>3, AdvanceKeeps
  <2> QED
    BY <1>0, <1>1, <1>7, <2>2, <2>4 DEF MarkPublishFailed
<1>8. ASSUME NEW x \in Dispatchers,
             \/ DispatcherCrash(x)
             \/ \E b \in dispatcher[x] :
                   MarkPublishedConflict(x, b) \/ MarkPublishFailedConflict(x, b)
      PROVE  Kept
  BY <1>0, <1>1, <1>8 DEF DispatcherCrash, MarkPublishedConflict, MarkPublishFailedConflict
<1>9. ASSUME NEW w \in Workers, NEW delay \in 1..MaxDelay, ScheduleRetry(w, delay)
      PROVE  Kept
  <2>1. worker[w].event \in Events
    BY <1>9, BusyEvent DEF ScheduleRetry
  <2>2. worker[w].event # c.event
    BY <1>0, <1>9, <2>1 DEF ScheduleRetry, UnlockedRow
  <2>3. \E a \in dispatcher[d] : a.event = c.event /\ a.token = c.token /\ a.stage = c.stage
    BY <1>9, <2>1, AdvanceKeeps DEF ScheduleRetry
  <2> QED
    BY <1>0, <1>1, <1>9, <2>2, <2>3 DEF ScheduleRetry
<1>10. CASE Tick
  BY <1>0, <1>1, <1>10 DEF Tick
<1>11. ASSUME outbox' = outbox, dispatcher' = dispatcher
       PROVE  Kept
  BY <1>0, <1>1, <1>11
<1>12. ASSUME NEW w \in Workers,
             \/ \E f \in Events : Receive(w, f)
             \/ LookEarly(w) \/ Look(w)
             \/ ClaimNothing(w) \/ ClaimConflict(w) \/ ClaimExhausted(w)
             \/ \E t \in Tokens : ClaimMessage(w, t)
             \/ \E outcome \in {"succeeded", "unroutable", "raised"} : Handle(w, outcome)
             \/ MarkProcessed(w) \/ MarkPermanentFailed(w) \/ SettleConflict(w)
             \/ TransactionFails(w) \/ WorkerCrash(w)
      PROVE  Kept
  <2>1. outbox' = outbox /\ dispatcher' = dispatcher
    BY <1>12 DEF Receive, LookEarly, Look, ClaimNothing, ClaimConflict, ClaimExhausted, ClaimMessage, Handle,
       MarkProcessed, MarkPermanentFailed, SettleConflict, TransactionFails, WorkerCrash
  <2> QED
    BY <1>11, <2>1
<1>13. CASE UNCHANGED vars
  BY <1>11, <1>13 DEF vars
<1> QED
  BY <1>2, <1>3, <1>4, <1>5, <1>6, <1>7, <1>8, <1>9, <1>10, <1>12, <1>13
     DEF Next, FaultFree, Fault, DispatcherStep, WorkerStep

LEMMA ConfirmedStep ==
  ASSUME SafetyInv, SafetyInv', ConfirmedIsCarried, [Next]_vars
  PROVE  ConfirmedIsCarried'
<1>1. ASSUME NEW e \in Events, outbox'[e].published
      PROVE  Carried(e)'
  <2>1. Carried(e)
    <3>1. CASE outbox[e].published
      BY <3>1 DEF ConfirmedIsCarried
    <3>2. CASE ~outbox[e].published
      <4>1. PICK d \in Dispatchers : \E c \in dispatcher[d] : MarkPublished(d, c) /\ c.event = e
        BY <1>1, <3>2, PublishMoves
      <4>2. PICK c \in dispatcher[d] : MarkPublished(d, c) /\ c.event = e
        BY <4>1
      <4> QED
        BY <4>2 DEF ConfirmedIsCarried, MarkPublished
    <3> QED
      BY <3>1, <3>2
  <2> QED
    BY <1>1, <2>1, CarriedStep
<1>2. ASSUME NEW d \in Dispatchers, NEW c \in dispatcher'[d], c.stage = "confirmed",
             HoldsLock(c)'
      PROVE  Carried(c.event)'
  <2>1. c \in Claim /\ c.event \in Events /\ c.token \in Tokens
    BY ClaimTypes DEF SafetyInv, TypeOK
  <2>2. CASE \E b \in dispatcher[d] : PublishConfirmed(d, b) /\ b.event = c.event
    <3>1. queue'[c.event] = queue[c.event] + 1 /\ queue[c.event] \in Nat
      BY <2>1, <2>2 DEF PublishConfirmed, SafetyInv, TypeOK
    <3> QED
      BY <3>1 DEF Carried
  <2>3. CASE \E a \in dispatcher[d] :
                a.event = c.event /\ a.stage = "confirmed" /\ HoldsLock(a)
    <3>1. Carried(c.event)
      BY <2>3 DEF ConfirmedIsCarried
    <3>2. outbox'[c.event].lockToken # NoToken
      BY <1>2, <2>1 DEF HoldsLock
    <3> QED
      BY <2>1, <3>1, <3>2, CarriedStep
  <2> QED
    BY <1>2, <2>1, <2>2, <2>3, ClaimHistory
<1> QED
  BY <1>1, <1>2 DEF ConfirmedIsCarried

\* Whatever crashes, expires or goes unconfirmed, a published event is handled to
\* its end or a delivery of it was discarded.
THEOREM NothingLost == Spec => []NoLostEvent
<1>1. Init => ConfirmedIsCarried
  BY DEF Init, ConfirmedIsCarried
<1>2. SafetyInv /\ SafetyInv' /\ ConfirmedIsCarried /\ [Next]_vars => ConfirmedIsCarried'
  BY ConfirmedStep
<1>3. SafetyInv /\ ConfirmedIsCarried => NoLostEvent
  BY DEF SafetyInv, TypeOK, ConfirmedIsCarried, NoLostEvent, Lost, Carried
<1> QED
  BY <1>1, <1>2, <1>3, SafetyInvariant, PTL DEF Spec

-----------------------------------------------------------------------------
(* The contract *)

PhaseMap == [e \in Events |-> Phase(e)]
CoolMap == {e \in Events : outbox[e].availableIn > 0}
AdmitMap == [w \in Workers |-> {e \in Events : Looking(w, e)}]
AttemptMap == [e \in Events |-> inbox[e].deliveryAttempts]

\* What the step of a dispatcher leaves alone.
LEMMA RowsKept ==
  ASSUME inbox' = inbox, \A e \in Events : outbox'[e].stored = outbox[e].stored
  PROVE  PhaseMap' = PhaseMap /\ AttemptMap' = AttemptMap
  BY DEF PhaseMap, AttemptMap, Phase

LEMMA CoolKept ==
  ASSUME \A e \in Events : outbox'[e].availableIn = outbox[e].availableIn
  PROVE  CoolMap' = CoolMap
  BY DEF CoolMap

LEMMA AdmitKept ==
  ASSUME \A w \in Workers : \/ SameHands(w)
                            \/ worker[w].pc # "looked" /\ worker'[w].pc # "looked"
  PROVE  AdmitMap' = AdmitMap
<1>1. \A w \in Workers : \A e \in Events : Looking(w, e)' <=> Looking(w, e)
  BY DEF SameHands, Looking
<1> QED
  BY <1>1 DEF AdmitMap

\* A worker that had looked goes on or gives up.
LEMMA Leaves ==
  ASSUME NEW w \in Workers, NEW e \in Events, Looking(w, e), worker'[w].pc # "looked",
         \A v \in Workers \ {w} : SameHands(v)
  PROVE  Contract!Leave(w, e)
<1>1. \A v \in Workers \ {w} : \A f \in Events : Looking(v, f)' <=> Looking(v, f)
  BY DEF SameHands, Looking
<1>2. \A f \in Events : ~Looking(w, f)'
  BY DEF Looking
<1>3. \A f \in Events : Looking(w, f) <=> f = e
  BY DEF Looking
<1>4. AdmitMap' = [AdmitMap EXCEPT ![w] = @ \ {e}]
  BY <1>1, <1>2, <1>3 DEF AdmitMap
<1>5. e \in AdmitMap[w]
  BY <1>3 DEF AdmitMap
<1> QED
  BY <1>4, <1>5 DEF Contract!Leave, AdmitMap

\* A step on the Inbox row of one event changes the phase of that event only.
LEMMA RowMove ==
  ASSUME NEW e \in Events, NEW from, NEW to, Phase(e) \in from, Phase(e)' = to,
         \A f \in Events : outbox'[f].stored = outbox[f].stored,
         \A f \in Events \ {e} : inbox'[f] = inbox[f]
  PROVE  /\ Contract!Move(e, from, to)
         /\ AttemptMap' = [AttemptMap EXCEPT ![e] = inbox'[e].deliveryAttempts]
<1>1. \A f \in Events \ {e} :
         Phase(f)' = Phase(f) /\ inbox'[f].deliveryAttempts = inbox[f].deliveryAttempts
  BY DEF Phase
<1>2. PhaseMap' = [PhaseMap EXCEPT ![e] = to] /\ PhaseMap[e] \in from
  BY <1>1 DEF PhaseMap
<1>3. AttemptMap' = [AttemptMap EXCEPT ![e] = inbox'[e].deliveryAttempts]
  BY <1>1 DEF AttemptMap
<1> QED
  BY <1>2, <1>3 DEF Contract!Move, PhaseMap

\* The phase of a stored event is read off its Inbox row.
LEMMA PhaseOfStored ==
  ASSUME NEW e \in Events, outbox[e].stored
  PROVE  /\ inbox[e].status = "PROCESSED" => Phase(e) = "processed"
         /\ inbox[e].status = "DEAD" => Phase(e) = "dead"
         /\ inbox[e].status = "PROCESSING" => Phase(e) = "handling"
         /\ inbox[e].status \notin {"PROCESSED", "DEAD", "PROCESSING"} => Phase(e) = "waiting"
         /\ Phase(e) # "absent"
  BY DEF Phase

LEMMA PhaseOfStoredNext ==
  ASSUME NEW e \in Events, outbox'[e].stored
  PROVE  /\ inbox'[e].status = "PROCESSED" => Phase(e)' = "processed"
         /\ inbox'[e].status = "DEAD" => Phase(e)' = "dead"
         /\ inbox'[e].status = "PROCESSING" => Phase(e)' = "handling"
         /\ inbox'[e].status \notin {"PROCESSED", "DEAD", "PROCESSING"} => Phase(e)' = "waiting"
  BY DEF Phase

\* A step that settles what it holds the lease of.
LEMMA Settles ==
  ASSUME SafetyInv, NEW w \in Workers, NEW status \in {"PROCESSED", "DEAD", "FAILED"},
         worker[w].pc \notin {"idle", "looked"}, HoldsLease(w), Finish(worker[w].event, status),
         \A f \in Events : outbox'[f].stored = outbox[f].stored,
         worker'[w].pc # "looked", \A v \in Workers \ {w} : SameHands(v)
  PROVE  /\ worker[w].event \in Events
         /\ Contract!Move(worker[w].event, {"handling"},
               CASE status = "PROCESSED" -> "processed"
                 [] status = "DEAD" -> "dead"
                 [] status = "FAILED" -> "waiting")
         /\ AttemptMap' = AttemptMap /\ AdmitMap' = AdmitMap
<1> USE DEF SafetyInv, TypeOK
<1>1. PICK e \in Events : e = worker[w].event
  BY BusyEvent
<1>2. outbox[e].stored /\ inbox[e].status = "PROCESSING"
  BY <1>1 DEF DueRows, HoldsLease
<1>3. /\ inbox'[e].status = status
      /\ inbox'[e].deliveryAttempts = inbox[e].deliveryAttempts
      /\ \A f \in Events \ {e} : inbox'[f] = inbox[f]
  BY <1>1 DEF Finish, Closed
<1>4. Phase(e) \in {"handling"}
  BY <1>2, PhaseOfStored
<1>5. Phase(e)' = CASE status = "PROCESSED" -> "processed"
                    [] status = "DEAD" -> "dead"
                    [] status = "FAILED" -> "waiting"
  BY <1>2, <1>3, PhaseOfStoredNext
<1>6. AttemptMap' = AttemptMap
  BY <1>3 DEF AttemptMap
<1>7. AdmitMap' = AdmitMap
  BY AdmitKept
<1> HIDE DEF SafetyInv, TypeOK
<1> QED
  BY <1>1, <1>3, <1>4, <1>5, <1>6, <1>7, RowMove

\* One step of the transport is one step of the contract, or none.
LEMMA ContractStep ==
  ASSUME SafetyInv, [Next]_vars
  PROVE  [Contract!CNext]_<<PhaseMap, CoolMap, AdmitMap, AttemptMap>>
<1> USE DEF SafetyInv, TypeOK
<1> DEFINE Same == /\ PhaseMap' = PhaseMap /\ CoolMap' = CoolMap
                   /\ AdmitMap' = AdmitMap /\ AttemptMap' = AttemptMap
           Goal == [Contract!CNext]_<<PhaseMap, CoolMap, AdmitMap, AttemptMap>>
<1>1. ASSUME NEW e \in Events, NEW delay \in 0..MaxDelay, Add(e, delay)
      PROVE  Goal
  <2>1. Phase(e) = "absent" /\ Phase(e)' = "waiting"
    BY <1>1 DEF Add, UnlockedRow, Phase, DueRows
  <2>2. PhaseMap' = [PhaseMap EXCEPT ![e] = "waiting"] /\ PhaseMap[e] = "absent"
    <3>1. \A f \in Events \ {e} : Phase(f)' = Phase(f)
      BY <1>1 DEF Add, Phase
    <3> QED
      BY <2>1, <3>1 DEF PhaseMap
  <2>3. CoolMap' \in {CoolMap, CoolMap \cup {e}}
    <3>1. /\ ~(outbox[e].availableIn > 0)
          /\ \A f \in Events \ {e} : outbox'[f] = outbox[f]
      BY <1>1 DEF Add, DueRows
    <3> QED
      BY <3>1 DEF CoolMap
  <2>4. AdmitMap' = AdmitMap /\ AttemptMap' = AttemptMap
    BY <1>1 DEF Add, AdmitMap, Looking, AttemptMap
  <2>5. Contract!Store(e)
    BY <2>2, <2>3, <2>4
       DEF Contract!Store, Contract!Move, PhaseMap, CoolMap, AdmitMap, AttemptMap
  <2> QED
    BY <2>5 DEF Contract!CNext
<1>2. ASSUME NEW w \in Workers, Look(w)
      PROVE  Goal
  <2>1. PICK e \in Events : e = worker[w].event
    BY <1>2, BusyEvent DEF Look
  <2>2. PhaseMap[e] # "absent"
    BY <2>1, PhaseOfStored DEF DueRows, PhaseMap
  <2>3. e \notin CoolMap
    <3>1. outbox[e].availableIn \in 0..MaxDelay
      BY DEF OutboxRow
    <3> QED
      BY <1>2, <2>1, <3>1 DEF Look, RetryNotReady, DueRows, CoolMap
  <2>4. AdmitMap' = [AdmitMap EXCEPT ![w] = {e}]
    <3>1. worker' = [worker EXCEPT ![w] = At("looked", e, NoToken)]
      BY <1>2, <2>1 DEF Look
    <3>2. {f \in Events : Looking(w, f)'} = {e}
      BY <3>1 DEF Looking, At
    <3>3. \A v \in Workers \ {w} : \A f \in Events : Looking(v, f)' <=> Looking(v, f)
      BY <3>1 DEF Looking
    <3>4. \A v \in Workers : AdmitMap'[v] = IF v = w THEN {e} ELSE AdmitMap[v]
      BY <3>2, <3>3 DEF AdmitMap
    <3>5. AdmitMap' = [v \in Workers |-> AdmitMap'[v]]
      BY DEF AdmitMap
    <3>6. AdmitMap = [v \in Workers |-> AdmitMap[v]]
      BY DEF AdmitMap
    <3> HIDE DEF AdmitMap
    <3> QED
      BY <3>4, <3>5, <3>6
  <2>5. PhaseMap' = PhaseMap /\ CoolMap' = CoolMap /\ AttemptMap' = AttemptMap
    BY <1>2, RowsKept, CoolKept DEF Look
  <2>6. Contract!Admit(w, e)
    BY <2>2, <2>3, <2>4, <2>5 DEF Contract!Admit, PhaseMap, CoolMap, AdmitMap, AttemptMap
  <2> QED
    BY <2>6 DEF Contract!CNext
<1>3. ASSUME NEW w \in Workers, NEW t \in Tokens, ClaimMessage(w, t)
      PROVE  Goal
  <2>1. PICK e \in Events : e = worker[w].event
    BY <1>3, BusyEvent DEF ClaimMessage
  <2>2. /\ outbox[e].stored /\ outbox' = outbox /\ Claimable(e)
        /\ inbox[e].deliveryAttempts < MaxDeliveryAttempts
    BY <1>3, <2>1 DEF ClaimMessage, DueRows, BudgetLeft
  <2>3. /\ inbox'[e].status = "PROCESSING"
        /\ inbox'[e].deliveryAttempts = inbox[e].deliveryAttempts + 1
        /\ \A f \in Events \ {e} : inbox'[f] = inbox[f]
    BY <1>3, <2>1 DEF ClaimMessage
  <2>4. Phase(e) \in {"waiting", "handling"} /\ Phase(e)' = "handling"
    BY <2>2, <2>3, PhaseOfStored, PhaseOfStoredNext DEF Claimable, Settled
  <2>5. /\ Contract!Move(e, {"waiting", "handling"}, "handling")
        /\ AttemptMap' = [AttemptMap EXCEPT ![e] = inbox[e].deliveryAttempts + 1]
    BY <2>2, <2>3, <2>4, RowMove
  <2>6. Contract!Leave(w, e)
    <3>1. /\ Looking(w, e) /\ worker'[w].pc # "looked"
          /\ \A v \in Workers \ {w} : SameHands(v)
      BY <1>3, <2>1 DEF ClaimMessage, Looking, SameHands, At
    <3> QED
      BY <3>1, Leaves
  <2>7. CoolMap' = CoolMap
    BY <2>2, CoolKept
  <2>8. Contract!Start(w, e)
    BY <2>2, <2>5, <2>6, <2>7 DEF Contract!Start, CoolMap, AttemptMap
  <2> QED
    BY <2>8 DEF Contract!CNext
<1>4. ASSUME NEW w \in Workers, ClaimExhausted(w)
      PROVE  Goal
  <2>1. PICK e \in Events : e = worker[w].event
    BY <1>4, BusyEvent DEF ClaimExhausted
  <2>2. outbox[e].stored /\ outbox' = outbox /\ Claimable(e)
    BY <1>4, <2>1 DEF ClaimExhausted, DueRows
  <2>3. inbox' = [inbox EXCEPT ![e] = Closed(@, "DEAD")]
    BY <1>4, <2>1 DEF ClaimExhausted
  <2>4. /\ inbox'[e].status = "DEAD"
        /\ inbox'[e].deliveryAttempts = inbox[e].deliveryAttempts
        /\ \A f \in Events \ {e} : inbox'[f] = inbox[f]
    BY <2>3 DEF Closed
  <2>5. Phase(e) \in {"waiting", "handling"} /\ Phase(e)' = "dead"
    BY <2>2, <2>4, PhaseOfStored, PhaseOfStoredNext DEF Claimable, Settled
  <2>6. inbox[e].deliveryAttempts = MaxDeliveryAttempts
    <3>1. /\ inbox[e].deliveryAttempts \in 0..MaxDeliveryAttempts
          /\ MaxDeliveryAttempts \in Nat
      BY MessagingAssumption DEF InboxRow
    <3>2. ~(inbox[e].deliveryAttempts < MaxDeliveryAttempts)
      BY <1>4, <2>1 DEF ClaimExhausted, BudgetLeft
    <3> QED
      BY <3>1, <3>2
  <2>7. /\ Contract!Move(e, {"waiting", "handling"}, "dead")
        /\ AttemptMap' = AttemptMap
    <3>1. Contract!Move(e, {"waiting", "handling"}, "dead")
      BY <2>2, <2>4, <2>5, RowMove
    <3>2. AttemptMap' = AttemptMap
      BY <2>4 DEF AttemptMap
    <3> QED
      BY <3>1, <3>2
  <2>8. Contract!Leave(w, e)
    <3>1. /\ Looking(w, e) /\ worker'[w].pc # "looked"
          /\ \A v \in Workers \ {w} : SameHands(v)
      BY <1>4, <2>1 DEF ClaimExhausted, Acknowledge, Looking, SameHands, Idle, At
    <3> QED
      BY <3>1, Leaves
  <2>9. CoolMap' = CoolMap
    BY <2>2, CoolKept
  <2>10. Contract!Exhaust(w, e)
    BY <2>6, <2>7, <2>8, <2>9 DEF Contract!Exhaust, CoolMap, AttemptMap
  <2> QED
    BY <2>10 DEF Contract!CNext
<1>5. ASSUME NEW w \in Workers,
             \/ LookEarly(w) \/ ClaimNothing(w) \/ ClaimConflict(w)
             \/ SettleConflict(w) \/ TransactionFails(w) \/ WorkerCrash(w)
      PROVE  Goal
  <2>1. PICK e \in Events : e = worker[w].event
    BY <1>5, BusyEvent DEF LookEarly, ClaimNothing, ClaimConflict, SettleConflict,
       TransactionFails, WorkerCrash
  <2>2. outbox' = outbox /\ inbox' = inbox /\ worker' = [worker EXCEPT ![w] = Idle]
    BY <1>5 DEF LookEarly, ClaimNothing, ClaimConflict, SettleConflict, TransactionFails,
       WorkerCrash, Acknowledge, RejectDelivery
  <2>3. PhaseMap' = PhaseMap /\ CoolMap' = CoolMap /\ AttemptMap' = AttemptMap
    BY <2>2, RowsKept, CoolKept
  <2>4. worker'[w].pc # "looked" /\ \A v \in Workers \ {w} : SameHands(v)
    BY <2>2 DEF SameHands, Idle, At
  <2>5. CASE worker[w].pc = "looked"
    <3>1. Contract!Leave(w, e)
      BY <2>1, <2>4, <2>5, Leaves DEF Looking
    <3>2. Contract!Withdraw(w, e)
      BY <2>3, <3>1 DEF Contract!Withdraw, PhaseMap, CoolMap, AttemptMap
    <3> QED
      BY <3>2 DEF Contract!CNext
  <2>6. CASE worker[w].pc # "looked"
    BY <2>3, <2>4, <2>6, AdmitKept
  <2> QED
    BY <2>5, <2>6
<1>6. ASSUME NEW w \in Workers,
             \/ \E e \in Events : Receive(w, e)
             \/ \E outcome \in {"succeeded", "unroutable", "raised"} : Handle(w, outcome)
      PROVE  Same
  <2>1. outbox' = outbox /\ inbox' = inbox
    BY <1>6 DEF Receive, Handle
  <2>2. /\ worker[w].pc # "looked" /\ worker'[w].pc # "looked"
        /\ \A v \in Workers \ {w} : SameHands(v)
    BY <1>6 DEF Receive, Handle, At, SameHands, WorkerState
  <2> QED
    BY <2>1, <2>2, RowsKept, CoolKept, AdmitKept
<1>7. ASSUME NEW w \in Workers, MarkProcessed(w) \/ MarkPermanentFailed(w)
      PROVE  Goal
  <2> DEFINE e == worker[w].event
  <2>1. outbox' = outbox /\ worker' = [worker EXCEPT ![w] = Idle]
    BY <1>7 DEF MarkProcessed, MarkPermanentFailed, Acknowledge
  <2>2. worker'[w].pc # "looked" /\ \A v \in Workers \ {w} : SameHands(v)
    BY <2>1 DEF SameHands, Idle, At
  <2>3. CoolMap' = CoolMap
    BY <2>1, CoolKept
  <2>4. CASE MarkProcessed(w)
    <3>1. /\ e \in Events /\ Contract!Move(e, {"handling"}, "processed")
          /\ AttemptMap' = AttemptMap /\ AdmitMap' = AdmitMap
      BY <2>1, <2>2, <2>4, Settles DEF MarkProcessed
    <3>2. Contract!Succeed(e)
      BY <2>3, <3>1 DEF Contract!Succeed, CoolMap, AdmitMap, AttemptMap
    <3> QED
      BY <3>1, <3>2 DEF Contract!CNext
  <2>5. CASE MarkPermanentFailed(w)
    <3>1. /\ e \in Events /\ Contract!Move(e, {"handling"}, "dead")
          /\ AttemptMap' = AttemptMap /\ AdmitMap' = AdmitMap
      BY <2>1, <2>2, <2>5, Settles DEF MarkPermanentFailed
    <3>2. Contract!Bury(e)
      BY <2>3, <3>1 DEF Contract!Bury, CoolMap, AdmitMap, AttemptMap
    <3> QED
      BY <3>1, <3>2 DEF Contract!CNext
  <2> QED
    BY <1>7, <2>4, <2>5
<1>8. ASSUME NEW w \in Workers, NEW delay \in 1..MaxDelay, ScheduleRetry(w, delay)
      PROVE  Goal
  <2>1. PICK e \in Events : e = worker[w].event
    BY <1>8, BusyEvent DEF ScheduleRetry
  <2>2. outbox[e].stored /\ outbox' = [outbox EXCEPT ![e] = UnlockedRow(FALSE, delay)]
    BY <1>8, <2>1 DEF ScheduleRetry, DueRows
  <2>3. worker'[w].pc # "looked" /\ \A v \in Workers \ {w} : SameHands(v)
    BY <1>8, <2>1, OvertakeKeeps DEF ScheduleRetry, SameHands, Idle, At
  <2>4. \A f \in Events : outbox'[f].stored = outbox[f].stored
    BY <2>2 DEF UnlockedRow
  <2>5. /\ Contract!Move(e, {"handling"}, "waiting")
        /\ AttemptMap' = AttemptMap /\ AdmitMap' = AdmitMap
    BY <1>8, <2>1, <2>3, <2>4, Settles DEF ScheduleRetry
  <2>6. CoolMap' = CoolMap \cup {e}
    <3>1. outbox'[e].availableIn > 0 /\ \A f \in Events \ {e} : outbox'[f] = outbox[f]
      BY <2>2 DEF UnlockedRow
    <3> QED
      BY <3>1 DEF CoolMap
  <2>7. Contract!Retry(e)
    BY <2>5, <2>6 DEF Contract!Retry, CoolMap, AdmitMap, AttemptMap
  <2> QED
    BY <2>7 DEF Contract!CNext
<1>9. ASSUME NEW d \in Dispatchers, NEW c \in dispatcher[d], NEW delay \in 1..MaxDelay,
             MarkPublishFailed(d, c, delay)
      PROVE  Goal
  <2>1. PICK e \in Events : e = c.event
    BY ClaimTypes
  <2>2. outbox[e].stored /\ outbox' = [outbox EXCEPT ![e] = UnlockedRow(FALSE, delay)]
    BY <1>9, <2>1 DEF MarkPublishFailed, DueRows
  <2>3. PhaseMap[e] # "absent"
    BY <2>2, PhaseOfStored DEF PhaseMap
  <2>4. PhaseMap' = PhaseMap /\ AttemptMap' = AttemptMap
    <3>1. inbox' = inbox
      BY <1>9 DEF MarkPublishFailed
    <3>2. \A f \in Events : outbox'[f].stored = outbox[f].stored
      BY <2>2 DEF UnlockedRow
    <3> QED
      BY <3>1, <3>2, RowsKept
  <2>5. AdmitMap' = AdmitMap
    BY <1>9, <2>1, OvertakeKeeps, AdmitKept DEF MarkPublishFailed, SameHands
  <2>6. CoolMap' = CoolMap \cup {e}
    <3>1. outbox'[e].availableIn > 0 /\ \A f \in Events \ {e} : outbox'[f] = outbox[f]
      BY <2>2 DEF UnlockedRow
    <3> QED
      BY <3>1 DEF CoolMap
  <2>7. Contract!Postpone(e)
    BY <2>3, <2>4, <2>5, <2>6
       DEF Contract!Postpone, PhaseMap, CoolMap, AdmitMap, AttemptMap
  <2> QED
    BY <2>7 DEF Contract!CNext
<1>10. CASE Tick
  <2>1. /\ \A e \in Events : /\ outbox'[e].stored = outbox[e].stored
                             /\ inbox'[e].status = inbox[e].status
                             /\ inbox'[e].deliveryAttempts = inbox[e].deliveryAttempts
    BY <1>10 DEF Tick
  <2>2. PhaseMap' = PhaseMap /\ AttemptMap' = AttemptMap
    BY <2>1 DEF PhaseMap, AttemptMap, Phase
  <2>3. CoolMap' \in SUBSET CoolMap
    <3>1. \A e \in Events : /\ outbox[e].availableIn \in Nat
                            /\ outbox'[e].availableIn = Elapse(outbox[e].availableIn)
      BY <1>10 DEF Tick, OutboxRow
    <3>2. \A e \in Events : outbox'[e].availableIn > 0 => outbox[e].availableIn > 0
      BY <3>1 DEF Elapse
    <3> QED
      BY <3>2 DEF CoolMap
  <2>4. AdmitMap' = AdmitMap
    <3>1. \A w \in Workers : SameHands(w)
      BY <1>10, AgeKeeps DEF Tick, SameHands
    <3> QED
      BY <3>1, AdmitKept
  <2>5. Contract!CoolDown
    BY <2>2, <2>3, <2>4 DEF Contract!CoolDown, PhaseMap, CoolMap, AdmitMap, AttemptMap
  <2> QED
    BY <2>5 DEF Contract!CNext
<1>11. ASSUME inbox' = inbox, worker' = worker,
              \A e \in Events : /\ outbox'[e].stored = outbox[e].stored
                                /\ outbox'[e].availableIn = outbox[e].availableIn
       PROVE  Same
  BY <1>11, RowsKept, CoolKept, AdmitKept DEF SameHands
<1>12. ASSUME NEW d \in Dispatchers, NEW batch \in SUBSET Events,
              NEW token \in [batch -> Tokens], ClaimReady(d, batch, token)
       PROVE  Same
  <2>1. \A e \in Events : /\ outbox'[e].stored = outbox[e].stored
                          /\ outbox'[e].availableIn = outbox[e].availableIn
    BY <1>12 DEF ClaimReady, LockedRow, Ready
  <2> QED
    BY <1>11, <1>12, <2>1 DEF ClaimReady
<1>13. ASSUME NEW d \in Dispatchers, NEW c \in dispatcher[d], MarkPublished(d, c)
       PROVE  Same
  <2>1. \A e \in Events : /\ outbox'[e].stored = outbox[e].stored
                          /\ outbox'[e].availableIn = outbox[e].availableIn
    BY <1>13, ClaimTypes DEF MarkPublished, UnlockedRow, DueRows
  <2> QED
    BY <1>11, <1>13, <2>1 DEF MarkPublished
<1>14. ASSUME NEW d \in Dispatchers,
              \/ DispatcherCrash(d)
              \/ \E c \in dispatcher[d] :
                    \/ PublishConfirmed(d, c)
                    \/ \E accepted \in BOOLEAN : PublishRefused(d, c, accepted)
                    \/ MarkPublishedConflict(d, c)
                    \/ MarkPublishFailedConflict(d, c)
       PROVE  Same
  BY <1>11, <1>14 DEF DispatcherCrash, PublishConfirmed, PublishRefused,
     MarkPublishedConflict, MarkPublishFailedConflict
<1>15. CASE UNCHANGED vars
  BY <1>11, <1>15 DEF vars
<1> QED
  BY <1>1, <1>2, <1>3, <1>4, <1>5, <1>6, <1>7, <1>8, <1>9, <1>10, <1>12,
     <1>13, <1>14, <1>15 DEF Next, FaultFree, Fault, DispatcherStep, WorkerStep

\* The transport implements DeliveryContract.
THEOREM TransportKeepsContract == Spec => KeepsContract
<1>1. Init => Contract!CInit
  BY DEF Init, Contract!CInit, Phase, Looking, Idle, At
<1>2. SafetyInv /\ [Next]_vars => [Contract!CNext]_Contract!cvars
  BY ContractStep DEF Contract!cvars, PhaseMap, CoolMap, AdmitMap, AttemptMap
<1> QED
  BY <1>1, <1>2, SafetyInvariant, PTL DEF Spec, KeepsContract, Contract!CSpec
=============================================================================
