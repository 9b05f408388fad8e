----------------------------- MODULE Messaging -----------------------------
(***************************************************************************)
(* The transport of CommerceVision: a transactional Outbox in MySQL, the   *)
(* scheduler's OutboxDispatcher that publishes its rows to RabbitMQ, the   *)
(* Celery workers that consume the deliveries through the Inbox, and the   *)
(* dead-letter table.                                                      *)
(*                                                                         *)
(* Every action is one database transaction or one step between two        *)
(* transactions.  Time is kept as countdowns: a column that holds an       *)
(* instant (available_at, locked_until, lease_expires_at) is modelled by   *)
(* the time left until it, 0 once it has passed, and Tick lets one unit    *)
(* elapse.  Tokens are only ever compared with the token of the same row,  *)
(* so a fresh uuid7 is any token the row's claimants no longer remember.   *)
(***************************************************************************)
EXTENDS Naturals, FiniteSets

CONSTANTS
    Events,               \* outbox_events.id
    NoEvent,              \* the event of a worker without a delivery
    Dispatchers,          \* processes running OutboxDispatcher.dispatch_once
    Workers,              \* Celery pool processes
    Tokens,               \* values of lock_token and lease_token
    NoToken,              \* a NULL token
    MaxDeliveryAttempts,  \* InboxCoordinator._max_attempts
    BatchSize,            \* OutboxDispatcher._batch_size
    LockLease,            \* OutboxDispatcher._lease_duration
    InboxLease,           \* InboxCoordinator._lease_duration
    MaxDelay,             \* longest backoff of a publication or of a retry
    MaxCopies             \* bound: copies of one message in the transport

ASSUME MessagingAssumption ==
    /\ NoEvent \notin Events
    /\ NoToken \notin Tokens
    /\ MaxDeliveryAttempts \in Nat \ {0}
    /\ BatchSize \in Nat \ {0}
    /\ LockLease \in Nat \ {0}
    /\ InboxLease \in Nat \ {0}
    /\ MaxDelay \in Nat \ {0}
    /\ MaxCopies \in Nat \ {0}

VARIABLES
    outbox,       \* the outbox_events rows
    inbox,        \* the inbox_messages rows of the one consumer
    deadLetters,  \* the messages that have a dead_letter_messages row
    queue,        \* ready copies of each message in the broker
    dispatcher,   \* the claims each dispatcher has not yet disposed of
    worker,       \* the delivery each worker holds unacknowledged
    discarded     \* history: events the broker discarded a delivery of since
                  \* they were last published

vars == <<outbox, inbox, deadLetters, queue, dispatcher, worker, discarded>>

-----------------------------------------------------------------------------
(* State *)

Elapse(n) == IF n > 0 THEN n - 1 ELSE 0

OutboxRow ==
    [stored      : BOOLEAN,
     published   : BOOLEAN,               \* published_at is not NULL
     availableIn : 0..MaxDelay,           \* until available_at
     lockToken   : Tokens \cup {NoToken},
     lockedFor   : 0..LockLease]          \* until locked_until

UnlockedRow(published, delay) ==
    [stored |-> TRUE, published |-> published, availableIn |-> delay,
     lockToken |-> NoToken, lockedFor |-> 0]

LockedRow(token) ==
    [stored |-> TRUE, published |-> FALSE, availableIn |-> 0,
     lockToken |-> token, lockedFor |-> LockLease]

InboxStatus == {"NONE", "PROCESSING", "PROCESSED", "FAILED", "DEAD"}

InboxRow ==
    [status           : InboxStatus,      \* NONE: no row yet
     leaseToken       : Tokens \cup {NoToken},
     leaseFor         : 0..InboxLease,    \* until lease_expires_at
     deliveryAttempts : 0..MaxDeliveryAttempts]

\* One event of the list claim_ready returned.  advanced: the available_at of
\* the row has moved past the value that was read together with the claim.
Claim ==
    [event    : Events,
     token    : Tokens,
     stage    : {"claimed", "confirmed", "refused"},
     advanced : BOOLEAN]

\* looked: InboxCoordinator.claim has read the clock and the Outbox row, and
\* does not yet have the Inbox row.  age: how old that reading of the clock is.
\* overtaken (history): available_at moved into the future after the look.
WorkerState ==
    [pc        : {"idle", "claim", "looked", "handle", "succeeded", "unroutable", "raised"},
     event     : Events \cup {NoEvent},
     token     : Tokens \cup {NoToken},
     age       : 0..InboxLease,
     overtaken : BOOLEAN]

At(pc, e, t) == [pc |-> pc, event |-> e, token |-> t, age |-> 0, overtaken |-> FALSE]

Idle == At("idle", NoEvent, NoToken)

Looking(w, e) == worker[w].pc = "looked" /\ worker[w].event = e

Init ==
    /\ outbox = [e \in Events |->
          [stored |-> FALSE, published |-> FALSE, availableIn |-> 0,
           lockToken |-> NoToken, lockedFor |-> 0]]
    /\ inbox = [e \in Events |->
          [status |-> "NONE", leaseToken |-> NoToken, leaseFor |-> 0,
           deliveryAttempts |-> 0]]
    /\ deadLetters = {}
    /\ queue = [e \in Events |-> 0]
    /\ dispatcher = [d \in Dispatchers |-> {}]
    /\ worker = [w \in Workers |-> Idle]
    /\ discarded = {}

\* A producer's transaction stores an event, due now or after a backoff.
Add(e, delay) ==
    /\ ~outbox[e].stored
    /\ outbox' = [outbox EXCEPT ![e] = UnlockedRow(FALSE, delay)]
    /\ UNCHANGED <<inbox, deadLetters, queue, dispatcher, worker, discarded>>

-----------------------------------------------------------------------------
(* The scheduler: OutboxDispatcher over OutboxRepository *)

\* Mutant: a lock that a dead dispatcher left behind is never taken over.
ReadyOnlyUnlocked(e) ==
    /\ outbox[e].stored
    /\ ~outbox[e].published
    /\ outbox[e].availableIn = 0
    /\ outbox[e].lockToken = NoToken

Ready(e) ==
    /\ outbox[e].stored
    /\ ~outbox[e].published
    /\ outbox[e].availableIn = 0
    /\ outbox[e].lockedFor = 0

LockTokensOf(e) ==
    {outbox[e].lockToken} \cup
    {c.token : c \in {b \in UNION {dispatcher[d] : d \in Dispatchers} : b.event = e}}

FreshLock(e, t) == t \in Tokens /\ t \notin LockTokensOf(e)

\* SKIP LOCKED may hide rows of a concurrent transaction, so the batch is any
\* non-empty part of the ready rows within the limit.
ClaimReady(d, batch, token) ==
    /\ dispatcher[d] = {}
    /\ batch # {} /\ Cardinality(batch) <= BatchSize
    /\ \A e \in batch : Ready(e) /\ FreshLock(e, token[e])
    /\ outbox' = [e \in Events |->
          IF e \in batch THEN LockedRow(token[e]) ELSE outbox[e]]
    /\ dispatcher' = [dispatcher EXCEPT ![d] =
          {[event |-> e, token |-> token[e], stage |-> "claimed", advanced |-> FALSE] :
              e \in batch}]
    /\ UNCHANGED <<inbox, deadLetters, queue, worker, discarded>>

\* The loop of dispatch_once handles one event at a time.
Current(d, c) ==
    /\ c \in dispatcher[d]
    /\ \A b \in dispatcher[d] : b # c => b.stage = "claimed"

Restage(d, c, stage) ==
    dispatcher' = [dispatcher EXCEPT ![d] = (@ \ {c}) \cup {[c EXCEPT !.stage = stage]}]

Copies(e) == queue[e] + Cardinality({w \in Workers : worker[w].event = e})

\* publish_event returned: the broker confirmed the message.
PublishConfirmed(d, c) ==
    /\ Current(d, c) /\ c.stage = "claimed"
    /\ Copies(c.event) < MaxCopies
    /\ queue' = [queue EXCEPT ![c.event] = @ + 1]
    /\ discarded' = discarded \ {c.event}
    /\ Restage(d, c, "confirmed")
    /\ UNCHANGED <<outbox, inbox, deadLetters, worker>>

\* publish_event raised.  The broker may have accepted the message all the
\* same when only the confirmation was lost.
PublishRefused(d, c, accepted) ==
    /\ Current(d, c) /\ c.stage = "claimed"
    /\ accepted => Copies(c.event) < MaxCopies
    /\ queue' = [queue EXCEPT ![c.event] = IF accepted THEN @ + 1 ELSE @]
    /\ discarded' = IF accepted THEN discarded \ {c.event} ELSE discarded
    /\ Restage(d, c, "refused")
    /\ UNCHANGED <<outbox, inbox, deadLetters, worker>>

\* Mutant: the update is not fenced by lock_token.
HoldsLockUnfenced(c) == ~outbox[c.event].published

HoldsLock(c) == outbox[c.event].lockToken = c.token /\ ~outbox[c.event].published

\* The row's available_at moves into the future: every claim that read the
\* old value sees it advanced, and a worker that has looked does not.
AdvanceClaims(claims, e) ==
    {IF b.event = e THEN [b EXCEPT !.advanced = TRUE] ELSE b : b \in claims}

OvertakeLooks(e) ==
    [w \in Workers |->
        IF Looking(w, e) THEN [worker[w] EXCEPT !.overtaken = TRUE] ELSE worker[w]]

MarkPublished(d, c) ==
    /\ Current(d, c) /\ c.stage = "confirmed"
    /\ HoldsLock(c)
    /\ outbox' = [outbox EXCEPT ![c.event] = UnlockedRow(TRUE, @.availableIn)]
    /\ dispatcher' = [dispatcher EXCEPT ![d] = @ \ {c}]
    /\ UNCHANGED <<inbox, deadLetters, queue, worker, discarded>>

\* The lock is gone: tolerated when a retry has rescheduled the row, else
\* LeaseConflictError leaves dispatch_once and abandons the batch.
MarkPublishedConflict(d, c) ==
    /\ Current(d, c) /\ c.stage = "confirmed"
    /\ ~HoldsLock(c)
    /\ dispatcher' = [dispatcher EXCEPT ![d] = IF c.advanced THEN @ \ {c} ELSE {}]
    /\ UNCHANGED <<outbox, inbox, deadLetters, queue, worker, discarded>>

MarkPublishFailed(d, c, delay) ==
    /\ Current(d, c) /\ c.stage = "refused"
    /\ HoldsLock(c)
    /\ outbox' = [outbox EXCEPT ![c.event] = UnlockedRow(FALSE, delay)]
    /\ dispatcher' = [x \in Dispatchers |->
          AdvanceClaims(IF x = d THEN dispatcher[x] \ {c} ELSE dispatcher[x], c.event)]
    /\ worker' = OvertakeLooks(c.event)
    /\ UNCHANGED <<inbox, deadLetters, queue, discarded>>

\* LeaseConflictError of mark_publish_failed is not caught.
MarkPublishFailedConflict(d, c) ==
    /\ Current(d, c) /\ c.stage = "refused"
    /\ ~HoldsLock(c)
    /\ dispatcher' = [dispatcher EXCEPT ![d] = {}]
    /\ UNCHANGED <<outbox, inbox, deadLetters, queue, worker, discarded>>

\* The process dies, or one of its transactions fails, between two steps.
DispatcherCrash(d) ==
    /\ dispatcher[d] # {}
    /\ dispatcher' = [dispatcher EXCEPT ![d] = {}]
    /\ UNCHANGED <<outbox, inbox, deadLetters, queue, worker, discarded>>

-----------------------------------------------------------------------------
(* The worker: process_event over InboxCoordinator and InboxRepository *)

\* Late acknowledgement: the delivery stays with the worker until it settles.
Receive(w, e) ==
    /\ worker[w].pc = "idle"
    /\ queue[e] > 0
    /\ queue' = [queue EXCEPT ![e] = @ - 1]
    /\ worker' = [worker EXCEPT ![w] = At("claim", e, NoToken)]
    /\ UNCHANGED <<outbox, inbox, deadLetters, dispatcher, discarded>>

Acknowledge(w) == worker' = [worker EXCEPT ![w] = Idle]

\* process_event raised.  With task_acks_on_failure_or_timeout=False Celery
\* rejects the delivery without requeueing it, and no dead-letter exchange is
\* declared: the broker discards the copy.
RejectDelivery(w) ==
    /\ worker' = [worker EXCEPT ![w] = Idle]
    /\ discarded' = discarded \cup {worker[w].event}

RetryNotReady(e) == ~outbox[e].published /\ outbox[e].availableIn > 0

Settled(e) == inbox[e].status \in {"PROCESSED", "DEAD"}

LeaseLive(e) == inbox[e].status = "PROCESSING" /\ inbox[e].leaseFor > 0

LeaseTokensOf(e) ==
    {inbox[e].leaseToken} \cup {worker[w].token : w \in {v \in Workers : worker[v].event = e}}

\* Mutant: the lease token is not a fresh uuid7.
AnyLease(e, t) == t \in Tokens

FreshLease(e, t) == t \in Tokens /\ t \notin LeaseTokensOf(e)

\* Mutant: the dead letter is forgotten.
ForgetDeadLetter(e) == UNCHANGED deadLetters

AddDeadLetter(e) == deadLetters' = deadLetters \cup {e}

\* InboxCoordinator.claim first reads the clock and, without a lock, the
\* Outbox row.
LookEarly(w) ==
    /\ worker[w].pc = "claim"
    /\ RetryNotReady(worker[w].event)
    /\ Acknowledge(w)
    /\ UNCHANGED <<outbox, inbox, deadLetters, queue, dispatcher, discarded>>

Look(w) ==
    LET e == worker[w].event IN
    /\ worker[w].pc = "claim"
    /\ ~RetryNotReady(e)
    /\ worker' = [worker EXCEPT ![w] = At("looked", e, NoToken)]
    /\ UNCHANGED <<outbox, inbox, deadLetters, queue, dispatcher, discarded>>

\* InboxRepository.claim then locks the Inbox row; it goes by the clock of the
\* look.  The message is settled:
ClaimNothing(w) ==
    LET e == worker[w].event IN
    /\ worker[w].pc = "looked"
    /\ Settled(e)
    /\ IF inbox[e].status = "DEAD" THEN AddDeadLetter(e) ELSE UNCHANGED deadLetters
    /\ Acknowledge(w)
    /\ UNCHANGED <<outbox, inbox, queue, dispatcher, discarded>>

\* Another worker's lease is live, or was when the clock was read:
\* LeaseConflictError.
ClaimConflict(w) ==
    LET e == worker[w].event IN
    /\ worker[w].pc = "looked"
    /\ inbox[e].status = "PROCESSING" /\ (inbox[e].leaseFor > 0 \/ worker[w].age > 0)
    /\ RejectDelivery(w)
    /\ UNCHANGED <<outbox, inbox, deadLetters, queue, dispatcher>>

\* The row gives its lease up.
Closed(row, status) ==
    [status |-> status, leaseToken |-> NoToken, leaseFor |-> 0,
     deliveryAttempts |-> row.deliveryAttempts]

Claimable(e) == ~Settled(e) /\ ~LeaseLive(e)

\* Mutant: one attempt too few.
BudgetLeftOneLess(e) == inbox[e].deliveryAttempts + 1 < MaxDeliveryAttempts

BudgetLeft(e) == inbox[e].deliveryAttempts < MaxDeliveryAttempts

ClaimExhausted(w) ==
    LET e == worker[w].event IN
    /\ worker[w].pc = "looked"
    /\ Claimable(e)
    /\ ~BudgetLeft(e)
    /\ inbox' = [inbox EXCEPT ![e] = Closed(@, "DEAD")]
    /\ AddDeadLetter(e)
    /\ Acknowledge(w)
    /\ UNCHANGED <<outbox, queue, dispatcher, discarded>>

ClaimMessage(w, t) ==
    LET e == worker[w].event IN
    /\ worker[w].pc = "looked"
    /\ Claimable(e)
    /\ BudgetLeft(e)
    /\ FreshLease(e, t)
    /\ inbox' = [inbox EXCEPT ![e] =
          [status |-> "PROCESSING", leaseToken |-> t, leaseFor |-> InboxLease - worker[w].age,
           deliveryAttempts |-> @.deliveryAttempts + 1]]
    /\ worker' = [worker EXCEPT ![w] = At("handle", e, t)]
    /\ UNCHANGED <<outbox, deadLetters, queue, dispatcher, discarded>>

\* The routed handler returns or raises; it owns its own transactions.
Handle(w, outcome) ==
    /\ worker[w].pc = "handle"
    /\ outcome \in {"succeeded", "unroutable", "raised"}
    /\ worker' = [worker EXCEPT ![w] = [@ EXCEPT !.pc = outcome]]
    /\ UNCHANGED <<outbox, inbox, deadLetters, queue, dispatcher, discarded>>

HoldsLease(w) ==
    LET e == worker[w].event IN
    inbox[e].leaseToken = worker[w].token /\ inbox[e].status = "PROCESSING"

Finish(e, status) == inbox' = [inbox EXCEPT ![e] = Closed(@, status)]

MarkProcessed(w) ==
    /\ worker[w].pc = "succeeded"
    /\ HoldsLease(w)
    /\ Finish(worker[w].event, "PROCESSED")
    /\ Acknowledge(w)
    /\ UNCHANGED <<outbox, deadLetters, queue, dispatcher, discarded>>

MarkPermanentFailed(w) ==
    /\ worker[w].pc = "unroutable"
    /\ HoldsLease(w)
    /\ Finish(worker[w].event, "DEAD")
    /\ AddDeadLetter(worker[w].event)
    /\ Acknowledge(w)
    /\ UNCHANGED <<outbox, queue, dispatcher, discarded>>

\* One transaction: the Inbox row fails and the Outbox row is due again later.
ScheduleRetry(w, delay) ==
    LET e == worker[w].event IN
    /\ worker[w].pc = "raised"
    /\ HoldsLease(w)
    /\ Finish(e, "FAILED")
    /\ outbox' = [outbox EXCEPT ![e] = UnlockedRow(FALSE, delay)]
    /\ dispatcher' = [d \in Dispatchers |-> AdvanceClaims(dispatcher[d], e)]
    /\ worker' = [OvertakeLooks(e) EXCEPT ![w] = Idle]
    /\ UNCHANGED <<deadLetters, queue, discarded>>

\* _finish matched no row: LeaseConflictError leaves process_event.
SettleConflict(w) ==
    /\ worker[w].pc \in {"succeeded", "unroutable", "raised"}
    /\ ~HoldsLease(w)
    /\ RejectDelivery(w)
    /\ UNCHANGED <<outbox, inbox, deadLetters, queue, dispatcher>>

\* A transaction of the coordinator cannot commit: the exception leaves
\* process_event.
TransactionFails(w) ==
    /\ worker[w].pc \in {"claim", "looked", "succeeded", "unroutable", "raised"}
    /\ RejectDelivery(w)
    /\ UNCHANGED <<outbox, inbox, deadLetters, queue, dispatcher>>

\* Mutant: without task_reject_on_worker_lost the delivery of a lost pool
\* process is acknowledged.
CrashAcknowledged(w) ==
    /\ worker[w].pc # "idle"
    /\ Acknowledge(w)
    /\ UNCHANGED <<outbox, inbox, deadLetters, queue, dispatcher, discarded>>

\* task_reject_on_worker_lost: the broker takes the delivery back.
WorkerCrash(w) ==
    /\ worker[w].pc # "idle"
    /\ queue' = [queue EXCEPT ![worker[w].event] = @ + 1]
    /\ worker' = [worker EXCEPT ![w] = Idle]
    /\ UNCHANGED <<outbox, inbox, deadLetters, dispatcher, discarded>>

-----------------------------------------------------------------------------

Tick ==
    /\ \/ \E e \in Events : outbox[e].availableIn + outbox[e].lockedFor + inbox[e].leaseFor > 0
       \/ \E w \in Workers : worker[w].pc = "looked" /\ worker[w].age < InboxLease
    /\ outbox' = [e \in Events |->
          [stored      |-> outbox[e].stored,
           published   |-> outbox[e].published,
           availableIn |-> Elapse(outbox[e].availableIn),
           lockToken   |-> outbox[e].lockToken,
           lockedFor   |-> Elapse(outbox[e].lockedFor)]]
    /\ inbox' = [e \in Events |->
          [status           |-> inbox[e].status,
           leaseToken       |-> inbox[e].leaseToken,
           leaseFor         |-> Elapse(inbox[e].leaseFor),
           deliveryAttempts |-> inbox[e].deliveryAttempts]]
    /\ worker' = [w \in Workers |->
          IF worker[w].pc = "looked" /\ worker[w].age < InboxLease
          THEN [worker[w] EXCEPT !.age = @ + 1] ELSE worker[w]]
    /\ UNCHANGED <<deadLetters, queue, dispatcher, discarded>>

DispatcherStep(d) ==
    \/ \E batch \in SUBSET Events : \E token \in [batch -> Tokens] :
          ClaimReady(d, batch, token)
    \/ \E c \in dispatcher[d] :
          \/ PublishConfirmed(d, c)
          \/ MarkPublished(d, c)
          \/ MarkPublishedConflict(d, c)
          \/ \E delay \in 1..MaxDelay : MarkPublishFailed(d, c, delay)
          \/ MarkPublishFailedConflict(d, c)

WorkerStep(w) ==
    \/ LookEarly(w)
    \/ Look(w)
    \/ ClaimNothing(w)
    \/ ClaimConflict(w)
    \/ ClaimExhausted(w)
    \/ \E t \in Tokens : ClaimMessage(w, t)
    \/ \E outcome \in {"succeeded", "unroutable", "raised"} : Handle(w, outcome)
    \/ MarkProcessed(w)
    \/ MarkPermanentFailed(w)
    \/ \E delay \in 1..MaxDelay : ScheduleRetry(w, delay)
    \/ SettleConflict(w)

Fault ==
    \/ \E d \in Dispatchers :
          \/ \E c \in dispatcher[d], accepted \in BOOLEAN : PublishRefused(d, c, accepted)
          \/ DispatcherCrash(d)
    \/ \E w \in Workers : TransactionFails(w) \/ WorkerCrash(w)

FaultFree ==
    \/ \E e \in Events, delay \in 0..MaxDelay : Add(e, delay)
    \/ \E d \in Dispatchers : DispatcherStep(d)
    \/ \E w \in Workers, e \in Events : Receive(w, e)
    \/ \E w \in Workers : WorkerStep(w)
    \/ Tick

Next == FaultFree \/ Fault

Spec == Init /\ [][Next]_vars

-----------------------------------------------------------------------------
(* Fairness: the scheduler's poll loop and every live Celery process keep   *)
(* taking steps and time passes.  Faults may strike at every step but not   *)
(* for ever: there is a point after which broker, database and processes    *)
(* stay up long enough.                                                     *)

Fairness ==
    /\ WF_vars(Tick)
    /\ \A d \in Dispatchers : SF_vars(DispatcherStep(d))
    /\ \A w \in Workers :
          /\ WF_vars(WorkerStep(w))
          /\ \A e \in Events : SF_vars(Receive(w, e))
    /\ <>[][FaultFree]_vars

FairSpec == Spec /\ Fairness

-----------------------------------------------------------------------------
(* Properties *)

\* Every row, claim and delivery has its type; in particular delivery_attempts
\* never exceeds the budget of InboxCoordinator, however often the broker
\* redelivers.
TypeOK ==
    /\ outbox \in [Events -> OutboxRow]
    /\ inbox \in [Events -> InboxRow]
    /\ deadLetters \subseteq Events
    /\ queue \in [Events -> Nat]
    /\ dispatcher \in [Dispatchers -> SUBSET Claim]
    /\ worker \in [Workers -> WorkerState]
    /\ discarded \subseteq Events

\* The lease token fences the handlers: of all the workers that still run a
\* handler for one message (a lease may have expired under any of them), at
\* most one can settle it.
SingleAuthority ==
    \A v, w \in Workers :
        /\ worker[v].token # NoToken /\ HoldsLease(v)
        /\ worker[w].token # NoToken /\ HoldsLease(w)
        /\ worker[v].event = worker[w].event
        => v = w

\* A message is in the dead-letter table exactly when its Inbox row is DEAD, so
\* no message is both processed and offered for replay, and none is dropped
\* without an operator seeing it.
DeadLetterMatchesInbox ==
    \A e \in Events : e \in deadLetters <=> inbox[e].status = "DEAD"

\* Nothing will ever bring the event to a handler again.
Lost(e) ==
    /\ outbox[e].published
    /\ ~Settled(e)
    /\ queue[e] = 0
    /\ \A w \in Workers : worker[w].event # e

\* An event is lost only where the broker discarded a delivery because the task
\* raised (a lease conflict, a transaction that could not commit): crashes of
\* dispatchers and workers, lost confirmations, expired locks and late settles
\* lose none.
NoLostEvent == \A e \in Events : Lost(e) => e \in discarded

\* What the Celery application's docstring and the reliability guide say of it
\* ("reliable at-least-once delivery"; the transport redelivers a message whose
\* retry could not be recorded): no event is lost.
AtLeastOnceDelivery == \A e \in Events : ~Lost(e)

\* A settled message stays settled: a duplicate delivery or a worker that lost
\* its lease never reopens it.
SettledIsFinal ==
    [][\A e \in Events : Settled(e) => inbox'[e].status = inbox[e].status]_vars

\* MySQL alone decides when a message is tried again.  A handler starts before
\* available_at only if its own claim had read the Outbox row before that
\* available_at was written, whatever duplicate deliveries wait and whichever
\* dispatcher still holds the lock of the earlier publication.
NoEarlyHandling ==
    [][\A e \in Events :
          inbox'[e].deliveryAttempts > inbox[e].deliveryAttempts =>
              \/ outbox[e].availableIn = 0
              \/ \E w \in Workers :
                    Looking(w, e) /\ worker[w].overtaken /\ worker'[w].pc = "handle"]_vars

\* Every stored event is in the end processed or dead-lettered, unless the
\* broker discards a delivery of it.
EventuallySettled ==
    \A e \in Events : outbox[e].stored ~> Settled(e) \/ e \in discarded

-----------------------------------------------------------------------------
(* The contract, and why the properties hold *)

Phase(e) ==
    CASE ~outbox[e].stored -> "absent"
      [] inbox[e].status = "PROCESSED" -> "processed"
      [] inbox[e].status = "DEAD" -> "dead"
      [] inbox[e].status = "PROCESSING" -> "handling"
      [] OTHER -> "waiting"

Contract == INSTANCE DeliveryContract WITH
    Claimants <- Workers,
    MaxAttempts <- MaxDeliveryAttempts,
    phase <- [e \in Events |-> Phase(e)],
    cooling <- {e \in Events : outbox[e].availableIn > 0},
    admitted <- [w \in Workers |-> {e \in Events : Looking(w, e)}],
    attempts <- [e \in Events |-> inbox[e].deliveryAttempts]

\* The dispatchers, the workers and the two tables together keep the contract
\* of DeliveryContract.
KeepsContract == Contract!CSpec

\* A busy worker has an event, and a token once it has claimed it.
WorkerShape ==
    \A w \in Workers :
        /\ worker[w].pc = "idle" <=> worker[w].event = NoEvent
        /\ worker[w].pc \in {"idle", "claim", "looked"} <=> worker[w].token = NoToken

\* No two workers remember the same token for one message.
DistinctLeases ==
    \A v, w \in Workers :
        /\ worker[v].token # NoToken
        /\ worker[v].token = worker[w].token
        /\ worker[v].event = worker[w].event
        => v = w

\* Only what is stored is published or claimed, and a row that is published or
\* locked is due.
DueRows ==
    \A e \in Events :
        /\ outbox[e].published \/ outbox[e].lockToken # NoToken =>
              outbox[e].availableIn = 0
        /\ ~outbox[e].stored =>
              /\ ~outbox[e].published
              /\ outbox[e].lockToken = NoToken
              /\ outbox[e].availableIn = 0
              /\ queue[e] = 0
              /\ inbox[e].status = "NONE"
              /\ \A w \in Workers : worker[w].event # e
              /\ \A d \in Dispatchers : \A c \in dispatcher[d] : c.event # e

\* Someone still owes the event a settlement, or a delivery was discarded.
Carried(e) ==
    \/ Settled(e)
    \/ queue[e] > 0
    \/ \E w \in Workers : worker[w].event = e
    \/ e \in discarded

\* A confirmed publication is carried until the claim that made it loses the lock.
ConfirmedIsCarried ==
    /\ \A e \in Events : outbox[e].published => Carried(e)
    /\ \A d \in Dispatchers : \A c \in dispatcher[d] :
          c.stage = "confirmed" /\ HoldsLock(c) => Carried(c.event)

SafetyInv == TypeOK /\ WorkerShape /\ DistinctLeases /\ DeadLetterMatchesInbox /\ DueRows

DeliveryInv == SafetyInv /\ ConfirmedIsCarried
=============================================================================
