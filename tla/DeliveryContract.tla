-------------------------- MODULE DeliveryContract --------------------------
(***************************************************************************)
(* What the transport promises to the code that stores events and to the   *)
(* handlers: a stored event is started at most MaxAttempts times, and      *)
(* settled at most once, as processed or as dead.  Every start belongs to  *)
(* a claimant that was admitted while the event was due; the admission     *)
(* outlives a delay recorded after it, so a start may still fall into that *)
(* delay, but nobody is admitted during one.  Brokers, locks, leases and   *)
(* tokens do not appear here.                                              *)
(***************************************************************************)
EXTENDS Naturals

CONSTANTS Events, Claimants, MaxAttempts

VARIABLES
    phase,     \* where each event is in its life
    cooling,   \* the events that are not due yet
    admitted,  \* the events each claimant was admitted to and has not claimed
    attempts   \* how often each event's handler was started

cvars == <<phase, cooling, admitted, attempts>>

CInit ==
    /\ phase = [e \in Events |-> "absent"]
    /\ cooling = {}
    /\ admitted = [c \in Claimants |-> {}]
    /\ attempts = [e \in Events |-> 0]

Move(e, from, to) == phase[e] \in from /\ phase' = [phase EXCEPT ![e] = to]

Leave(c, e) == e \in admitted[c] /\ admitted' = [admitted EXCEPT ![c] = @ \ {e}]

Store(e) ==
    /\ Move(e, {"absent"}, "waiting")
    /\ cooling' \in {cooling, cooling \cup {e}}
    /\ UNCHANGED <<admitted, attempts>>

Admit(c, e) ==
    /\ phase[e] # "absent" /\ e \notin cooling
    /\ admitted' = [admitted EXCEPT ![c] = {e}]
    /\ UNCHANGED <<phase, cooling, attempts>>

Withdraw(c, e) == Leave(c, e) /\ UNCHANGED <<phase, cooling, attempts>>

\* A handling that lost its lease may be started again.
Start(c, e) ==
    /\ Leave(c, e)
    /\ Move(e, {"waiting", "handling"}, "handling")
    /\ attempts[e] < MaxAttempts
    /\ attempts' = [attempts EXCEPT ![e] = @ + 1]
    /\ UNCHANGED cooling

Exhaust(c, e) ==
    /\ Leave(c, e)
    /\ Move(e, {"waiting", "handling"}, "dead")
    /\ attempts[e] = MaxAttempts
    /\ UNCHANGED <<cooling, attempts>>

Succeed(e) == Move(e, {"handling"}, "processed") /\ UNCHANGED <<cooling, admitted, attempts>>
Bury(e) == Move(e, {"handling"}, "dead") /\ UNCHANGED <<cooling, admitted, attempts>>

Retry(e) ==
    /\ Move(e, {"handling"}, "waiting")
    /\ cooling' = cooling \cup {e}
    /\ UNCHANGED <<admitted, attempts>>

\* A failed publication is repeated later.
Postpone(e) ==
    /\ phase[e] # "absent"
    /\ cooling' = cooling \cup {e}
    /\ UNCHANGED <<phase, admitted, attempts>>

\* Time passes for all events at once.
CoolDown ==
    /\ cooling' \in SUBSET cooling
    /\ UNCHANGED <<phase, admitted, attempts>>

CNext ==
    \/ \E e \in Events : Store(e) \/ Succeed(e) \/ Bury(e) \/ Retry(e) \/ Postpone(e)
    \/ \E c \in Claimants, e \in Events :
          Admit(c, e) \/ Withdraw(c, e) \/ Start(c, e) \/ Exhaust(c, e)
    \/ CoolDown

CSpec == CInit /\ [][CNext]_cvars
=============================================================================
