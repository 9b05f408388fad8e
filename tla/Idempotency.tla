----------------------------- MODULE Idempotency -----------------------------
(***************************************************************************)
(* The commands of the record services (catalog, prompt registry, brand    *)
(* profiles, provider control plane, model router).  Each is one database  *)
(* transaction under READ COMMITTED: it claims an idempotency key, locks   *)
(* the rows it decides upon one statement after the other, and commits     *)
(* rows and key together, or leaves nothing.  Rows stay locked until the   *)
(* transaction ends, but what it decides upon is what it read when it      *)
(* locked them: t.view.  A client may repeat a command with its key, at    *)
(* the same time or later, and may use the key again for another command.  *)
(***************************************************************************)
EXTENDS Naturals, FiniteSets, Sequences, Bags, TLC

CONSTANTS
    Clients,     \* connections, one transaction at a time each
    Keys,        \* idempotency keys; a key also names the entity it creates
    None

ASSUME IdempotencyAssumption ==
    /\ None \notin Clients \cup Keys /\ Keys # {} /\ Clients # {}

VARIABLES
    record,    \* the committed idempotency records, all COMPLETED
    tx,        \* the open transaction of each client
    applied,   \* how often the command of a key has taken effect
    starts     \* commands sent so far: the time

idempotencyVars == <<record, tx, applied, starts>>
-----------------------------------------------------------------------------
Idle == [key |-> None, request |-> None, locks |-> {}, view |-> <<>>, time |-> 0]

Open(c) == tx[c].request # None

IdempotencyInit ==
    /\ record = {} /\ tx = [c \in Clients |-> Idle]
    /\ applied = EmptyBag /\ starts = 0

(* A request names its operation, the scope of its key, the entity it      *)
(* changes, a value and the version the client has seen.                   *)
Request(op, scope, target, arg, version) ==
    [op |-> op, scope |-> <<scope, target>>, target |-> target, arg |-> arg, version |-> version]

(* The time of a command is read when it starts, before it waits for a row. *)
Begin(c, k, r) ==
    /\ ~Open(c)
    /\ tx' = [tx EXCEPT ![c] = [key |-> k, request |-> r, locks |-> {}, view |-> <<>>, time |-> starts]]
    /\ starts' = starts + 1
    /\ UNCHANGED <<record, applied>>

(* A worker handles a delivered event: no key, and the time is read late. *)
Deliver(c, r) ==
    /\ ~Open(c)
    /\ tx' = [tx EXCEPT ![c].request = r]
    /\ UNCHANGED <<record, applied, starts>>

KeyRow(t) == <<"key", t.key, t.request.scope>>

RecordOf(t) == {x \in record : x.key = t.key /\ x.scope = t.request.scope}

Free(c, row) == \A d \in Clients \ {c} : row \notin tx[d].locks

(* What a transaction knows: the rows it has read, each as it first read it. *)
Knowing(view, row, value) ==
    [x \in DOMAIN view \cup {row} |-> IF x \in DOMAIN view THEN view[x] ELSE value]

(* SELECT *)
Look(c, row, value) ==
    /\ tx' = [tx EXCEPT ![c].view = Knowing(@, row, value)]
    /\ UNCHANGED <<record, applied, starts>>

(* SELECT ... FOR UPDATE of a row that exists, or INSERT *)
Lock(c, row, value) ==
    /\ Free(c, row)
    /\ tx' = [tx EXCEPT ![c].locks = @ \cup {row}, ![c].view = Knowing(@, row, value)]
    /\ UNCHANGED <<record, applied, starts>>

(* SELECT ... FOR UPDATE: a row that does not exist is not locked. *)
LockRow(c, row, value) == IF value = None THEN Look(c, row, value) ELSE Lock(c, row, value)

(* Mutant: the key is looked up, not inserted and locked. *)
LookUpKey(c) == Look(c, KeyRow(tx[c]), RecordOf(tx[c]))

(* Insert the key or wait for the transaction that has inserted it, then   *)
(* read it.                                                                *)
Claim(c) == Lock(c, KeyRow(tx[c]), RecordOf(tx[c]))

(* What a transaction reads next of the rows of its operation: the first   *)
(* that it has not read.                                                   *)
Owing(t, rows) ==
    {rows[i] : i \in {k \in DOMAIN rows : /\ rows[k] \notin DOMAIN t.view
                                         /\ \A j \in DOMAIN rows : j < k => rows[j] \in DOMAIN t.view}}

HasRead(t, rows) == \A i \in DOMAIN rows : rows[i] \in DOMAIN t.view

(* A completed or differing record of the key ends the command: the stored *)
(* answer is given again, or the key is refused.                           *)
Answered(t) == KeyRow(t) \in DOMAIN t.view /\ t.view[KeyRow(t)] # {}

Granted(c, op, rows) ==
    /\ Open(c) /\ tx[c].request.op = op
    /\ HasRead(tx[c], rows) /\ ~Answered(tx[c])

(* Complete the key and commit. *)
Commit(c) ==
    LET t == tx[c] IN
    /\ record' = record \cup {[key |-> t.key, scope |-> t.request.scope, request |-> t.request]}
    /\ applied' = applied (+) SetToBag({<<t.key, t.request.scope>>})
    /\ tx' = [tx EXCEPT ![c] = Idle]
    /\ UNCHANGED starts

(* End the transaction without a key: a rollback because the stored answer *)
(* was given again, the request was refused or the command died, or the    *)
(* commit of an event handler.                                             *)
Leave(c) ==
    /\ Open(c)
    /\ tx' = [tx EXCEPT ![c] = Idle]
    /\ UNCHANGED <<record, applied, starts>>

(* c waits for a row that d has locked. *)
WaitsFor(c, d, rows) ==
    /\ c # d /\ Open(c) /\ ~Answered(tx[c])
    /\ Owing(tx[c], rows) \cap tx[d].locks # {}
-----------------------------------------------------------------------------
(* Why it works *)

(* A client without a command holds and knows nothing. *)
TxForm ==
    /\ DOMAIN tx = Clients /\ starts \in Nat
    /\ \A c \in Clients :
          /\ DOMAIN tx[c] = DOMAIN Idle /\ tx[c].time \in Nat
          /\ ~Open(c) => tx[c].locks = {} /\ tx[c].view = <<>>

LocksApart == \A c, d \in Clients : c # d => tx[c].locks \cap tx[d].locks = {}

(* What a transaction has read of its key is what the table still holds. *)
KeyHeld(c) ==
    Open(c) /\ KeyRow(tx[c]) \in DOMAIN tx[c].view =>
        KeyRow(tx[c]) \in tx[c].locks /\ tx[c].view[KeyRow(tx[c])] = RecordOf(tx[c])

(* A row that t has found is locked, and still as t has read it. *)
StillSo(t, row, value) ==
    row \in DOMAIN t.view /\ t.view[row] # None => row \in t.locks /\ t.view[row] = value

(* A command takes effect at most once per key, and exactly when its key   *)
(* answers for it from then on, however often it is repeated, at the same  *)
(* time or after a lost answer (IdempotencyRepository.claim and complete). *)
OnceEach ==
    /\ applied = SetToBag({<<x.key, x.scope>> : x \in record})
    /\ \A x, y \in record : x.key = y.key /\ x.scope = y.scope => x = y

TxInv == TxForm /\ LocksApart /\ (\A c \in Clients : KeyHeld(c)) /\ OnceEach
=============================================================================
