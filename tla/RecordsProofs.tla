---------------------------- MODULE RecordsProofs ----------------------------
(***************************************************************************)
(* The record services, proved.  What they share comes first: a command    *)
(* holds its rows until it ends, so that what it read of them is still so  *)
(* when it commits.  Then each service adds what its decision rests on.    *)
(***************************************************************************)
EXTENDS Records, TLAPS

-----------------------------------------------------------------------------
(* What any command does to the transactions *)

\* It reads a row and locks some rows, none of which another transaction holds.
Takes(c, held, row, value) ==
  /\ Open(c)
  /\ \A d \in Clients \ {c} : held \cap tx[d].locks = {}
  /\ tx' = [tx EXCEPT ![c].locks = @ \cup held, ![c].view = Knowing(@, row, value)]
  /\ row = KeyRow(tx[c]) => row \in held /\ value = RecordOf(tx[c])
  /\ UNCHANGED <<record, applied, starts>>

Commits(c) ==
  /\ Open(c) /\ KeyRow(tx[c]) \in DOMAIN tx[c].view /\ tx[c].view[KeyRow(tx[c])] = {}
  /\ Commit(c)

\* It takes the row that it needs next, and locks nothing that ranks higher.
Reads(c, rows) ==
  \E row \in Owing(tx[c], rows) : \E held, value :
     Takes(c, held, row, value) /\ \A h \in held : Rank(h) <= Rank(row)

TxStep(c, rows) ==
  \/ \E k \in Keys : \E r : Begin(c, k, r)
  \/ \E r : Deliver(c, r)
  \/ Reads(c, rows)
  \/ Commits(c)
  \/ Leave(c)

\* One client's transaction changes; what it holds, nobody else does.
LEMMA OneTxMoves ==
  ASSUME TxForm, LocksApart, NEW c \in Clients, NEW t,
         tx' = [tx EXCEPT ![c] = t], DOMAIN t = DOMAIN Idle, t.time \in Nat, starts' \in Nat,
         t.request = None => t.locks = {} /\ t.view = <<>>,
         \A d \in Clients \ {c} : t.locks \cap tx[d].locks = {}
  PROVE  TxForm' /\ LocksApart' /\ tx'[c] = t /\ \A d \in Clients \ {c} : tx'[d] = tx[d]
<1>1. tx'[c] = t /\ \A d \in Clients \ {c} : tx'[d] = tx[d]
  BY DEF TxForm
<1>2. TxForm'
  BY <1>1 DEF TxForm, Open
<1>3. LocksApart'
  BY <1>1 DEF LocksApart
<1> QED
  BY <1>1, <1>2, <1>3

\* The others keep what they know of their keys, and a fresh one knows nothing.
LEMMA KeyHeldStays ==
  ASSUME NEW d \in Clients, KeyHeld(d), tx'[d] = tx[d], record' = record
  PROVE  KeyHeld(d)'
<1>1. KeyRow(tx[d])' = KeyRow(tx[d])
  BY DEF KeyRow
<1>2. RecordOf(tx[d])' = RecordOf(tx[d])
  BY DEF RecordOf
<1> QED
  BY <1>1, <1>2 DEF KeyHeld, Open

\* A transaction that has read nothing knows nothing of its key.
LEMMA KeyHeldFresh ==
  ASSUME NEW c \in Clients, tx'[c].view = <<>>
  PROVE  KeyHeld(c)'
<1>1. DOMAIN tx'[c].view = {}
  OBVIOUS
<1> QED
  BY <1>1 DEF KeyHeld

\* A command begins with no row and no knowledge.
LEMMA BeginKeeps ==
  ASSUME TxInv, NEW c \in Clients, NEW k, NEW r, Begin(c, k, r)
  PROVE  TxInv'
<1> DEFINE t == [key |-> k, request |-> r, locks |-> {}, view |-> <<>>, time |-> starts]
<1>1. /\ tx' = [tx EXCEPT ![c] = t] /\ starts' = starts + 1 /\ UNCHANGED <<record, applied>>
  BY DEF Begin
<1>2. DOMAIN t = DOMAIN Idle /\ t.time \in Nat /\ t.locks = {} /\ t.view = <<>> /\ starts' \in Nat
  BY <1>1 DEF Idle, TxInv, TxForm
<1> HIDE DEF t
<1>3. /\ t.request = None => t.locks = {} /\ t.view = <<>>
      /\ \A d \in Clients \ {c} : t.locks \cap tx[d].locks = {}
  BY <1>2
<1>4. TxForm /\ LocksApart
  BY DEF TxInv
<1>5. TxForm' /\ LocksApart' /\ tx'[c] = t /\ \A d \in Clients \ {c} : tx'[d] = tx[d]
  BY <1>1, <1>2, <1>3, <1>4, OneTxMoves
<1>6. OnceEach'
  BY <1>1 DEF OnceEach, TxInv
<1>7. \A d \in Clients : KeyHeld(d)'
  BY <1>1, <1>2, <1>5, KeyHeldStays, KeyHeldFresh DEF TxInv
<1> QED
  BY <1>5, <1>6, <1>7 DEF TxInv

\* Nor does an event that is delivered to its consumer.
LEMMA DeliverKeeps ==
  ASSUME TxInv, NEW c \in Clients, NEW r, Deliver(c, r)
  PROVE  TxInv'
<1>1. PICK t : t = [tx[c] EXCEPT !.request = r]
  OBVIOUS
<1>2. /\ tx' = [tx EXCEPT ![c] = t] /\ UNCHANGED <<record, applied, starts>>
  BY <1>1 DEF Deliver, TxInv, TxForm
<1>3. DOMAIN t = DOMAIN Idle /\ t.time \in Nat /\ t.locks = {} /\ t.view = <<>> /\ starts' \in Nat
  BY <1>1, <1>2 DEF Idle, TxInv, TxForm, Deliver
<1>4. /\ t.request = None => t.locks = {} /\ t.view = <<>>
      /\ \A d \in Clients \ {c} : t.locks \cap tx[d].locks = {}
  BY <1>3
<1>5. TxForm /\ LocksApart
  BY DEF TxInv
<1>6. TxForm' /\ LocksApart' /\ tx'[c] = t /\ \A d \in Clients \ {c} : tx'[d] = tx[d]
  BY <1>2, <1>3, <1>4, <1>5, OneTxMoves
<1>7. OnceEach'
  BY <1>2 DEF OnceEach, TxInv
<1>8. \A d \in Clients : KeyHeld(d)'
  BY <1>2, <1>3, <1>6, KeyHeldStays, KeyHeldFresh DEF TxInv
<1> QED
  BY <1>6, <1>7, <1>8 DEF TxInv

\* Reading a row adds it to what is known, and changes nothing known before.
LEMMA Taken ==
  ASSUME TxForm, LocksApart, NEW c \in Clients, NEW held, NEW row, NEW value, Takes(c, held, row, value)
  PROVE  /\ TxForm' /\ LocksApart'
         /\ \A d \in Clients \ {c} : tx'[d] = tx[d]
         /\ tx'[c].key = tx[c].key /\ tx'[c].request = tx[c].request /\ tx'[c].time = tx[c].time
         /\ tx'[c].locks = tx[c].locks \cup held
         /\ DOMAIN tx'[c].view = DOMAIN tx[c].view \cup {row}
         /\ \A x \in DOMAIN tx[c].view : tx'[c].view[x] = tx[c].view[x]
         /\ row \notin DOMAIN tx[c].view => tx'[c].view[row] = value
<1>1. PICK t : t = [tx[c] EXCEPT !.locks = @ \cup held, !.view = Knowing(@, row, value)]
  OBVIOUS
<1>2. tx' = [tx EXCEPT ![c] = t] /\ UNCHANGED <<record, applied, starts>>
  BY <1>1 DEF Takes, TxForm
<1>3. /\ DOMAIN t = DOMAIN Idle /\ t.key = tx[c].key /\ t.request = tx[c].request /\ t.time = tx[c].time
      /\ t.locks = tx[c].locks \cup held /\ t.view = Knowing(tx[c].view, row, value)
  BY <1>1 DEF Idle, TxForm
<1>4. /\ DOMAIN t.view = DOMAIN tx[c].view \cup {row}
      /\ \A x \in DOMAIN tx[c].view : t.view[x] = tx[c].view[x]
      /\ row \notin DOMAIN tx[c].view => t.view[row] = value
  BY <1>3 DEF Knowing
<1>5. t.time \in Nat /\ t.request # None /\ \A d \in Clients \ {c} : t.locks \cap tx[d].locks = {}
  BY <1>3 DEF TxForm, LocksApart, Takes, Open
<1>6. TxForm' /\ LocksApart' /\ tx'[c] = t /\ \A d \in Clients \ {c} : tx'[d] = tx[d]
  BY <1>2, <1>3, <1>5, OneTxMoves DEF TxForm
<1> QED
  BY <1>3, <1>4, <1>6

\* A row that is read and held stays as it was read, for its holder alone.
LEMMA TakesKeeps ==
  ASSUME TxInv, NEW c \in Clients, NEW held, NEW row, NEW value, Takes(c, held, row, value)
  PROVE  TxInv'
<1>1. /\ TxForm' /\ LocksApart'
      /\ \A d \in Clients \ {c} : tx'[d] = tx[d]
      /\ tx'[c].key = tx[c].key /\ tx'[c].request = tx[c].request
      /\ tx'[c].locks = tx[c].locks \cup held
      /\ DOMAIN tx'[c].view = DOMAIN tx[c].view \cup {row}
      /\ \A x \in DOMAIN tx[c].view : tx'[c].view[x] = tx[c].view[x]
      /\ row \notin DOMAIN tx[c].view => tx'[c].view[row] = value
  BY Taken DEF TxInv
<1>2. row = KeyRow(tx[c]) => row \in held /\ value = RecordOf(tx[c])
  BY DEF Takes
<1>3. UNCHANGED <<record, applied>>
  BY DEF Takes
<1>4. OnceEach'
  BY <1>3 DEF OnceEach, TxInv
<1>5. KeyRow(tx[c])' = KeyRow(tx[c]) /\ RecordOf(tx[c])' = RecordOf(tx[c])
  BY <1>1, <1>3 DEF KeyRow, RecordOf
<1>6. KeyHeld(c)'
  <2>1. Open(c) /\ KeyHeld(c)
    BY DEF Takes, TxInv
  <2>2. CASE KeyRow(tx[c]) \in DOMAIN tx[c].view
    BY <1>1, <1>5, <2>1, <2>2 DEF KeyHeld
  <2>3. CASE KeyRow(tx[c]) \notin DOMAIN tx[c].view
    BY <1>1, <1>2, <1>5, <2>3 DEF KeyHeld
  <2> QED
    BY <2>2, <2>3
<1>7. \A d \in Clients \ {c} : KeyHeld(d)'
  BY <1>1, <1>3, KeyHeldStays DEF TxInv
<1> QED
  BY <1>1, <1>4, <1>6, <1>7 DEF TxInv

\* A transaction that ends gives its rows back.
LEMMA LeaveKeeps ==
  ASSUME TxInv, NEW c \in Clients, Leave(c)
  PROVE  TxInv'
<1>1. tx' = [tx EXCEPT ![c] = Idle] /\ UNCHANGED <<record, applied, starts>>
  BY DEF Leave
<1>2. Idle.time \in Nat /\ Idle.request = None /\ Idle.locks = {} /\ Idle.view = <<>> /\ starts' \in Nat
  BY <1>1 DEF Idle, TxInv, TxForm
<1>3. TxForm' /\ LocksApart' /\ tx'[c] = Idle /\ \A d \in Clients \ {c} : tx'[d] = tx[d]
  BY <1>1, <1>2, OneTxMoves DEF TxInv
<1>4. OnceEach'
  BY <1>1 DEF OnceEach, TxInv
<1>5. \A d \in Clients : KeyHeld(d)'
  BY <1>1, <1>2, <1>3, KeyHeldStays, KeyHeldFresh DEF TxInv
<1> QED
  BY <1>3, <1>4, <1>5 DEF TxInv

\* The key is locked and answers nothing: no record has it, and no other
\* transaction that holds a key holds this one.
LEMMA CommitsKeeps ==
  ASSUME TxInv, NEW c \in Clients, Commits(c)
  PROVE  TxInv'
<1> DEFINE t == tx[c]
           x == [key |-> t.key, scope |-> t.request.scope, request |-> t.request]
           e == <<t.key, t.request.scope>>
<1>1. /\ tx' = [tx EXCEPT ![c] = Idle] /\ starts' = starts
      /\ record' = record \cup {x} /\ applied' = applied (+) SetToBag({e})
  BY DEF Commits, Commit
<1>2. Idle.time \in Nat /\ Idle.request = None /\ Idle.locks = {} /\ Idle.view = <<>> /\ starts' \in Nat
  BY <1>1 DEF Idle, TxInv, TxForm
<1>3. TxForm' /\ LocksApart' /\ tx'[c] = Idle /\ \A d \in Clients \ {c} : tx'[d] = tx[d]
  BY <1>1, <1>2, OneTxMoves DEF TxInv
<1>4. KeyRow(t) \in t.locks /\ RecordOf(t) = {}
  BY DEF Commits, TxInv, KeyHeld
<1>5. \A y \in record : ~(y.key = t.key /\ y.scope = t.request.scope)
  BY <1>4 DEF RecordOf
<1>6. applied = [f \in {<<y.key, y.scope>> : y \in record} |-> 1]
  BY DEF TxInv, OnceEach, SetToBag
<1>7. e \notin DOMAIN applied
  BY <1>5, <1>6
<1>8. applied' = [f \in {<<y.key, y.scope>> : y \in record'} |-> 1]
  <2>1. SetToBag({e}) = [f \in {e} |-> 1]
    BY DEF SetToBag
  <2>2. {<<y.key, y.scope>> : y \in record'} = DOMAIN applied \cup {e}
    <3>1. DOMAIN applied = {<<y.key, y.scope>> : y \in record}
      BY <1>6
    <3>2. <<x.key, x.scope>> = e
      OBVIOUS
    <3> HIDE DEF x, e
    <3> QED
      BY <3>1, <3>2, <1>1
  <2> HIDE DEF e, x
  <2>3. applied' = [f \in DOMAIN applied \cup {e} |-> (IF f \in DOMAIN applied THEN applied[f] ELSE 0)
                                                  + (IF f \in {e} THEN 1 ELSE 0)]
    BY <1>1, <2>1 DEF (+)
  <2>4. ASSUME NEW f \in DOMAIN applied \cup {e}
        PROVE  applied'[f] = 1
    <3>1. CASE f = e
      BY <3>1, <1>7, <2>3
    <3>2. CASE f # e
      BY <3>2, <1>6, <2>3
    <3> QED
      BY <3>1, <3>2
  <2> QED
    BY <2>2, <2>3, <2>4
<1>9. OnceEach'
  <2>1. \A y, z \in record' : y.key = z.key /\ y.scope = z.scope => y = z
    BY <1>1, <1>5 DEF TxInv, OnceEach
  <2> QED
    BY <1>8, <2>1 DEF OnceEach, SetToBag
<1>10. ASSUME NEW d \in Clients \ {c}, Open(d), KeyRow(tx[d]) \in DOMAIN tx[d].view
       PROVE  KeyRow(tx[d]) \in tx[d].locks /\ tx[d].view[KeyRow(tx[d])] = RecordOf(tx[d])'
  <2>1. KeyRow(tx[d]) \in tx[d].locks /\ tx[d].view[KeyRow(tx[d])] = RecordOf(tx[d])
    BY <1>10 DEF TxInv, KeyHeld
  <2>2. KeyRow(tx[d]) # KeyRow(t)
    BY <2>1, <1>4 DEF TxInv, LocksApart
  <2>3. ~(x.key = tx[d].key /\ x.scope = tx[d].request.scope)
    BY <2>2 DEF KeyRow
  <2>4. {y \in record' : y.key = tx[d].key /\ y.scope = tx[d].request.scope} = RecordOf(tx[d])
    BY <2>3, <1>1 DEF RecordOf
  <2>5. tx'[d] = tx[d]
    BY <1>3
  <2> QED
    BY <2>1, <2>4, <2>5 DEF RecordOf
<1>11. \A d \in Clients \ {c} : KeyHeld(d)'
  BY <1>3, <1>10 DEF KeyHeld, KeyRow, RecordOf, Open
<1>12. KeyHeld(c)'
  BY <1>2, <1>3 DEF KeyHeld, Open
<1> QED
  BY <1>3, <1>9, <1>11, <1>12 DEF TxInv

\* So every step of a transaction keeps what all the services rest on.
LEMMA TxStepKeeps ==
  ASSUME TxInv, NEW c \in Clients, NEW rows, TxStep(c, rows)
  PROVE  TxInv'
BY BeginKeeps, DeliverKeeps, TakesKeeps, CommitsKeeps, LeaveKeeps DEF TxStep, Reads
-----------------------------------------------------------------------------
(* Every command of every service is such a step *)

\* Reading without a lock, with one, and locking what exists, are all readings.
LEMMA LookTakes ==
  ASSUME TxForm, NEW c \in Clients, Open(c), NEW row, NEW value, Look(c, row, value), row # KeyRow(tx[c])
  PROVE  Takes(c, {}, row, value)
<1>1. tx[c].locks = tx[c].locks \cup {}
  OBVIOUS
<1>2. PICK t : t = [tx[c] EXCEPT !.view = Knowing(@, row, value)]
  OBVIOUS
<1>3. t = [tx[c] EXCEPT !.locks = @ \cup {}, !.view = Knowing(@, row, value)]
  BY <1>1, <1>2 DEF TxForm, Idle
<1>4. tx' = [tx EXCEPT ![c] = t] /\ UNCHANGED <<record, applied, starts>>
  BY <1>2 DEF Look, TxForm
<1>5. tx' = [tx EXCEPT ![c].locks = @ \cup {}, ![c].view = Knowing(@, row, value)]
  BY <1>3, <1>4 DEF TxForm
<1> QED
  BY <1>4, <1>5 DEF Takes

\* A lock of a free row takes it, with the value it holds now.
LEMMA LockTakes ==
  ASSUME TxForm, NEW c \in Clients, Open(c), NEW row, NEW value, Lock(c, row, value),
         row = KeyRow(tx[c]) => value = RecordOf(tx[c])
  PROVE  Takes(c, {row}, row, value)
<1>1. \A d \in Clients \ {c} : {row} \cap tx[d].locks = {}
  BY DEF Lock, Free
<1> QED
  BY <1>1 DEF Lock, Takes

\* A row that may be missing is taken if it is there.
LEMMA LockRowTakes ==
  ASSUME TxForm, NEW c \in Clients, Open(c), NEW row, NEW value, LockRow(c, row, value), row[1] # "key"
  PROVE  Takes(c, IF value = None THEN {} ELSE {row}, row, value)
<1>1. row # KeyRow(tx[c])
  BY DEF KeyRow
<1> QED
  BY <1>1, LookTakes, LockTakes DEF LockRow

\* The order of the rows is one of numbers.
LEMMA RankIsNat == \A x : Rank(x) \in Nat
BY BrandAssumption DEF Rank

\* A read without a lock is one of the reads of a command,
LEMMA LookReads ==
  ASSUME TxForm, NEW c \in Clients, Open(c), NEW rows, NEW row \in Owing(tx[c], rows), NEW value,
         Look(c, row, value), row # KeyRow(tx[c])
  PROVE  Reads(c, rows)
BY LookTakes DEF Reads

\* and so is a read with one.
LEMMA LockReads ==
  ASSUME TxForm, NEW c \in Clients, Open(c), NEW rows, NEW row \in Owing(tx[c], rows), NEW value,
         Lock(c, row, value), row = KeyRow(tx[c]) => value = RecordOf(tx[c])
  PROVE  Reads(c, rows)
<1>1. \A h \in {row} : Rank(h) <= Rank(row)
  BY RankIsNat
<1>2. Takes(c, {row}, row, value)
  BY LockTakes
<1> QED
  BY <1>1, <1>2 DEF Reads

\* Claiming the key is reading and locking its row (IdempotencyRepository.claim).
LEMMA ClaimReads ==
  ASSUME TxForm, NEW c \in Clients, Open(c), NEW rows, KeyRow(tx[c]) \in Owing(tx[c], rows), Claim(c)
  PROVE  Reads(c, rows)
BY LockReads DEF Claim

LEMMA LockRowReads ==
  ASSUME TxForm, NEW c \in Clients, Open(c), NEW rows, NEW row \in Owing(tx[c], rows), NEW value,
         LockRow(c, row, value), row[1] # "key"
  PROVE  Reads(c, rows)
<1>1. row # KeyRow(tx[c])
  BY DEF KeyRow
<1> QED
  BY <1>1, LookReads, LockReads DEF LockRow

\* A command that is granted has claimed its key, and no record had it.
LEMMA GrantedCommits ==
  ASSUME TxForm, NEW c \in Clients, NEW op, NEW rows, Granted(c, op, rows),
         NEW i \in DOMAIN rows, rows[i] = KeyRow(tx[c]), Commit(c)
  PROVE  Commits(c)
BY DEF Granted, HasRead, Answered, Commits

\* A command on brand profiles locks its idempotency key, profiles, assets, and
\* what a handler or a creation looks up.
LEMMA BrandRowForm ==
  ASSUME NEW t, NEW i \in DOMAIN BrandRows(t)
  PROVE  BrandRows(t)[i] = KeyRow(t)
         \/ \E x : BrandRows(t)[i] \in {ProfileRow(x), ProfileKeyRow(x), CandidateRow(x), AssetRow(x)}
<1> DEFINE r == t.request
<1>1. CASE r.op = "create_profile"
  <2>1. BrandRows(t) = <<KeyRow(t), ProfileKeyRow(r.target)>>
    BY <1>1 DEF BrandRows
  <2> QED
    BY <2>1
<1>2. CASE r.op = "update_draft"
  <2>1. BrandRows(t) = <<ProfileRow(r.target), KeyRow(t)>>
    BY <1>2 DEF BrandRows
  <2> QED
    BY <2>1
<1>3. CASE r.op = "publish_profile"
  <2>1. BrandRows(t) = PublicationRows(t)
    BY <1>3 DEF BrandRows
  <2>2. PublicationRows(t)[i] \in {KeyRow(t), AssetRow(i), ProfileRow(r.target)}
    BY <2>1 DEF PublicationRows
  <2> QED
    BY <2>1, <2>2
<1>4. CASE r.op \notin {"create_profile", "update_draft", "publish_profile"}
  <2>1. BrandRows(t) = <<CandidateRow(r.target), AssetRow(r.target)>>
    BY <1>4 DEF BrandRows
  <2> QED
    BY <2>1
<1> QED
  BY <1>1, <1>2, <1>3, <1>4

\* The only row of a key among the rows of a command is that of its own.
LEMMA CatalogSteps ==
  ASSUME TxForm, NEW c \in Clients, CatalogNext(c)
  PROVE  TxStep(c, CatalogRows(tx[c]))
<1> DEFINE rows == CatalogRows(tx[c])
<1>1. ASSUME NEW k \in Keys, NEW r, Begin(c, k, r)
      PROVE  TxStep(c, rows)
  BY <1>1 DEF TxStep
<1>2. CASE CatalogRead(c)
  <2>1. PICK row \in Owing(tx[c], rows) :
          CASE row[1] = "key" -> Claim(c)
            [] row[1] = "product" -> ReadProduct(c, row)
            [] row[1] = "sku" -> ReadSKU(c, row)
            [] OTHER -> Lock(c, row, identities[row[2]])
    BY <1>2 DEF CatalogRead
  <2>2. row[1] = "key" <=> row = KeyRow(tx[c])
    <3>1. PICK i \in DOMAIN rows : row = rows[i]
      BY DEF Owing
    <3>2. ASSUME NEW x, NEW j \in DOMAIN DeletionRows(tx[c], x)
          PROVE  DeletionRows(tx[c], x)[j] \in {KeyRow(tx[c]), x, IdentityRow(tx[c].view[x].code)}
      BY DEF DeletionRows
    <3>3. row = KeyRow(tx[c]) \/ \E x : row \in {ProductRow(x), SKURow(x), IdentityRow(x)}
      <4> DEFINE r == tx[c].request
      <4>1. CASE r.op \in {"create_product", "update_product", "create_sku", "update_sku"}
        <5>1. \E x : rows \in {<<KeyRow(tx[c]), ProductRow(x)>>, <<KeyRow(tx[c]), SKURow(x)>>,
                              <<KeyRow(tx[c]), IdentityRow(r.arg)>>,
                              <<KeyRow(tx[c]), ProductRow(x), IdentityRow(r.arg)>>}
          BY <4>1 DEF CatalogRows
        <5> HIDE DEF rows, r
        <5> QED
          BY <3>1, <5>1
      <4>2. CASE rows = DeletionRows(tx[c], ProductRow(r.target)) \/ rows = DeletionRows(tx[c], SKURow(r.target))
        BY <3>1, <3>2, <4>2
      <4> QED
        BY <4>1, <4>2 DEF CatalogRows
    <3> QED
      BY <3>3 DEF KeyRow, ProductRow, SKURow, IdentityRow
  <2>3. Open(c)
    BY <1>2 DEF CatalogRead
  <2> SUFFICES Reads(c, rows)
    BY DEF TxStep
  <2> HIDE DEF rows
  <2>4. CASE row[1] = "key"
    BY <2>1, <2>2, <2>3, <2>4, ClaimReads
  <2>5. CASE row[1] = "product"
    BY <2>1, <2>3, <2>5, LockRowReads DEF ReadProduct
  <2>6. CASE row[1] = "sku"
    BY <2>1, <2>3, <2>6, LockRowReads DEF ReadSKU
  <2>7. CASE row[1] \notin {"key", "product", "sku"}
    <3>1. Lock(c, row, identities[row[2]]) /\ row # KeyRow(tx[c])
      BY <2>1, <2>2, <2>7
    <3> QED
      BY <2>3, <3>1, LockReads
  <2> QED
    BY <2>4, <2>5, <2>6, <2>7
<1>3. rows[1] = KeyRow(tx[c]) /\ 1 \in DOMAIN rows
  BY DEF CatalogRows, DeletionRows
<1>4. ASSUME NEW op, Granted(c, op, rows), Commit(c)
      PROVE  TxStep(c, rows)
  BY <1>3, <1>4, GrantedCommits DEF TxStep
<1>5. CASE CreateProduct(c) \/ UpdateProduct(c) \/ DeleteProduct(c)
  BY <1>4, <1>5 DEF CreateProduct, UpdateProduct, DeleteProduct
<1>6. CASE CreateSKU(c) \/ UpdateSKU(c) \/ DeleteSKU(c)
  BY <1>4, <1>6 DEF CreateSKU, UpdateSKU, DeleteSKU
<1> QED
  BY <1>1, <1>2, <1>5, <1>6 DEF CatalogNext, TxStep

\* The same of the registry,
LEMMA PromptSteps ==
  ASSUME TxForm, NEW c \in Clients, PromptNext(c)
  PROVE  TxStep(c, PromptRows(tx[c]))
<1> DEFINE rows == PromptRows(tx[c])
<1>1. ASSUME NEW k \in Keys, NEW r, Begin(c, k, r)
      PROVE  TxStep(c, rows)
  BY <1>1 DEF TxStep
<1>2. CASE PromptRead(c)
  <2>1. PICK row \in Owing(tx[c], rows) :
          CASE row[1] = "key" -> Claim(c)
            [] row[1] = "revision" -> ReadRevision(c, row)
            [] row[1] = "pointer" -> ReadPointer(c)
            [] OTHER -> ReadSemantic(c, row)
    BY <1>2 DEF PromptRead
  <2>2. /\ row[1] = "key" <=> row = KeyRow(tx[c])
        /\ row[1] = "pointer" => row = PointerRow
    BY DEF Owing, PromptRows, KeyRow, RevisionRow, SemanticRow, PointerRow
  <2>3. Open(c)
    BY <1>2 DEF PromptRead
  <2> SUFFICES Reads(c, rows)
    BY DEF TxStep
  <2> HIDE DEF rows
  <2>4. CASE row[1] = "key"
    BY <2>1, <2>2, <2>3, <2>4, ClaimReads
  <2>5. CASE row[1] = "revision"
    BY <2>1, <2>3, <2>5, LockRowReads DEF ReadRevision
  <2>6. CASE row[1] = "pointer"
    BY <2>1, <2>2, <2>3, <2>6, LockRowReads DEF ReadPointer
  <2>7. CASE row[1] \notin {"key", "revision", "pointer"}
    <3>1. Lock(c, row, HasSemantic(row[2])) /\ row # KeyRow(tx[c])
      BY <2>1, <2>2, <2>7 DEF ReadSemantic
    <3> QED
      BY <2>3, <3>1, LockReads
  <2> QED
    BY <2>4, <2>5, <2>6, <2>7
<1>3. rows[1] = KeyRow(tx[c]) /\ 1 \in DOMAIN rows
  BY DEF PromptRows
<1>4. ASSUME NEW op, Granted(c, op, rows), Commit(c)
      PROVE  TxStep(c, rows)
  BY <1>3, <1>4, GrantedCommits DEF TxStep
<1>5. CASE CreateRevision(c) \/ SubmitForReview(c) \/ Stage(c)
  BY <1>4, <1>5 DEF CreateRevision, SubmitForReview, Stage, Transition
<1>6. CASE Publish(c) \/ SelectProduction(c) \/ Deprecate(c)
  BY <1>4, <1>6 DEF Publish, SelectProduction, Deprecate
<1> QED
  BY <1>1, <1>2, <1>5, <1>6 DEF PromptNext, TxStep

\* of the brand profiles, whose publication pins the assets of the draft,
LEMMA BrandSteps ==
  ASSUME TxForm, NEW c \in Clients, BrandNext(c)
  PROVE  TxStep(c, BrandRows(tx[c]))
<1> DEFINE rows == BrandRows(tx[c])
<1>1. ASSUME NEW k \in Keys, NEW r, Begin(c, k, r)
      PROVE  TxStep(c, rows)
  BY <1>1 DEF TxStep
<1>2. ASSUME NEW r, Deliver(c, r)
      PROVE  TxStep(c, rows)
  BY <1>2 DEF TxStep
<1>3. CASE BrandRead(c)
  <2>1. PICK row \in Owing(tx[c], rows) :
          CASE row[1] = "key" -> Claim(c)
            [] row[1] = "profile" -> ReadProfile(c, row)
            [] row[1] = "profile_key" -> ReadProfileKey(c, row)
            [] row[1] = "candidates" -> LockCandidates(c, row[2])
            [] OTHER -> ReadAsset(c, row)
    BY <1>3 DEF BrandRead
  <2>2. /\ row[1] = "key" <=> row = KeyRow(tx[c])
        /\ row[1] = "candidates" => row = CandidateRow(row[2])
    <3>1. PICK i \in DOMAIN rows : row = rows[i]
      BY DEF Owing
    <3>3. row = KeyRow(tx[c]) \/ \E x : row \in {ProfileRow(x), ProfileKeyRow(x), CandidateRow(x), AssetRow(x)}
      BY <3>1, BrandRowForm
    <3> QED
      BY <3>3 DEF KeyRow, ProfileRow, ProfileKeyRow, CandidateRow, AssetRow
  <2>3. Open(c)
    BY <1>3 DEF BrandRead
  <2> SUFFICES Reads(c, rows)
    BY DEF TxStep
  <2> HIDE DEF rows
  <2>4. CASE row[1] = "key"
    BY <2>1, <2>2, <2>3, <2>4, ClaimReads
  <2>5. CASE row[1] = "profile"
    BY <2>1, <2>3, <2>5, LockRowReads DEF ReadProfile
  <2>6. CASE row[1] = "profile_key"
    <3>1. row # KeyRow(tx[c])
      BY <2>2, <2>6
    <3> QED
      BY <2>1, <2>3, <2>6, <3>1, LockReads DEF ReadProfileKey
  <2>7. CASE row[1] = "candidates"
    <3> DEFINE held == {ProfileRow(p) : p \in Candidates(row[2])}
    <3>1. LockCandidates(c, row[2])
      BY <2>1, <2>7
    <3>2. \A d \in Clients \ {c} : held \cap tx[d].locks = {}
      BY <3>1 DEF LockCandidates, Free
    <3>3. row # KeyRow(tx[c])
      BY <2>2, <2>7
    <3>4. Takes(c, held, row, [p \in Candidates(row[2]) |-> profiles[p]])
      BY <2>2, <2>3, <2>7, <3>1, <3>2, <3>3 DEF LockCandidates, Takes
    <3>5. \A h \in held : Rank(h) <= Rank(row)
      BY <2>7 DEF Rank, ProfileRow
    <3> QED
      BY <3>4, <3>5 DEF Reads
  <2>8. CASE row[1] \notin {"key", "profile", "profile_key", "candidates"}
    <3>1. Lock(c, row, assets[row[2]]) /\ row # KeyRow(tx[c])
      BY <2>1, <2>2, <2>8 DEF ReadAsset
    <3> QED
      BY <2>3, <3>1, LockReads
  <2> QED
    BY <2>4, <2>5, <2>6, <2>7, <2>8
<1>4. CASE CreateProfile(c)
  <2>1. rows = <<KeyRow(tx[c]), ProfileKeyRow(tx[c].request.target)>>
    BY <1>4 DEF CreateProfile, Granted, BrandRows
  <2> QED
    BY <1>4, <2>1, GrantedCommits DEF CreateProfile, TxStep
<1>5. CASE UpdateDraft(c)
  <2>1. rows = <<ProfileRow(tx[c].request.target), KeyRow(tx[c])>>
    BY <1>5 DEF UpdateDraft, Granted, BrandRows
  <2>2. 2 \in DOMAIN rows /\ rows[2] = KeyRow(tx[c])
    BY <2>1
  <2> QED
    BY <1>5, <2>2, GrantedCommits DEF UpdateDraft, TxStep
<1>6. CASE PublishProfile(c)
  <2>1. rows = PublicationRows(tx[c])
    BY <1>6 DEF PublishProfile, Granted, BrandRows
  <2>2. PICK i : i = NAssets + 1
    OBVIOUS
  <2>3. i \in DOMAIN rows /\ rows[i] = KeyRow(tx[c])
    BY <2>1, <2>2, BrandAssumption DEF PublicationRows
  <2> QED
    BY <1>6, <2>3, GrantedCommits DEF PublishProfile, TxStep
<1>7. CASE InvalidateAsset(c) \/ InvalidateDeletion(c)
  BY <1>7 DEF InvalidateAsset, InvalidateDeletion, TxStep
<1> QED
  BY <1>1, <1>2, <1>3, <1>4, <1>5, <1>6, <1>7 DEF BrandNext, TxStep

\* and of the provider control plane.
LEMMA ControlSteps ==
  ASSUME TxForm, NEW c \in Clients, ControlNext(c)
  PROVE  TxStep(c, ControlRows(tx[c]))
<1> DEFINE rows == ControlRows(tx[c])
<1>1. ASSUME NEW k \in Keys, NEW r, Begin(c, k, r)
      PROVE  TxStep(c, rows)
  BY <1>1 DEF TxStep
<1>2. CASE ControlRead(c)
  <2>1. PICK row \in Owing(tx[c], rows) :
          CASE row[1] = "key" -> Claim(c)
            [] row[1] = "provider" -> ReadProvider(c, row)
            [] row[1] = "head" -> ReadHead(c, row)
            [] row[1] = "authority" -> ReadAuthority(c)
            [] OTHER -> Look(c, row, UNION {Latest(x) : x \in tx[c].view[AuthorityRow]})
    BY <1>2 DEF ControlRead
  <2>2. /\ row[1] = "key" <=> row = KeyRow(tx[c])
        /\ row[1] = "authority" => row = AuthorityRow
    <3>1. \/ row \in {KeyRow(tx[c]), AuthorityRow, ObservationRow}
          \/ \E x : row \in {ProviderRow(x), HeadRow(x)}
      BY DEF Owing, ControlRows
    <3> QED
      BY <3>1 DEF KeyRow, ProviderRow, HeadRow, AuthorityRow, ObservationRow
  <2>3. Open(c)
    BY <1>2 DEF ControlRead
  <2> SUFFICES Reads(c, rows)
    BY DEF TxStep
  <2> HIDE DEF rows
  <2>4. ASSUME NEW value, row[1] # "key", Look(c, row, value) \/ Lock(c, row, value)
        PROVE  Reads(c, rows)
    BY <2>2, <2>3, <2>4, LookReads, LockReads
  <2>5. CASE row[1] = "key"
    BY <2>1, <2>2, <2>3, <2>5, ClaimReads
  <2>6. CASE row[1] = "provider"
    BY <2>1, <2>4, <2>6 DEF ReadProvider
  <2>7. CASE row[1] = "head"
    BY <2>1, <2>4, <2>7 DEF ReadHead
  <2>8. CASE row[1] = "authority"
    <3>1. ReadAuthority(c)
      BY <2>1, <2>8
    <3>2. \A d \in Clients \ {c} : JoinedRows \cap tx[d].locks = {}
      BY <3>1 DEF ReadAuthority, Free
    <3>3. row # KeyRow(tx[c])
      BY <2>2, <2>8
    <3>4. Takes(c, JoinedRows, row, Current)
      BY <2>2, <2>3, <2>8, <3>1, <3>2, <3>3 DEF ReadAuthority, Takes
    <3>5. \A h \in JoinedRows : h[1] \in {"head", "provider"}
      BY DEF JoinedRows, HeadRow, ProviderRow
    <3>6. \A h \in JoinedRows : Rank(h) <= Rank(row)
      BY <2>8, <3>5, BrandAssumption DEF Rank
    <3> QED
      BY <3>4, <3>6 DEF Reads
  <2>9. CASE row[1] \notin {"key", "provider", "head", "authority"}
    BY <2>1, <2>4, <2>9
  <2> QED
    BY <2>5, <2>6, <2>7, <2>8, <2>9
<1>3. rows[1] = KeyRow(tx[c]) /\ 1 \in DOMAIN rows
  BY DEF ControlRows
<1>4. ASSUME NEW op, Granted(c, op, rows), Commit(c)
      PROVE  TxStep(c, rows)
  BY <1>3, <1>4, GrantedCommits DEF TxStep
<1>5. CASE RegisterProvider(c) \/ RecordDiscoveryCandidate(c) \/ RecordEndpointObservation(c) \/ Route(c)
  BY <1>4, <1>5 DEF RegisterProvider, RecordDiscoveryCandidate, RecordEndpointObservation, Route
<1>6. CASE PublishCapability(c) \/ RollbackCapability(c) \/ PublishRoutePolicy(c) \/ RollbackRoutePolicy(c)
  BY <1>4, <1>6 DEF PublishCapability, RollbackCapability, PublishRoutePolicy, RollbackRoutePolicy
<1> QED
  BY <1>1, <1>2, <1>5, <1>6 DEF ControlNext, TxStep

\* Workers and administrators do not touch the commands' transactions.
LEMMA RebuildSteps ==
  ASSUME TxForm, NEW c \in Clients, RebuildNext(c)
  PROVE  TxStep(c, RebuildRows(tx[c])) \/ UNCHANGED idempotencyVars
<1> DEFINE rows == RebuildRows(tx[c])
<1>1. ASSUME NEW k \in Keys, NEW r, Begin(c, k, r)
      PROVE  TxStep(c, rows)
  BY <1>1 DEF TxStep
<1>2. CASE RebuildRead(c)
  <2>1. PICK row \in Owing(tx[c], rows) :
          CASE row[1] = "key" -> Claim(c)
            [] row[1] = "routing" -> Lock(c, row, routing)
            [] OTHER -> Lock(c, row, collections[row[2]])
    BY <1>2 DEF RebuildRead
  <2>2. row[1] = "key" <=> row = KeyRow(tx[c])
    BY DEF Owing, RebuildRows, KeyRow, RoutingRow, CollectionRow
  <2>3. Open(c)
    BY <1>2 DEF RebuildRead
  <2> SUFFICES Reads(c, rows)
    BY DEF TxStep
  <2> HIDE DEF rows
  <2>4. ASSUME NEW value, row[1] # "key", Lock(c, row, value)
        PROVE  Reads(c, rows)
    BY <2>2, <2>3, <2>4, LockReads
  <2>5. CASE row[1] = "key"
    BY <2>1, <2>2, <2>3, <2>5, ClaimReads
  <2>6. CASE row[1] = "routing"
    BY <2>1, <2>4, <2>6
  <2>7. CASE row[1] \notin {"key", "routing"}
    BY <2>1, <2>4, <2>7
  <2> QED
    BY <2>5, <2>6, <2>7
<1>3. CASE RequestRebuild(c)
  <2>1. rows[1] = KeyRow(tx[c]) /\ 1 \in DOMAIN rows
    BY DEF RebuildRows
  <2> QED
    BY <1>3, <2>1, GrantedCommits DEF RequestRebuild, TxStep
<1>4. CASE \E n \in DOMAIN rebuilds : AdministratorNext(n)
  BY <1>4 DEF AdministratorNext
<1>5. CASE \E r \in EmbeddingIds : IndexEmbedding(r) \/ RevokeEmbedding(r) \/ RightsRunOut(r) \/ RemoveEmbedding(r)
  BY <1>5 DEF IndexEmbedding, RevokeEmbedding, RightsRunOut, RemoveEmbedding, Fact
<1>6. CASE RunnerNext(c)
  BY <1>6 DEF RunnerNext
<1> QED
  BY <1>1, <1>2, <1>3, <1>4, <1>5, <1>6 DEF RebuildNext, TxStep

\* Retrieval takes no key.
LEMMA RetrievalSteps ==
  ASSUME RetrievalNext
  PROVE  UNCHANGED idempotencyVars
BY DEF RetrievalNext, RebuildBeside, RunnerNext, AdministratorNext

\* Every step is one of a transaction, or of none.
LEMMA TxSteps ==
  ASSUME TxForm, [Next]_vars
  PROVE  (\E c \in Clients : TxStep(c, RowsOf(tx[c]))) \/ UNCHANGED idempotencyVars
<1>1. CASE \E a \in ChangingAssets : AssetNext(a)
  BY <1>1 DEF AssetNext, GrantRights, RevokeRights, RightsLapse, DeleteAsset, AssetChange
<1>2. CASE UNCHANGED vars
  BY <1>2 DEF vars
<1>3. CASE service = "catalog" /\ \E c \in Clients : CatalogNext(c)
  BY <1>3, CatalogSteps DEF RowsOf
<1>4. CASE service = "prompts" /\ \E c \in Clients : PromptNext(c)
  BY <1>4, PromptSteps DEF RowsOf
<1>5. CASE service = "brands" /\ \E c \in Clients : BrandNext(c)
  BY <1>5, BrandSteps DEF RowsOf
<1>6. CASE service = "control" /\ \E c \in Clients : ControlNext(c)
  BY <1>6, ControlSteps DEF RowsOf
<1>7. CASE service = "rebuild" /\ \E c \in Clients : RebuildNext(c)
  BY <1>7, RebuildSteps DEF RowsOf
<1>8. CASE service = "retrieval" /\ RetrievalNext
  BY <1>8, RetrievalSteps
<1> QED
  BY <1>1, <1>2, <1>3, <1>4, <1>5, <1>6, <1>7, <1>8 DEF Next

\* At the beginning nothing is open.
LEMMA TxInvInit == Init => TxInv
<1> SUFFICES ASSUME IdempotencyInit PROVE TxInv
  BY DEF Init
<1>1. TxForm /\ LocksApart /\ \A c \in Clients : ~Open(c)
  BY DEF IdempotencyInit, TxForm, LocksApart, Idle, Open
<1>2. OnceEach
  BY DEF IdempotencyInit, OnceEach, EmptyBag
<1> QED
  BY <1>1, <1>2 DEF TxInv, KeyHeld

\* Every step keeps it.
LEMMA TxInvStays ==
  ASSUME TxInv, [Next]_vars
  PROVE  TxInv'
<1>1. CASE UNCHANGED idempotencyVars
  <2> USE <1>1 DEF idempotencyVars
  <2>1. TxForm' /\ LocksApart' /\ OnceEach'
    BY DEF TxInv, TxForm, LocksApart, OnceEach, Open
  <2>2. \A c \in Clients : KeyHeld(c)'
    BY KeyHeldStays DEF TxInv
  <2> QED
    BY <2>1, <2>2 DEF TxInv
<1> QED
  BY <1>1, TxSteps, TxStepKeeps DEF TxInv

\* A row is locked by one transaction at most, a key that an open one holds
\* unanswered is still so, and every record stands for one effect
\* (IdempotencyRepository: claim locks the key's row until the commit).
THEOREM TransactionInvariant == Spec => []TxInv
BY TxInvInit, TxInvStays, PTL DEF Spec

\* A command takes effect at most once per key, and exactly when its key
\* answers for it from then on, however often it is repeated, at the same time
\* or after a lost answer (IdempotencyRepository.claim and complete).
THEOREM CommandsTakeEffectOnce == Spec => []OnceEach
<1>1. TxInv => OnceEach
  BY DEF TxInv
<1> QED
  BY <1>1, TransactionInvariant, PTL

-----------------------------------------------------------------------------
(* No two commands wait for each other *)

Climbs(rows) == \A i, j \in DOMAIN rows : i < j => Rank(rows[i]) < Rank(rows[j])

\* A transaction that has taken the row it needed next.
After(t, u, row) ==
  /\ u.key = t.key /\ u.request = t.request
  /\ DOMAIN u.view = DOMAIN t.view \cup {row}
  /\ \A x \in DOMAIN t.view : u.view[x] = t.view[x]

\* A list that climbs, and of which a longer one may be known afterwards.
LEMMA ListClimbs ==
  ASSUME NEW t, NEW u, NEW rows, NEW more, NEW row \in Owing(t, rows), After(t, u, row),
         NEW next \in Owing(u, more), Climbs(more), DOMAIN rows \subseteq Int, DOMAIN more \subseteq Int,
         \A k \in DOMAIN rows : k \in DOMAIN more /\ more[k] = rows[k],
         \A i \in DOMAIN rows, j \in DOMAIN more : j < i => j \in DOMAIN rows
  PROVE  Rank(row) < Rank(next)
<1>1. PICK i \in DOMAIN rows : row = rows[i] /\ \A k \in DOMAIN rows : k < i => rows[k] \in DOMAIN t.view
  BY DEF Owing
<1>2. PICK j \in DOMAIN more : next = more[j] /\ next \notin DOMAIN u.view
  BY DEF Owing
<1>3. i # j
  BY <1>1, <1>2 DEF After
<1>4. ~(j < i)
  BY <1>1, <1>2 DEF After
<1> QED
  BY <1>1, <1>2, <1>3, <1>4 DEF Climbs

\* The rows of every command of the catalog climb,
LEMMA CatalogClimbs ==
  ASSUME NEW t, NEW u, NEW row \in Owing(t, CatalogRows(t)), After(t, u, row),
         NEW next \in Owing(u, CatalogRows(u))
  PROVE  Rank(row) < Rank(next)
<1> DEFINE r == t.request
<1>1. KeyRow(u) = KeyRow(t) /\ u.request = r
  BY DEF After, KeyRow
<1>2. Rank(KeyRow(t)) = NAssets + 3 /\ NAssets \in Nat
  BY BrandAssumption DEF Rank, KeyRow
<1>3. \A x : /\ Rank(ProductRow(x)) = NAssets + 4 /\ Rank(SKURow(x)) = NAssets + 4
             /\ Rank(IdentityRow(x)) = NAssets + 5
  BY DEF Rank, ProductRow, SKURow, IdentityRow
<1>4. CASE r.op \in {"create_product", "update_product", "create_sku", "update_sku"}
  <2>1. CatalogRows(u) = CatalogRows(t)
    BY <1>1, <1>4 DEF CatalogRows
  <2>2. Climbs(CatalogRows(t)) /\ DOMAIN CatalogRows(t) \subseteq Int
    <3>1. \E x : CatalogRows(t) \in {<<KeyRow(t), IdentityRow(r.arg)>>, <<KeyRow(t), ProductRow(x)>>, <<KeyRow(t), SKURow(x)>>,
                                     <<KeyRow(t), ProductRow(x), IdentityRow(r.arg)>>}
      BY <1>4 DEF CatalogRows
    <3> QED
      BY <1>2, <1>3, <3>1 DEF Climbs
  <2> QED
    BY <2>1, <2>2, ListClimbs
<1>5. ASSUME NEW x, Rank(x) = NAssets + 4, CatalogRows(t) = DeletionRows(t, x), CatalogRows(u) = DeletionRows(u, x)
      PROVE  Rank(row) < Rank(next)
  <2>1. Climbs(DeletionRows(u, x)) /\ DOMAIN DeletionRows(u, x) \subseteq Int /\ DOMAIN DeletionRows(t, x) \subseteq Int
    BY <1>1, <1>2, <1>3, <1>5 DEF DeletionRows, Climbs
  <2>2. \A k \in DOMAIN DeletionRows(t, x) : k \in DOMAIN DeletionRows(u, x) /\ DeletionRows(u, x)[k] = DeletionRows(t, x)[k]
    BY <1>1 DEF DeletionRows, After
  <2>3. \A i \in DOMAIN DeletionRows(t, x), j \in DOMAIN DeletionRows(u, x) : j < i => j \in DOMAIN DeletionRows(t, x)
    BY DEF DeletionRows
  <2> QED
    BY <1>5, <2>1, <2>2, <2>3, ListClimbs
<1>6. CASE r.op = "delete_product"
  BY <1>1, <1>3, <1>5, <1>6 DEF CatalogRows
<1>7. CASE r.op \notin {"create_product", "update_product", "create_sku", "update_sku", "delete_product"}
  BY <1>1, <1>3, <1>5, <1>7 DEF CatalogRows
<1> QED
  BY <1>4, <1>6, <1>7

\* those of the registry, revision before pointer,
LEMMA PromptClimbs ==
  ASSUME NEW t, NEW u, NEW row \in Owing(t, PromptRows(t)), After(t, u, row),
         NEW next \in Owing(u, PromptRows(u))
  PROVE  Rank(row) < Rank(next)
<1>1. KeyRow(u) = KeyRow(t) /\ u.request = t.request
  BY DEF After, KeyRow
<1>2. Rank(KeyRow(t)) = NAssets + 3 /\ Rank(PointerRow) = NAssets + 5 /\ NAssets \in Nat
  BY BrandAssumption DEF Rank, KeyRow, PointerRow
<1>3. \A x : Rank(RevisionRow(x)) = NAssets + 4 /\ Rank(SemanticRow(x)) = NAssets + 4
  BY DEF Rank, RevisionRow, SemanticRow
<1>4. PromptRows(u) = PromptRows(t)
  BY <1>1 DEF PromptRows
<1>5. Climbs(PromptRows(t)) /\ DOMAIN PromptRows(t) \subseteq Int
  BY <1>2, <1>3 DEF PromptRows, Climbs
<1> QED
  BY <1>4, <1>5, ListClimbs

\* those of a publication, whose list is known only once the draft is read,
LEMMA PublicationClimbs ==
  ASSUME NEW t, NEW u, NEW row \in Owing(t, PublicationRows(t)), After(t, u, row),
         NEW next \in Owing(u, PublicationRows(u))
  PROVE  Rank(row) < Rank(next)
<1> DEFINE own == ProfileRow(t.request.target)
<1>1. KeyRow(u) = KeyRow(t) /\ u.request = t.request
  BY DEF After, KeyRow
<1>2. /\ Rank(KeyRow(t)) = NAssets + 3 /\ NAssets \in Nat /\ Rank(own) = 1
      /\ \A a \in 0..NAssets : Rank(AssetRow(a)) = 2 + a
  BY BrandAssumption DEF Rank, KeyRow, ProfileRow, AssetRow
<1>3. PICK j \in 0..(NAssets + 1) :
        /\ next = PublicationRows(u)[j] /\ next \notin DOMAIN u.view
        /\ \A k \in 0..(NAssets + 1) : k < j => PublicationRows(u)[k] \in DOMAIN u.view
  BY DEF Owing, PublicationRows
<1>4. PICK i \in 0..(NAssets + 1) :
        /\ row = PublicationRows(t)[i] /\ row \notin DOMAIN t.view
        /\ \A k \in 0..(NAssets + 1) : k < i => PublicationRows(t)[k] \in DOMAIN t.view
  BY DEF Owing, PublicationRows
<1>5. next \in {KeyRow(t), own} \/ (j # NAssets + 1 /\ next = AssetRow(j))
  BY <1>1, <1>3 DEF PublicationRows
<1>6. j # NAssets + 1 => j \in 0..NAssets
  BY <1>2, <1>3
<1>7. CASE own \notin DOMAIN t.view
  <2>1. \A k \in 0..(NAssets + 1) : PublicationRows(t)[k] = IF k = NAssets + 1 THEN KeyRow(t) ELSE own
    BY <1>7 DEF PublicationRows, DraftRead
  <2>2. row = own
    BY <1>2, <1>4, <1>7, <2>1
  <2>3. next # own
    BY <1>3, <2>2 DEF After
  <2>4. next = KeyRow(t) \/ (j \in 0..NAssets /\ next = AssetRow(j))
    BY <1>5, <1>6, <2>3
  <2> QED
    BY <1>2, <2>2, <2>4
<1>8. CASE own \in DOMAIN t.view
  <2>1. DraftRead(u) = DraftRead(t)
    BY <1>1, <1>8 DEF DraftRead, After
  <2>2. PublicationRows(u) = PublicationRows(t)
    BY <1>1, <2>1 DEF PublicationRows
  <2>3. row # own /\ next # own
    BY <1>3, <1>4, <1>8 DEF After
  <2>4. i # j /\ ~(j < i)
    BY <1>3, <1>4, <2>2 DEF After
  <2>5. i < j
    BY <1>2, <2>4
  <2>6. i \in 0..NAssets /\ row = AssetRow(i)
    BY <1>2, <1>4, <2>3, <2>5 DEF PublicationRows
  <2>7. next = KeyRow(t) \/ (j \in 0..NAssets /\ next = AssetRow(j))
    BY <1>5, <1>6, <2>3
  <2> QED
    BY <1>2, <2>5, <2>6, <2>7
<1> QED
  BY <1>7, <1>8

\* those of the other commands on a profile,
LEMMA BrandClimbs ==
  ASSUME NEW t, NEW u, NEW row \in Owing(t, BrandRows(t)), After(t, u, row),
         NEW next \in Owing(u, BrandRows(u))
  PROVE  Rank(row) < Rank(next)
<1> DEFINE r == t.request
<1>1. KeyRow(u) = KeyRow(t) /\ u.request = r
  BY DEF After, KeyRow
<1>2. CASE r.op = "publish_profile"
  BY <1>1, <1>2, PublicationClimbs DEF BrandRows
<1>3. CASE r.op # "publish_profile"
  <2>1. BrandRows(u) = BrandRows(t)
    BY <1>1, <1>3 DEF BrandRows
  <2>2. Rank(KeyRow(t)) = NAssets + 3 /\ NAssets \in Nat
    BY BrandAssumption DEF Rank, KeyRow
  <2>3. \A x : /\ Rank(ProfileRow(x)) = 1 /\ Rank(CandidateRow(x)) = 1
               /\ Rank(AssetRow(x)) >= 2 /\ Rank(ProfileKeyRow(x)) = NAssets + 4
    BY <2>2 DEF Rank, ProfileRow, CandidateRow, AssetRow, ProfileKeyRow
  <2>4. Climbs(BrandRows(t)) /\ DOMAIN BrandRows(t) \subseteq Int
    BY <1>3, <2>2, <2>3, RankIsNat DEF BrandRows, Climbs
  <2> QED
    BY <2>1, <2>4, ListClimbs
<1> QED
  BY <1>2, <1>3

\* those of the administrators,
LEMMA RebuildClimbs ==
  ASSUME NEW t, NEW u, NEW row \in Owing(t, RebuildRows(t)), After(t, u, row),
         NEW next \in Owing(u, RebuildRows(u))
  PROVE  Rank(row) < Rank(next)
<1>1. KeyRow(u) = KeyRow(t)
  BY DEF After, KeyRow
<1>2. Rank(KeyRow(t)) = NAssets + 3 /\ Rank(RoutingRow) = NAssets + 4 /\ NAssets \in Nat
  BY BrandAssumption DEF Rank, KeyRow, RoutingRow
<1>3. \A x : Rank(CollectionRow(x)) = NAssets + 5
  BY DEF Rank, CollectionRow
<1>4. Climbs(RebuildRows(u)) /\ DOMAIN RebuildRows(u) \subseteq Int /\ DOMAIN RebuildRows(t) \subseteq Int
  BY <1>1, <1>2, <1>3 DEF RebuildRows, Climbs
<1>5. \A k \in DOMAIN RebuildRows(t) : k \in DOMAIN RebuildRows(u) /\ RebuildRows(u)[k] = RebuildRows(t)[k]
  BY <1>1 DEF RebuildRows, After
<1>6. \A i \in DOMAIN RebuildRows(t), j \in DOMAIN RebuildRows(u) : j < i => j \in DOMAIN RebuildRows(t)
  BY DEF RebuildRows
<1> QED
  BY <1>4, <1>5, <1>6, ListClimbs

\* and so those of every service but the control plane, which is shown apart.
LEMMA RowsClimb ==
  ASSUME service # "control", NEW t, NEW u, NEW row \in Owing(t, RowsOf(t)), After(t, u, row),
         NEW next \in Owing(u, RowsOf(u))
  PROVE  Rank(row) < Rank(next)
<1>1. CASE service = "catalog"
  BY <1>1, CatalogClimbs DEF RowsOf
<1>2. CASE service = "prompts"
  BY <1>2, PromptClimbs DEF RowsOf
<1>3. CASE service = "brands"
  BY <1>3, BrandClimbs DEF RowsOf
<1>4. CASE service \notin {"catalog", "prompts", "brands", "control"}
  BY <1>4, RebuildClimbs DEF RowsOf
<1> QED
  BY <1>1, <1>2, <1>3, <1>4

\* A row that is read leaves only higher ones to be waited for.
LEMMA ReadsAhead ==
  ASSUME TxInv, service # "control", service' = service, NEW c \in Clients, Ahead(c),
         Reads(c, RowsOf(tx[c]))
  PROVE  Ahead(c)'
<1>1. PICK row, held, value :
        /\ row \in Owing(tx[c], RowsOf(tx[c]))
        /\ Takes(c, held, row, value)
        /\ \A h \in held : Rank(h) <= Rank(row)
  BY DEF Reads
<1>2. After(tx[c], tx'[c], row) /\ tx'[c].locks = tx[c].locks \cup held
  BY <1>1, Taken DEF TxInv, After
<1>3. \A h \in tx'[c].locks : Rank(h) <= Rank(row)
  BY <1>1, <1>2, RankIsNat DEF Ahead
<1>4. ASSUME NEW next \in Owing(tx'[c], RowsOf(tx'[c])), NEW h \in tx'[c].locks
      PROVE  Rank(h) < Rank(next)
  BY <1>1, <1>2, <1>3, <1>4, RowsClimb, RankIsNat
<1>5. RowsOf(tx[c])' = RowsOf(tx'[c])
  BY DEF RowsOf
<1> QED
  BY <1>4, <1>5 DEF Ahead

\* Every step keeps the order.
LEMMA RankInvStays ==
  ASSUME TxInv, RankInv, [Next]_vars
  PROVE  RankInv'
<1>1. service' = service
  BY DEF Next, vars
<1> SUFFICES ASSUME service # "control", NEW d \in Clients, Open(d)'
             PROVE  Ahead(d)'
  BY <1>1 DEF RankInv
<1>2. \A t : RowsOf(t)' = RowsOf(t)
  BY <1>1 DEF RowsOf
<1>3. ASSUME tx'[d] = tx[d]
      PROVE  Ahead(d)'
  BY <1>1, <1>3 DEF RankInv, Open, Ahead, RowsOf
<1>4. ASSUME tx'[d].locks = {}
      PROVE  Ahead(d)'
  BY <1>4 DEF Ahead
<1>5. CASE UNCHANGED idempotencyVars
  BY <1>3, <1>5 DEF idempotencyVars
<1>6. ASSUME NEW c \in Clients, TxStep(c, RowsOf(tx[c]))
      PROVE  Ahead(d)'
  <2>1. d # c => tx'[d] = tx[d]
    BY <1>6, Taken DEF TxStep, Reads, TxInv, TxForm, Begin, Deliver, Commits, Commit, Leave
  <2>2. CASE d # c
    BY <1>3, <2>1, <2>2
  <2>3. CASE d = c /\ Reads(c, RowsOf(tx[c]))
    BY <1>1, <2>3, ReadsAhead DEF RankInv, Reads, Takes
  <2>4. CASE d = c /\ ~Reads(c, RowsOf(tx[c]))
    <3>1. tx'[c].locks = {}
      BY <1>6, <2>4 DEF TxStep, TxInv, TxForm, Begin, Deliver, Commits, Commit, Leave, Idle, Open
    <3> QED
      BY <1>4, <2>4, <3>1
  <2> QED
    BY <2>2, <2>3, <2>4
<1> QED
  BY <1>5, <1>6, TxSteps DEF TxInv

LEMMA RankInvInit == Init => RankInv
BY DEF Init, IdempotencyInit, Idle, RankInv, Open

\* Every row that a command still needs ranks above every row that it holds:
\* profile, assets in their order, key, then the rows the key guards.  The
\* control plane is left out as in NoDeadlock: its one statement over heads
\* and providers locks them in an order that the database chooses.
THEOREM RowsAreTakenInOrder == Spec => []RankInv
BY RankInvInit, RankInvStays, TransactionInvariant, PTL DEF Spec

\* No two commands wait for each other: every command of a service locks
\* revision before pointer, product before identity, profile before assets.
THEOREM NoTwoWaitForEachOther == Spec => []NoDeadlock
<1>1. RankInv => NoDeadlock
  <2> SUFFICES ASSUME RankInv, service # "control", NEW c \in Clients, NEW d \in Clients, Waits(c, d), Waits(d, c)
               PROVE  FALSE
    BY DEF NoDeadlock
  <2>1. PICK x \in Owing(tx[c], RowsOf(tx[c])) : x \in tx[d].locks
    BY DEF Waits, WaitsFor
  <2>2. PICK y \in Owing(tx[d], RowsOf(tx[d])) : y \in tx[c].locks
    BY DEF Waits, WaitsFor
  <2>3. Rank(y) < Rank(x) /\ Rank(x) < Rank(y)
    BY <2>1, <2>2 DEF RankInv, Ahead, Waits
  <2> QED
    BY <2>3, RankIsNat
<1> QED
  BY <1>1, RowsAreTakenInOrder, PTL

-----------------------------------------------------------------------------
(* The prompt registry *)

\* Reading another row leaves what was found as it is.
LEMMA ReadStillSo ==
  ASSUME TxForm, LocksApart, NEW c \in Clients, NEW rows, NEW row \in Owing(tx[c], rows), NEW held, NEW value,
         Takes(c, held, row, value), NEW x, NEW v, StillSo(tx[c], x, v),
         x = row /\ value # None => row \in held /\ value = v
  PROVE  StillSo(tx'[c], x, v)
<1>1. row \notin DOMAIN tx[c].view
  BY DEF Owing
<1> QED
  BY <1>1, Taken DEF StillSo

\* A revision or a pointer that is read is known as it is.
LEMMA PromptRowsRead ==
  ASSUME TxInv, NEW c \in Clients, PromptTypes, PointerFollows, PromptView(c), PromptRead(c)
  PROVE  PromptView(c)' /\ \A d \in Clients \ {c} : tx'[d] = tx[d]
<1> DEFINE rows == PromptRows(tx[c])
<1>1. PICK row \in Owing(tx[c], rows) :
        CASE row[1] = "key" -> Claim(c)
          [] row[1] = "revision" -> ReadRevision(c, row)
          [] row[1] = "pointer" -> ReadPointer(c)
          [] OTHER -> ReadSemantic(c, row)
  BY DEF PromptRead
<1>2. Open(c) /\ TxForm /\ LocksApart /\ UNCHANGED promptVars
  BY DEF PromptRead, TxInv
<1>3. \/ row = KeyRow(tx[c])
      \/ \E r : row = RevisionRow(r)
      \/ row = PointerRow
      \/ \E x : row = SemanticRow(x)
  BY DEF Owing, PromptRows
<1>4. PICK held, value :
        /\ Takes(c, held, row, value)
        /\ \A r : row = RevisionRow(r) => value = revisions[r] /\ (value # None => row \in held)
        /\ row = PointerRow => value = pointer /\ (value # None => row \in held)
  <2>1. CASE row = KeyRow(tx[c])
    <3>1. row[1] = "key" /\ row # PointerRow /\ \A r : row # RevisionRow(r)
      BY <2>1 DEF KeyRow, PointerRow, RevisionRow
    <3>2. Takes(c, {row}, row, RecordOf(tx[c]))
      BY <1>1, <1>2, <2>1, <3>1, LockTakes DEF Claim
    <3> QED
      BY <3>1, <3>2
  <2>2. CASE \E r : row = RevisionRow(r)
    <3>1. row[1] = "revision" /\ row # PointerRow /\ \A r : row = RevisionRow(r) => r = row[2]
      BY <2>2 DEF PointerRow, RevisionRow
    <3>2. LockRow(c, row, revisions[row[2]])
      BY <1>1, <3>1 DEF ReadRevision
    <3>3. Takes(c, IF revisions[row[2]] = None THEN {} ELSE {row}, row, revisions[row[2]])
      BY <1>2, <3>1, <3>2, LockRowTakes
    <3> QED
      BY <3>1, <3>3
  <2>3. CASE row = PointerRow
    <3>1. row[1] = "pointer" /\ \A r : row # RevisionRow(r)
      BY <2>3 DEF PointerRow, RevisionRow
    <3>2. LockRow(c, row, pointer)
      BY <1>1, <2>3, <3>1 DEF ReadPointer
    <3>3. Takes(c, IF pointer = None THEN {} ELSE {row}, row, pointer)
      BY <1>2, <3>1, <3>2, LockRowTakes
    <3> QED
      BY <3>1, <3>3
  <2>4. CASE \E x : row = SemanticRow(x)
    <3>1. row[1] = "semantic" /\ row # PointerRow /\ row # KeyRow(tx[c]) /\ \A r : row # RevisionRow(r)
      BY <2>4 DEF SemanticRow, PointerRow, RevisionRow, KeyRow
    <3>2. Lock(c, row, HasSemantic(row[2]))
      BY <1>1, <3>1 DEF ReadSemantic
    <3>3. Takes(c, {row}, row, HasSemantic(row[2]))
      BY <1>2, <3>1, <3>2, LockTakes
    <3> QED
      BY <3>1, <3>3
  <2> QED
    BY <1>3, <2>1, <2>2, <2>3, <2>4
<1>5. /\ \A d \in Clients \ {c} : tx'[d] = tx[d]
      /\ tx'[c].key = tx[c].key /\ tx'[c].request = tx[c].request
      /\ DOMAIN tx'[c].view = DOMAIN tx[c].view \cup {row}
      /\ \A x \in DOMAIN tx[c].view : tx'[c].view[x] = tx[c].view[x]
      /\ row \notin DOMAIN tx[c].view => tx'[c].view[row] = value
  BY <1>2, <1>4, Taken
<1>6. /\ \A r \in Revisions : StillSo(tx'[c], RevisionRow(r), revisions[r])
      /\ StillSo(tx'[c], PointerRow, pointer)
  BY <1>2, <1>4, ReadStillSo DEF PromptView
<1>7. ASSUME tx[c].request.op = "deprecate", PointerRow \in DOMAIN tx'[c].view
      PROVE  LET x == RevisionRow(tx[c].request.target) IN
             /\ x \in DOMAIN tx'[c].view
             /\ tx'[c].view[x] # None /\ tx'[c].view[x].status = "PRODUCTION" => tx'[c].view[PointerRow] # None
  <2> DEFINE x == RevisionRow(tx[c].request.target)
  <2>1. CASE PointerRow \in DOMAIN tx[c].view
    BY <1>2, <1>5, <1>7, <2>1 DEF PromptView
  <2>2. CASE PointerRow \notin DOMAIN tx[c].view
    <3>1. row = PointerRow
      BY <1>5, <1>7, <2>2
    <3>2. rows = <<KeyRow(tx[c]), x, PointerRow>>
      BY <1>7 DEF PromptRows
    <3>3. PointerRow # KeyRow(tx[c]) /\ PointerRow # x
      BY DEF PointerRow, KeyRow, RevisionRow
    <3>4. x \in DOMAIN tx[c].view
      BY <3>1, <3>2, <3>3 DEF Owing
    <3>5. tx[c].request.target \in Revisions
      BY <1>2, <1>7 DEF PromptView, PromptRequest
    <3>6. tx[c].view[x] # None => tx[c].view[x] = revisions[tx[c].request.target]
      BY <1>2, <3>4, <3>5 DEF PromptView, StillSo
    <3>7. tx[c].view[x] # None /\ tx[c].view[x].status = "PRODUCTION" => pointer # None
      BY <3>5, <3>6 DEF PointerFollows
    <3>8. tx'[c].view[PointerRow] = pointer /\ tx'[c].view[x] = tx[c].view[x]
      BY <1>4, <1>5, <2>2, <3>1, <3>4
    <3> QED
      BY <1>5, <3>4, <3>7, <3>8
  <2> QED
    BY <2>1, <2>2
<1>8. PromptView(c)'
  BY <1>2, <1>5, <1>6, <1>7 DEF PromptView, promptVars
<1> QED
  BY <1>5, <1>8

\* Whoever writes a row holds it, or the row is new.
WritesOwn(c) ==
  /\ \A r \in Revisions : \/ revisions'[r] = revisions[r] \/ revisions[r] = None
                          \/ RevisionRow(r) \in tx[c].locks
  /\ pointer' = pointer \/ pointer = None \/ PointerRow \in tx[c].locks

\* What another command writes, it holds; so nobody else has it in sight.
LEMMA PromptViewStays ==
  ASSUME TxInv, NEW c \in Clients, WritesOwn(c), NEW d \in Clients \ {c}, PromptView(d), tx'[d] = tx[d]
  PROVE  PromptView(d)'
<1>1. tx[c].locks \cap tx[d].locks = {}
  BY DEF TxInv, LocksApart
<1>2. ASSUME Open(d), NEW r \in Revisions
      PROVE  StillSo(tx[d], RevisionRow(r), revisions'[r])
  BY <1>1, <1>2 DEF WritesOwn, StillSo, PromptView
<1>3. Open(d) => StillSo(tx[d], PointerRow, pointer')
  BY <1>1 DEF WritesOwn, StillSo, PromptView
<1> QED
  BY <1>2, <1>3 DEF PromptView, Open

PromptTables == PromptTypes /\ PointerIsProduction /\ PointerFollows

\* The revision that a command changes is as it was read, and held.
LEMMA RevisionHeld ==
  ASSUME PromptTypes, NEW c \in Clients, PromptView(c), NEW op, NEW q \in Revisions,
         Granted(c, op, PromptRows(tx[c])),
         \E i \in DOMAIN PromptRows(tx[c]) : PromptRows(tx[c])[i] = RevisionRow(q),
         tx[c].view[RevisionRow(q)] # None
  PROVE  /\ tx[c].view[RevisionRow(q)] = revisions[q] /\ revisions[q] \in RevisionRecord
         /\ RevisionRow(q) \in tx[c].locks
<1>1. RevisionRow(q) \in DOMAIN tx[c].view /\ Open(c)
  BY DEF Granted, HasRead
<1>2. StillSo(tx[c], RevisionRow(q), revisions[q])
  BY <1>1 DEF PromptView
<1> QED
  BY <1>1, <1>2 DEF StillSo, PromptTypes

\* So is the pointer.
LEMMA PointerHeld ==
  ASSUME PromptTypes, NEW c \in Clients, PromptView(c), NEW op,
         Granted(c, op, PromptRows(tx[c])),
         \E i \in DOMAIN PromptRows(tx[c]) : PromptRows(tx[c])[i] = PointerRow,
         tx[c].view[PointerRow] # None
  PROVE  /\ tx[c].view[PointerRow] = pointer /\ pointer \in PointerRecord
         /\ PointerRow \in tx[c].locks
<1>1. PointerRow \in DOMAIN tx[c].view /\ Open(c)
  BY DEF Granted, HasRead
<1>2. StillSo(tx[c], PointerRow, pointer)
  BY <1>1 DEF PromptView
<1> QED
  BY <1>1, <1>2 DEF StillSo, PromptTypes

\* A new revision is nobody's and not in production (create_revision).
LEMMA CreateRevisionWrites ==
  ASSUME TxInv, PromptTables, NEW c \in Clients, PromptView(c), CreateRevision(c)
  PROVE  PromptTables' /\ WritesOwn(c)
<1> DEFINE t == tx[c]
           new == NewRevision(t.request.arg, t.time)
<1>1. Open(c) /\ t.request.op = "create_revision"
  BY DEF CreateRevision, Granted
<1>2. t.key \in Revisions /\ t.request.arg \in Semantics /\ t.time \in Nat
  BY <1>1 DEF PromptView, PromptRequest, Revisions, TxInv, TxForm
<1>3. revisions[t.key] = None /\ revisions' = [revisions EXCEPT ![t.key] = new] /\ pointer' = pointer
  BY DEF CreateRevision
<1>4. new \in RevisionRecord /\ new.status = "DRAFT"
  BY <1>2 DEF NewRevision, RevisionRecord, Successor
<1> HIDE DEF new
<1>5. PromptTypes'
  BY <1>2, <1>3, <1>4 DEF PromptTables, PromptTypes
<1>6. WritesOwn(c)
  BY <1>2, <1>3 DEF WritesOwn, PromptTables, PromptTypes
<1>7. pointer # None => pointer.revision \in Revisions /\ pointer.revision # t.key
  BY <1>3 DEF PromptTables, PromptTypes, PointerFollows, PointerRecord
<1>8. PointerIsProduction'
  BY <1>3, <1>7 DEF PromptTables, PromptTypes, PointerIsProduction
<1>9. PointerFollows'
  <2>1. pointer # None => revisions'[pointer.revision] # None
    BY <1>3, <1>7 DEF PromptTables, PromptTypes, PointerFollows
  <2>2. ASSUME NEW r \in Revisions, revisions'[r] # None, revisions'[r].status = "PRODUCTION"
        PROVE  pointer # None
    BY <1>2, <1>3, <1>4, <2>2 DEF PromptTables, PromptTypes, PointerFollows
  <2> QED
    BY <1>3, <2>1, <2>2 DEF PointerFollows
<1> QED
  BY <1>5, <1>6, <1>8, <1>9 DEF PromptTables

\* A revision that is entered into a status is a revision in that status.
LEMMA EnteredIsRecord ==
  ASSUME NEW row \in RevisionRecord, NEW status \in {"REVIEW", "STAGING", "PRODUCTION", "DEPRECATED"},
         NEW version, NEW time \in Nat, MayEnter(row, status, version, time)
  PROVE  /\ Entered(row, status, time) \in RevisionRecord /\ Entered(row, status, time).status = status
         /\ row.status = "PRODUCTION" <=> status = "DEPRECATED"
<1>1. row.version + 1 \in Nat \ {0}
  BY DEF RevisionRecord
<1>2. Entered(row, status, time) \in RevisionRecord /\ Entered(row, status, time).status = status
  BY <1>1 DEF Entered, RevisionRecord, Successor
<1>3. row.status = "PRODUCTION" <=> status = "DEPRECATED"
  BY DEF MayEnter, Successor
<1> QED
  BY <1>2, <1>3

\* A revision that moves on does not leave the pointer behind (transition).
LEMMA TransitionWrites ==
  ASSUME TxInv, PromptTables, NEW c \in Clients, PromptView(c),
         SubmitForReview(c) \/ Stage(c) \/ Deprecate(c)
  PROVE  PromptTables' /\ WritesOwn(c)
<1> DEFINE t == tx[c]
           q == t.request.target
           row == t.view[RevisionRow(q)]
<1>1. PICK op, status :
        /\ Granted(c, op, PromptRows(t)) /\ MayEnter(row, status, t.request.version, t.time)
        /\ revisions' = [revisions EXCEPT ![q] = Entered(row, status, t.time)]
        /\ pointer' = pointer
        /\ \/ op = "submit_for_review" /\ status = "REVIEW"
           \/ op = "stage" /\ status = "STAGING"
           \/ op = "deprecate" /\ status = "DEPRECATED"
        /\ op = "deprecate" => IF t.view[PointerRow] = None THEN TRUE ELSE t.view[PointerRow].revision # q
  <2> DEFINE moves(op, status) ==
               /\ Granted(c, op, PromptRows(t)) /\ MayEnter(row, status, t.request.version, t.time)
               /\ revisions' = [revisions EXCEPT ![q] = Entered(row, status, t.time)]
  <2>1. SubmitForReview(c) => moves("submit_for_review", "REVIEW") /\ pointer' = pointer
    BY DEF SubmitForReview, Transition, SaveLifecycle
  <2>2. Stage(c) => moves("stage", "STAGING") /\ pointer' = pointer
    BY DEF Stage, Transition, SaveLifecycle
  <2>3. Deprecate(c) => /\ moves("deprecate", "DEPRECATED") /\ pointer' = pointer
                        /\ IF t.view[PointerRow] = None THEN TRUE ELSE t.view[PointerRow].revision # q
    BY DEF Deprecate, Transition, SaveLifecycle
  <2> QED
    BY <2>1, <2>2, <2>3
<1>2. Open(c) /\ t.request.op = op /\ t.time \in Nat /\ q \in Revisions
  BY <1>1 DEF Granted, PromptView, PromptRequest, TxInv, TxForm
<1>3. RevisionRow(q) \in {PromptRows(t)[i] : i \in DOMAIN PromptRows(t)}
  <2>1. PromptRows(t)[2] = RevisionRow(q) /\ 2 \in DOMAIN PromptRows(t)
    BY <1>1, <1>2 DEF PromptRows
  <2> QED
    BY <2>1
<1>4. row # None
  BY <1>1 DEF MayEnter
<1>5. row = revisions[q] /\ row \in RevisionRecord /\ RevisionRow(q) \in t.locks
  BY <1>1, <1>2, <1>3, <1>4, RevisionHeld DEF PromptTables
<1> DEFINE new == Entered(row, status, t.time)
<1>6. new \in RevisionRecord /\ new.status = status /\ new.status # "PRODUCTION"
  BY <1>1, <1>2, <1>5, EnteredIsRecord
<1>7. row.status = "PRODUCTION" <=> status = "DEPRECATED"
  BY <1>1, <1>2, <1>5, EnteredIsRecord
<1>8. pointer # None => pointer.revision # q /\ pointer.revision \in Revisions
  <2>1. CASE status # "DEPRECATED"
    BY <1>5, <1>7, <2>1 DEF PromptTables, PointerIsProduction, PromptTypes, PointerRecord
  <2>2. CASE status = "DEPRECATED"
    <3>1. PromptRows(t)[3] = PointerRow /\ 3 \in DOMAIN PromptRows(t)
      BY <1>1, <1>2, <2>2 DEF PromptRows
    <3>2. PointerRow \in DOMAIN t.view
      BY <1>1, <3>1 DEF Granted, HasRead
    <3>3. t.view[PointerRow] # None
      BY <1>1, <1>2, <1>4, <1>7, <2>2, <3>2 DEF PromptView
    <3>4. t.view[PointerRow] = pointer
      BY <1>1, <3>1, <3>3, PointerHeld DEF PromptTables
    <3> QED
      BY <1>1, <2>2, <3>3, <3>4 DEF PromptTables, PromptTypes, PointerRecord
  <2> QED
    BY <2>1, <2>2
<1> HIDE DEF new
<1>9. revisions' = [revisions EXCEPT ![q] = new] /\ revisions'[q] = new
      /\ \A r \in Revisions : r # q => revisions'[r] = revisions[r]
  BY <1>1, <1>2 DEF PromptTables, PromptTypes, new
<1>10. PromptTypes'
  BY <1>1, <1>6, <1>9 DEF PromptTables, PromptTypes
<1>11. PointerIsProduction'
  BY <1>1, <1>8, <1>9 DEF PromptTables, PointerIsProduction
<1>12. PointerFollows'
  BY <1>1, <1>6, <1>8, <1>9 DEF PromptTables, PointerFollows
<1>13. WritesOwn(c)
  BY <1>1, <1>5, <1>9 DEF WritesOwn
<1> QED
  BY <1>10, <1>11, <1>12, <1>13 DEF PromptTables

\* What is published is what the pointer comes to name (publish).
LEMMA PublishWrites ==
  ASSUME TxInv, PromptTables, NEW c \in Clients, PromptView(c), Publish(c)
  PROVE  PromptTables' /\ WritesOwn(c)
<1> DEFINE t == tx[c]
           q == t.request.target
           row == t.view[RevisionRow(q)]
           p == t.view[PointerRow]
           new == Entered(row, "PRODUCTION", t.time)
<1>1. /\ Granted(c, "publish", PromptRows(t)) /\ MayEnter(row, "PRODUCTION", t.request.version, t.time)
      /\ revisions' = [revisions EXCEPT ![q] = new]
  BY DEF Publish, SaveLifecycle
<1>2. Open(c) /\ t.request.op = "publish" /\ t.time \in Nat /\ q \in Revisions
  BY <1>1 DEF Granted, PromptView, PromptRequest, TxInv, TxForm
<1>3. PromptRows(t) = <<KeyRow(t), RevisionRow(q), PointerRow>>
  BY <1>2 DEF PromptRows
<1>4. row # None
  BY <1>1 DEF MayEnter
<1>5. row = revisions[q] /\ row \in RevisionRecord /\ RevisionRow(q) \in t.locks
  BY <1>1, <1>2, <1>3, <1>4, RevisionHeld DEF PromptTables
<1>6. new \in RevisionRecord /\ new.status = "PRODUCTION"
  BY <1>1, <1>2, <1>5, EnteredIsRecord
<1>7. /\ pointer' \in PointerRecord /\ pointer'.revision = q
      /\ pointer = None \/ PointerRow \in t.locks
  <2>1. CASE p = None
    BY <1>2, <2>1 DEF Publish, AddPointer, NewPointer, PointerRecord
  <2>2. CASE p # None
    <3>1. pointer \in PointerRecord /\ p = pointer /\ PointerRow \in t.locks
      BY <1>1, <1>3, <2>2, PointerHeld DEF PromptTables
    <3>2. pointer' = Repointed(p, q, t.time)
      BY <2>2 DEF Publish, SavePointer
    <3>3. p.version + 1 \in Nat \ {0}
      BY <3>1 DEF PointerRecord
    <3> QED
      BY <1>2, <3>1, <3>2, <3>3 DEF Repointed, PointerRecord
  <2> QED
    BY <2>1, <2>2
<1> HIDE DEF new
<1>8. revisions'[q] = new /\ \A r \in Revisions : r # q => revisions'[r] = revisions[r]
  BY <1>1, <1>2 DEF PromptTables, PromptTypes
<1>9. PromptTypes'
  BY <1>1, <1>6, <1>7 DEF PromptTables, PromptTypes
<1>10. PointerIsProduction' /\ PointerFollows'
  BY <1>6, <1>7, <1>8, PromptAssumption DEF PointerIsProduction, PointerFollows
<1>11. WritesOwn(c)
  BY <1>5, <1>7, <1>8 DEF WritesOwn
<1> QED
  BY <1>9, <1>10, <1>11 DEF PromptTables

\* The pointer is moved only to what is in production (select_production).
LEMMA SelectWrites ==
  ASSUME TxInv, PromptTables, NEW c \in Clients, PromptView(c), SelectProduction(c)
  PROVE  PromptTables' /\ WritesOwn(c)
<1> DEFINE t == tx[c]
           q == t.request.arg
           row == t.view[RevisionRow(q)]
           p == t.view[PointerRow]
<1>1. /\ Granted(c, "select_production", PromptRows(t)) /\ row # None /\ p # None /\ row.status = "PRODUCTION"
      /\ UNCHANGED revisions
  BY DEF SelectProduction
<1>2. Open(c) /\ t.request.op = "select_production" /\ t.time \in Nat /\ q \in Revisions
  BY <1>1 DEF Granted, PromptView, PromptRequest, TxInv, TxForm
<1>3. PromptRows(t) = <<KeyRow(t), RevisionRow(q), PointerRow>>
  BY <1>2 DEF PromptRows
<1>4. row = revisions[q]
  <2>1. PromptRows(t)[2] = RevisionRow(q) /\ 2 \in DOMAIN PromptRows(t)
    BY <1>3
  <2> QED
    BY <1>1, <1>2, <2>1, RevisionHeld DEF PromptTables
<1>5. p = pointer /\ pointer \in PointerRecord /\ PointerRow \in t.locks
  <2>1. PromptRows(t)[3] = PointerRow /\ 3 \in DOMAIN PromptRows(t)
    BY <1>3
  <2> QED
    BY <1>1, <2>1, PointerHeld DEF PromptTables
<1>6. pointer' \in PointerRecord /\ pointer'.revision = q
  <2>1. CASE p.revision = q
    BY <1>5, <2>1 DEF SelectProduction
  <2>2. CASE p.revision # q
    <3>1. pointer' = Repointed(p, q, t.time)
      BY <2>2 DEF SelectProduction, SavePointer
    <3>2. p.version + 1 \in Nat \ {0}
      BY <1>5 DEF PointerRecord
    <3> QED
      BY <1>2, <3>1, <3>2 DEF Repointed, PointerRecord
  <2> QED
    BY <2>1, <2>2
<1>7. PromptTypes' /\ PointerIsProduction' /\ PointerFollows'
  BY <1>1, <1>4, <1>6, PromptAssumption DEF PromptTables, PromptTypes, PointerIsProduction, PointerFollows
<1>8. WritesOwn(c)
  BY <1>1, <1>5 DEF WritesOwn
<1> QED
  BY <1>7, <1>8 DEF PromptTables

\* Every command of the registry keeps the tables and what is known of them.
LEMMA PromptKeeps ==
  ASSUME TxInv, PromptTables, \A d \in Clients : PromptView(d), NEW c \in Clients, PromptNext(c)
  PROVE  PromptTables' /\ \A d \in Clients : PromptView(d)'
<1>1. CASE PromptRead(c)
  <2>1. UNCHANGED promptVars
    BY <1>1 DEF PromptRead
  <2>2. PromptTables' /\ WritesOwn(c)
    BY <2>1 DEF promptVars, PromptTables, PromptTypes, PointerIsProduction, PointerFollows, WritesOwn
  <2> QED
    BY <1>1, <2>2, PromptRowsRead, PromptViewStays DEF PromptTables
<1>2. ASSUME PromptTables', WritesOwn(c), ~Open(c)', \A d \in Clients \ {c} : tx'[d] = tx[d]
      PROVE  PromptTables' /\ \A d \in Clients : PromptView(d)'
  <2>1. PromptView(c)'
    BY <1>2 DEF PromptView
  <2> QED
    BY <1>2, <2>1, PromptViewStays
<1>3. ASSUME Commit(c)
      PROVE  ~Open(c)' /\ \A d \in Clients \ {c} : tx'[d] = tx[d]
  BY <1>3 DEF Commit, Open, Idle, TxInv, TxForm
<1>4. CASE CreateRevision(c)
  BY <1>2, <1>3, <1>4, CreateRevisionWrites DEF CreateRevision
<1>5. CASE SubmitForReview(c) \/ Stage(c) \/ Deprecate(c)
  BY <1>2, <1>3, <1>5, TransitionWrites DEF SubmitForReview, Stage, Deprecate, Transition
<1>6. CASE Publish(c)
  BY <1>2, <1>3, <1>6, PublishWrites DEF Publish
<1>7. CASE SelectProduction(c)
  BY <1>2, <1>3, <1>7, SelectWrites DEF SelectProduction
<1>8. CASE Leave(c) /\ UNCHANGED promptVars
  <2>1. PromptTables' /\ WritesOwn(c)
    BY <1>8 DEF promptVars, PromptTables, PromptTypes, PointerIsProduction, PointerFollows, WritesOwn
  <2>2. ~Open(c)' /\ \A d \in Clients \ {c} : tx'[d] = tx[d]
    BY <1>8 DEF Leave, Open, Idle, TxInv, TxForm
  <2> QED
    BY <1>2, <2>1, <2>2
<1>9. ASSUME NEW k \in Keys, NEW r \in PromptRequests, Begin(c, k, r), UNCHANGED promptVars
      PROVE  PromptTables' /\ \A d \in Clients : PromptView(d)'
  <2>1. PromptTables' /\ WritesOwn(c)
    BY <1>9 DEF promptVars, PromptTables, PromptTypes, PointerIsProduction, PointerFollows, WritesOwn
  <2>2. /\ tx'[c].key = k /\ tx'[c].request = r /\ tx'[c].view = <<>>
        /\ \A d \in Clients \ {c} : tx'[d] = tx[d]
    BY <1>9 DEF Begin, TxInv, TxForm
  <2>3. PromptRequest(r)
    BY <1>9 DEF PromptRequests, PromptRequest, Request, Operation, PromptTables, PromptTypes, RevisionRecord, Successor
  <2>4. DOMAIN tx'[c].view = {}
    BY <2>2
  <2>5. PromptView(c)'
    BY <2>2, <2>3, <2>4 DEF PromptView, StillSo
  <2> QED
    BY <2>1, <2>2, <2>5, PromptViewStays
<1> QED
  BY <1>1, <1>4, <1>5, <1>6, <1>7, <1>8, <1>9 DEF PromptNext

\* The registry starts empty or with one published revision.
LEMMA RegistryInvInit == Init => RegistryInv
<1> SUFFICES ASSUME PromptInit, IdempotencyInit
             PROVE  RegistryInv
  BY DEF Init
<1>1. PICK published \in BOOLEAN :
        /\ revisions = [r \in Revisions |->
               IF r = Released /\ published THEN InStatus(r, "PRODUCTION", 4)
               ELSE IF r \in {Released, Staged} THEN InStatus(r, "STAGING", 3) ELSE None]
        /\ pointer = IF published THEN NewPointer(Released, 0) ELSE None
  BY DEF PromptInit
<1>2. /\ \A r \in {Released, Staged} : /\ InStatus(r, "PRODUCTION", 4) \in RevisionRecord
                                       /\ InStatus(r, "STAGING", 3) \in RevisionRecord
                                       /\ InStatus(r, "PRODUCTION", 4).status = "PRODUCTION"
                                       /\ InStatus(r, "STAGING", 3).status = "STAGING"
      /\ NewPointer(Released, 0) \in PointerRecord /\ NewPointer(Released, 0).revision = Released
      /\ Released \in Revisions
  BY DEF InStatus, NewPointer, RevisionRecord, PointerRecord, Successor, Revisions
<1>3. PromptTypes
  BY <1>1, <1>2 DEF PromptTypes
<1>4. PointerIsProduction /\ PointerFollows
  BY <1>1, <1>2, PromptAssumption DEF PointerIsProduction, PointerFollows
<1>5. \A c \in Clients : PromptView(c)
  BY DEF IdempotencyInit, Idle, PromptView, Open
<1> QED
  BY <1>3, <1>4, <1>5 DEF RegistryInv

\* Every step of every service keeps the registry's invariant.
LEMMA RegistryInvStays ==
  ASSUME TxInv, RegistryInv, [Next]_vars
  PROVE  RegistryInv'
<1>1. service' = service
  BY DEF Next, vars
<1>2. CASE service = "prompts" /\ \E c \in Clients : PromptNext(c)
  BY <1>1, <1>2, PromptKeeps DEF RegistryInv, PromptTables
<1>3. CASE service # "prompts" /\ UNCHANGED promptVars
  BY <1>1, <1>3 DEF RegistryInv, promptVars, PromptTypes, PointerIsProduction, PointerFollows
<1>4. CASE UNCHANGED vars
  BY <1>4 DEF vars, RegistryInv, promptVars, idempotencyVars, PromptTypes, PointerIsProduction, PointerFollows,
              PromptView, StillSo, Open
<1> QED
  BY <1>2, <1>3, <1>4 DEF Next

\* The tables of the registry agree, and what an open command has locked of
\* them is as it was read (PromptRegistryRepository, SELECT ... FOR UPDATE).
THEOREM RegistryInvariant == Spec => []RegistryInv
BY RegistryInvInit, RegistryInvStays, TransactionInvariant, PTL DEF Spec

\* The production pointer names a revision that is in PRODUCTION, so that
\* resolve_production finds one, whichever publications, selections and
\* deprecations race (PromptProductionPointer.repoint, deprecate).
THEOREM ProductionIsResolved == Spec => []PointerIsProduction
<1>1. RegistryInv => PointerIsProduction
  BY DEF RegistryInv
<1> QED
  BY <1>1, RegistryInvariant, PTL

-----------------------------------------------------------------------------
(* The control plane and the router *)

\* A head that is read is known as it is, the authority only while it is held.
LEMMA ControlRowsRead ==
  ASSUME TxInv, NEW c \in Clients, AuthorityInv, ControlView(c), ControlRead(c)
  PROVE  ControlView(c)' /\ \A d \in Clients \ {c} : tx'[d] = tx[d]
<1> DEFINE rows == ControlRows(tx[c])
<1>1. PICK row \in Owing(tx[c], rows) :
        CASE row[1] = "key" -> Claim(c)
          [] row[1] = "provider" -> ReadProvider(c, row)
          [] row[1] = "head" -> ReadHead(c, row)
          [] row[1] = "authority" -> ReadAuthority(c)
          [] OTHER -> Look(c, row, UNION {Latest(x) : x \in tx[c].view[AuthorityRow]})
  BY DEF ControlRead
<1>2. Open(c) /\ TxForm /\ LocksApart /\ UNCHANGED controlVars
  BY DEF ControlRead, TxInv
<1>3. \/ row = KeyRow(tx[c])
      \/ \E p : row = ProviderRow(p)
      \/ \E h : row = HeadRow(h)
      \/ row = AuthorityRow
      \/ row = ObservationRow
  BY DEF Owing, ControlRows
<1>4. PICK held, value :
        /\ Takes(c, held, row, value)
        /\ \A h : row = HeadRow(h) => value = heads[h] /\ row \in held
        /\ row = AuthorityRow => value = Current /\ \A x \in Current : HeadRow(x.endpoint) \in held
  <2>1. ASSUME row[1] \notin {"head", "authority"}, NEW held, NEW value, Takes(c, held, row, value)
        PROVE  \E hold, val :
                 /\ Takes(c, hold, row, val)
                 /\ \A h : row = HeadRow(h) => val = heads[h] /\ row \in hold
                 /\ row = AuthorityRow => val = Current /\ \A x \in Current : HeadRow(x.endpoint) \in hold
    BY <2>1 DEF HeadRow, AuthorityRow
  <2>2. CASE row = KeyRow(tx[c])
    <3>1. row[1] = "key"
      BY <2>2 DEF KeyRow
    <3>2. Takes(c, {row}, row, RecordOf(tx[c]))
      BY <1>1, <1>2, <2>2, <3>1, LockTakes DEF Claim
    <3> QED
      BY <2>1, <3>1, <3>2
  <2>3. CASE \E p : row = ProviderRow(p)
    <3>1. row[1] = "provider" /\ row # KeyRow(tx[c])
      BY <2>3 DEF ProviderRow, KeyRow
    <3>2. \E hold, val : Takes(c, hold, row, val)
      BY <1>1, <1>2, <3>1, LookTakes, LockTakes DEF ReadProvider
    <3> QED
      BY <2>1, <3>1, <3>2
  <2>4. CASE \E h : row = HeadRow(h)
    <3>1. row[1] = "head" /\ row # KeyRow(tx[c]) /\ row # AuthorityRow /\ \A h : row = HeadRow(h) => h = row[2]
      BY <2>4 DEF HeadRow, KeyRow, AuthorityRow
    <3>2. Lock(c, row, heads[row[2]])
      BY <1>1, <3>1 DEF ReadHead
    <3>3. Takes(c, {row}, row, heads[row[2]])
      BY <1>2, <3>1, <3>2, LockTakes
    <3> QED
      BY <3>1, <3>3
  <2>5. CASE row = AuthorityRow
    <3>1. row[1] = "authority" /\ row # KeyRow(tx[c]) /\ \A h : row # HeadRow(h)
      BY <2>5 DEF HeadRow, KeyRow, AuthorityRow
    <3>2. ReadAuthority(c)
      BY <1>1, <3>1
    <3>3. \A d \in Clients \ {c} : JoinedRows \cap tx[d].locks = {}
      BY <3>2 DEF ReadAuthority, Free
    <3>4. Takes(c, JoinedRows, row, Current)
      BY <1>2, <2>5, <3>1, <3>2, <3>3 DEF ReadAuthority, Takes
    <3>5. \A x \in Current : HeadRow(x.endpoint) \in JoinedRows
      BY DEF JoinedRows
    <3> QED
      BY <3>1, <3>4, <3>5
  <2>6. CASE row = ObservationRow
    <3>1. row[1] = "observations" /\ row # KeyRow(tx[c])
      BY <2>6 DEF ObservationRow, KeyRow
    <3>2. PICK val : Look(c, row, val)
      BY <1>1, <3>1
    <3>3. Takes(c, {}, row, val)
      BY <1>2, <3>1, <3>2, LookTakes
    <3> QED
      BY <2>1, <3>1, <3>3
  <2> QED
    BY <1>3, <2>2, <2>3, <2>4, <2>5, <2>6
<1>5. /\ \A d \in Clients \ {c} : tx'[d] = tx[d]
      /\ tx'[c].request = tx[c].request /\ tx'[c].locks = tx[c].locks \cup held
      /\ DOMAIN tx'[c].view = DOMAIN tx[c].view \cup {row}
      /\ \A x \in DOMAIN tx[c].view : tx'[c].view[x] = tx[c].view[x]
      /\ row \notin DOMAIN tx[c].view
      /\ row \notin DOMAIN tx[c].view => tx'[c].view[row] = value
  BY <1>2, <1>4, Taken DEF Owing
<1>6. ASSUME NEW h \in DOMAIN heads, HeadRow(h) \in DOMAIN tx'[c].view
      PROVE  HeadRow(h) \in tx'[c].locks /\ tx'[c].view[HeadRow(h)] = heads[h]
  BY <1>2, <1>4, <1>5, <1>6 DEF ControlView
<1>7. ASSUME AuthorityRow \in DOMAIN tx'[c].view, NEW x \in tx'[c].view[AuthorityRow]
      PROVE  x \in Current /\ HeadRow(x.endpoint) \in tx'[c].locks
  BY <1>2, <1>4, <1>5, <1>7 DEF ControlView
<1>8. Current' = Current
  BY <1>2 DEF controlVars, Current
<1>9. ControlView(c)'
  BY <1>2, <1>5, <1>6, <1>7, <1>8 DEF ControlView, controlVars
<1> QED
  BY <1>5, <1>9

\* A head changes for whoever holds it; nothing else of what makes a version current goes away.
HeadsOwn(c) ==
  /\ registered \subseteq registered' /\ capabilities \subseteq capabilities' /\ DOMAIN heads' = DOMAIN heads
  /\ \A h \in DOMAIN heads : heads'[h] = heads[h] \/ HeadRow(h) \in tx[c].locks

\* What another command writes, it holds; so what is known stays true.
LEMMA ControlViewStays ==
  ASSUME TxInv, AuthorityInv, NEW c \in Clients, HeadsOwn(c), NEW d \in Clients \ {c}, ControlView(d), tx'[d] = tx[d]
  PROVE  ControlView(d)'
<1>1. tx[c].locks \cap tx[d].locks = {}
  BY DEF TxInv, LocksApart
<1>2. ASSUME NEW x \in Current, HeadRow(x.endpoint) \in tx[d].locks
      PROVE  x \in Current'
  <2>1. x.endpoint \in DOMAIN heads
    BY <1>2 DEF Current, AuthorityInv
  <2>2. heads'[x.endpoint] = heads[x.endpoint]
    BY <1>1, <1>2, <2>1 DEF HeadsOwn
  <2> QED
    BY <1>2, <2>2 DEF HeadsOwn, Current
<1>3. ASSUME Open(d), NEW h \in DOMAIN heads', HeadRow(h) \in DOMAIN tx[d].view
      PROVE  HeadRow(h) \in tx[d].locks /\ tx[d].view[HeadRow(h)] = heads'[h]
  BY <1>1, <1>3 DEF HeadsOwn, ControlView
<1> QED
  BY <1>2, <1>3 DEF ControlView, Open

\* A head that is saved is held by the command that saves it (save_capability_head).
LEMMA SaveHeadOwn ==
  ASSUME AuthorityInv, NEW c \in Clients, ControlView(c), NEW op, Granted(c, op, ControlRows(tx[c])),
         NEW h, NEW head, NEW expected, SaveHead(h, head, expected),
         NEW i \in DOMAIN ControlRows(tx[c]), ControlRows(tx[c])[i] = HeadRow(h)
  PROVE  /\ DOMAIN heads' = DOMAIN heads
         /\ \A k \in DOMAIN heads : heads'[k] = heads[k] \/ HeadRow(k) \in tx[c].locks
<1>1. HeadRow(h) \in DOMAIN tx[c].view /\ Open(c)
  BY DEF Granted, HasRead
<1>2. h \in DOMAIN heads => HeadRow(h) \in tx[c].locks
  BY <1>1 DEF ControlView
<1> QED
  BY <1>2 DEF SaveHead

\* A command of the control plane writes no other head than its own.
LEMMA ControlWrites ==
  ASSUME TxInv, AuthorityInv, NEW c \in Clients, ControlView(c), ControlNext(c), Commit(c)
  PROVE  HeadsOwn(c) /\ registered' \subseteq Endpoints
<1>1. CASE RegisterProvider(c)
  <2>1. tx[c].request.target \in Endpoints
    BY <1>1 DEF RegisterProvider, Granted, ControlView
  <2> QED
    BY <1>1, <2>1 DEF RegisterProvider, HeadsOwn, AuthorityInv
<1>2. CASE RecordDiscoveryCandidate(c) \/ RecordEndpointObservation(c) \/ Route(c)
  BY <1>2 DEF RecordDiscoveryCandidate, RecordEndpointObservation, Route, HeadsOwn, AuthorityInv
<1>3. CASE PublishCapability(c)
  <2>1. PICK head, expected :
          /\ Granted(c, "publish_capability", ControlRows(tx[c]))
          /\ SaveHead(tx[c].request.target, head, expected)
          /\ registered' = registered /\ capabilities \subseteq capabilities'
    BY <1>3 DEF PublishCapability, AddCapabilityVersion
  <2>2. ControlRows(tx[c])[3] = HeadRow(tx[c].request.target) /\ 3 \in DOMAIN ControlRows(tx[c])
    BY <2>1 DEF Granted, ControlRows
  <2> QED
    BY <2>1, <2>2, SaveHeadOwn DEF HeadsOwn, AuthorityInv
<1>4. CASE RollbackCapability(c)
  <2>1. PICK head, expected :
          /\ Granted(c, "rollback_capability", ControlRows(tx[c]))
          /\ SaveHead(tx[c].request.target, head, expected)
          /\ registered' = registered /\ capabilities' = capabilities
    BY <1>4 DEF RollbackCapability
  <2>2. ControlRows(tx[c])[2] = HeadRow(tx[c].request.target) /\ 2 \in DOMAIN ControlRows(tx[c])
    BY <2>1 DEF Granted, ControlRows
  <2> QED
    BY <2>1, <2>2, SaveHeadOwn DEF HeadsOwn, AuthorityInv
<1>5. CASE PublishRoutePolicy(c) \/ RollbackRoutePolicy(c)
  <2>1. PICK op, head, expected :
          /\ op \in {"publish_route_policy", "rollback_route_policy"}
          /\ Granted(c, op, ControlRows(tx[c]))
          /\ SaveHead(Policy, head, expected)
          /\ registered' = registered /\ capabilities' = capabilities
    BY <1>5 DEF PublishRoutePolicy, RollbackRoutePolicy, SavePolicyHead
  <2>2. tx[c].request.target = Policy
    BY <2>1 DEF Granted, ControlView
  <2>3. ControlRows(tx[c])[2] = HeadRow(Policy) /\ 2 \in DOMAIN ControlRows(tx[c])
    BY <2>1, <2>2 DEF Granted, ControlRows
  <2> QED
    BY <2>1, <2>3, SaveHeadOwn DEF HeadsOwn, AuthorityInv
<1>6. CASE ControlRead(c) \/ UNCHANGED controlVars
  BY <1>6 DEF ControlRead, controlVars, HeadsOwn, AuthorityInv
<1> QED
  BY <1>1, <1>2, <1>3, <1>4, <1>5, <1>6 DEF ControlNext

\* A provider to be registered is a provider, and a policy command is about the policy.
LEMMA ControlTargets ==
  ASSUME NEW r \in ControlRequests
  PROVE  /\ r.op = "register_provider" => r.target \in Endpoints
         /\ r.op \in {"publish_route_policy", "rollback_route_policy"} => r.target = Policy
<1>1. r \in ObservationRequests => r.op = "record_endpoint_observation"
  <2> DEFINE observed == {q \in registered : heads[q].current > 0}
             seen == {<<1, FALSE>>, <<2, TRUE>>}
  <2>1. ObservationRequests =
            {Request("record_endpoint_observation", "observation", p, o, heads[p].current) : p \in observed, o \in seen}
    BY DEF ObservationRequests
  <2> HIDE DEF observed, seen
  <2> QED
    BY <2>1 DEF Request
<1>2. \A op, h : r \in RollbackRequests(op, h) => r.op = op /\ r.target = h
  BY DEF RollbackRequests, Request
<1> QED
  BY <1>1, <1>2 DEF ControlRequests, Request

\* Every command of the control plane keeps the heads and what is known of them.
LEMMA ControlKeeps ==
  ASSUME TxInv, AuthorityInv, \A d \in Clients : ControlView(d), NEW c \in Clients, ControlNext(c)
  PROVE  /\ DOMAIN heads' = DOMAIN heads /\ registered' \subseteq Endpoints
         /\ \A d \in Clients : ControlView(d)'
<1>1. UNCHANGED controlVars => HeadsOwn(c) /\ registered' \subseteq Endpoints
  BY DEF controlVars, HeadsOwn, AuthorityInv
<1>2. CASE ControlRead(c)
  BY <1>1, <1>2, ControlRowsRead, ControlViewStays DEF ControlRead, HeadsOwn
<1>3. ASSUME HeadsOwn(c), registered' \subseteq Endpoints, ControlView(c)', \A d \in Clients \ {c} : tx'[d] = tx[d]
      PROVE  /\ DOMAIN heads' = DOMAIN heads /\ registered' \subseteq Endpoints
             /\ \A d \in Clients : ControlView(d)'
  BY <1>3, ControlViewStays DEF HeadsOwn
<1>4. CASE Commit(c)
  <2>1. ~Open(c)' /\ \A d \in Clients \ {c} : tx'[d] = tx[d]
    BY <1>4 DEF Commit, Open, Idle, TxInv, TxForm
  <2> QED
    BY <1>3, <1>4, <2>1, ControlWrites DEF ControlView
<1>5. CASE Leave(c) /\ UNCHANGED controlVars
  <2>1. ~Open(c)' /\ \A d \in Clients \ {c} : tx'[d] = tx[d]
    BY <1>5 DEF Leave, Open, Idle, TxInv, TxForm
  <2> QED
    BY <1>1, <1>3, <1>5, <2>1 DEF ControlView
<1>6. ASSUME NEW k \in Keys, NEW r \in ControlRequests, Begin(c, k, r), UNCHANGED controlVars
      PROVE  /\ DOMAIN heads' = DOMAIN heads /\ registered' \subseteq Endpoints
             /\ \A d \in Clients : ControlView(d)'
  <2>1. /\ tx'[c].request = r /\ tx'[c].view = <<>>
        /\ \A d \in Clients \ {c} : tx'[d] = tx[d]
    BY <1>6 DEF Begin, TxInv, TxForm
  <2>2. DOMAIN tx'[c].view = {}
    BY <2>1
  <2>3. /\ r.op = "register_provider" => r.target \in Endpoints
        /\ r.op \in {"publish_route_policy", "rollback_route_policy"} => r.target = Policy
    BY <1>6, ControlTargets
  <2>4. ControlView(c)'
    BY <2>1, <2>2, <2>3 DEF ControlView
  <2> QED
    BY <1>1, <1>3, <1>6, <2>1, <2>4
<1> QED
  BY <1>2, <1>4, <1>5, <1>6 DEF ControlNext, RegisterProvider, RecordDiscoveryCandidate, PublishCapability, RollbackCapability,
       PublishRoutePolicy, RollbackRoutePolicy, RecordEndpointObservation, Route

\* At the beginning nothing is known.
LEMMA AuthorityInvInit == Init => AuthorityInv
BY DEF Init, ControlInit, IdempotencyInit, AuthorityInv, ControlView, InUse, Open, Idle

\* Every step of every service keeps the control plane's invariant.
LEMMA AuthorityInvStays ==
  ASSUME TxInv, AuthorityInv, [Next]_vars
  PROVE  AuthorityInv'
<1>1. service' = service
  BY DEF Next, vars
<1>2. Endpoints' = Endpoints
  BY DEF Endpoints
<1>3. CASE service = "control" /\ \E c \in Clients : ControlNext(c)
  <2>1. \A d \in Clients : ControlView(d)
    BY <1>3 DEF AuthorityInv
  <2> QED
    BY <1>1, <1>2, <1>3, <2>1, ControlKeeps DEF AuthorityInv
<1>4. CASE service # "control" /\ UNCHANGED controlVars
  BY <1>1, <1>4 DEF AuthorityInv, controlVars
<1>5. CASE UNCHANGED vars
  <2>1. Current' = Current
    BY <1>5 DEF vars, controlVars, Current
  <2> QED
    BY <1>1, <1>5, <2>1 DEF vars, AuthorityInv, controlVars, idempotencyVars, ControlView, Open
<1> QED
  BY <1>3, <1>4, <1>5 DEF Next

\* What an open command has read of the heads, and of the versions current
\* through them, is so until it ends (load_current_authority locks what it reads).
THEOREM AuthorityInvariant == Spec => []AuthorityInv
BY AuthorityInvInit, AuthorityInvStays, TransactionInvariant, PTL DEF Spec

\* The eligible versions are among those that were read as current.
LEMMA RouteDecides ==
  ASSUME NEW c \in Clients, AuthorityInv, ControlView(c), Route(c)
  PROVE  \A d \in decisions' \ decisions :
            /\ d.policy = heads[Policy].current
            /\ \A i \in DOMAIN d.ranked : d.ranked[i] \in Current /\ d.ranked[i].fit
<1> DEFINE t == tx[c]
           seen == t.view[ObservationRow]
           eligible == {x \in t.view[AuthorityRow] : Eligible(x, seen, t.time)}
<1>1. PICK ranked \in Ranked(eligible, seen) : decisions' = decisions \cup {[policy |-> t.request.arg, ranked |-> ranked]}
  BY DEF Route, AddDecision
<1>2. Open(c) /\ HeadRow(Policy) \in DOMAIN t.view /\ AuthorityRow \in DOMAIN t.view
  <2>1. ControlRows(t) = <<KeyRow(t), HeadRow(Policy), AuthorityRow, ObservationRow>>
    BY DEF Route, Granted, ControlRows
  <2>2. \A i \in DOMAIN ControlRows(t) : ControlRows(t)[i] \in DOMAIN t.view
    BY DEF Route, Granted, HasRead
  <2>3. {2, 3} \subseteq DOMAIN ControlRows(t) /\ ControlRows(t)[2] = HeadRow(Policy) /\ ControlRows(t)[3] = AuthorityRow
    BY <2>1
  <2> QED
    BY <2>2, <2>3 DEF Route, Granted
<1>3. t.request.arg = heads[Policy].current
  BY <1>2 DEF Route, AuthorityInv, ControlView
<1>4. \A x \in eligible : x \in Current /\ x.fit
  BY <1>2 DEF ControlView, Eligible
<1>5. \A i \in DOMAIN ranked : ranked[i] \in eligible
  BY <1>1 DEF Ranked
<1> QED
  BY <1>1, <1>3, <1>4, <1>5

\* A decision is made under the policy and from capability versions that are
\* current when it is committed, never from one that a publication or a
\* rollback has replaced meanwhile (load_current_authority).
THEOREM RoutesAreCurrent == Spec => RouteIsCurrent
<1>1. ASSUME AuthorityInv, [Next]_vars, decisions' # decisions
      PROVE  \A d \in decisions' \ decisions :
                /\ d.policy = heads[Policy].current
                /\ \A i \in DOMAIN d.ranked : d.ranked[i] \in Current /\ d.ranked[i].fit
  <2>1. service = "control" /\ \E c \in Clients : ControlNext(c)
    BY <1>1 DEF Next, vars, controlVars
  <2>2. PICK c \in Clients : Route(c)
    BY <1>1, <2>1 DEF ControlNext, controlVars, ControlRead, RegisterProvider, RecordDiscoveryCandidate, PublishCapability,
         RollbackCapability, PublishRoutePolicy, RollbackRoutePolicy, RecordEndpointObservation
  <2>3. ControlView(c)
    BY <1>1, <2>1 DEF AuthorityInv
  <2> QED
    BY <1>1, <2>2, <2>3, RouteDecides
<1>2. AuthorityInv /\ [Next]_vars =>
        [decisions' # decisions =>
           \A d \in decisions' \ decisions :
              /\ d.policy = heads[Policy].current
              /\ \A i \in DOMAIN d.ranked : d.ranked[i] \in Current /\ d.ranked[i].fit]_<<decisions, heads>>
  BY <1>1
<1> QED
  BY <1>2, AuthorityInvariant, PTL DEF Spec, RouteIsCurrent
-----------------------------------------------------------------------------
(* The brand profiles *)

Relies(p, a) == profiles[p] # None /\ profiles[p].state = "ACTIVE" /\ a \in DOMAIN profiles[p].pins

\* Whoever relies on an asset after a step without being found out relied on
\* it before and was not found out then.
NoneSlips ==
  \A p \in Profiles, a \in BrandAssets, n \in Int :
     Relies(p, a)' /\ n <= assets[a].version =>
        FoundOut(p, a, n)' \/ (Relies(p, a) /\ ~FoundOut(p, a, n))

\* What a step leaves to another transaction.
Respects(d) ==
  /\ \A p \in Profiles : profiles'[p] = profiles[p] \/ profiles[p] = None \/ ProfileRow(p) \notin tx[d].locks
  /\ \A a \in BrandAssets : AssetRow(a) \in tx[d].locks =>
        \A seen : AsRead(seen, assets[a]) => AsRead(seen, assets'[a])
  /\ \A e : EventKnown(e) => EventKnown(e)'
  /\ tx'[d] = tx[d]

\* The fields of a profile record, one by one.
LEMMA RecordFields ==
  ASSUME NEW row \in ProfileRecord
  PROVE  /\ row.profileKey \in ProfileKeys \cup {Active} /\ row.state \in {"DRAFT", "ACTIVE", "NEEDS_REPUBLISH"}
         /\ row.draft \subseteq BrandAssets /\ row.number \in Nat /\ row.version \in Nat \ {0}
         /\ row.pins \in Pinned /\ DOMAIN row.pins \subseteq BrandAssets
<1>1. /\ row.profileKey \in ProfileKeys \cup {Active} /\ row.state \in {"DRAFT", "ACTIVE", "NEEDS_REPUBLISH"}
      /\ row.draft \subseteq BrandAssets /\ row.number \in Nat /\ row.version \in Nat \ {0}
      /\ row.pins \in Pinned
  BY DEF ProfileRecord
<1>2. PICK members \in SUBSET BrandAssets : row.pins \in [members -> 1..(MaxAssetChanges + 1)]
  BY <1>1 DEF Pinned
<1> QED
  BY <1>1, <1>2

\* A step after which nothing slips through keeps the active profiles live or
\* found out.
LEMMA ActiveStays ==
  ASSUME BrandTables, BrandTypes', \A e \in rightsEvents' : EventKnown(e)', NoneSlips
  PROVE  ActiveIsLive'
<1> SUFFICES ASSUME NEW p \in Profiles, NEW a, Relies(p, a)'
             PROVE  \/ LivePinned(profiles[p], a, assets[a])'
                    \/ assets'[a].status \in {"LAPSED", "DELETING"}
                    \/ \E e \in rightsEvents' : e.asset = a
  BY DEF ActiveIsLive, Relies, Profiles
<1>1. profiles'[p] \in ProfileRecord
  BY DEF BrandTypes, Relies, Profiles
<1>2. a \in BrandAssets
  BY <1>1, RecordFields DEF Relies
<1>3. assets[a].version \in Nat
  BY <1>2 DEF BrandTables, BrandTypes
<1>4. Relies(p, a) => FoundOut(p, a, -1)
  BY DEF BrandTables, ActiveIsLive, Relies, FoundOut, EventKnown
<1>5. FoundOut(p, a, -1)'
  BY <1>2, <1>3, <1>4 DEF NoneSlips
<1> QED
  BY <1>5 DEF FoundOut

\* What an open transaction knows stays known through a step that respects it.
LEMMA BrandViewStays ==
  ASSUME BrandTables, NEW d \in Clients, BrandView(d), Respects(d), NoneSlips
  PROVE  BrandView(d)'
<1> SUFFICES ASSUME Open(d)
             PROVE  BrandView(d)'
  BY DEF BrandView, Respects, Open
<1>1. PICK t : t = tx[d] /\ t = tx'[d]
  BY DEF Respects
<1>2. PICK a, n : a = t.request.target /\ n = EventOf(t).version
  OBVIOUS
<1>3. BrandRequest(t.request) /\ BrandRequest(t.request)'
  BY <1>1 DEF BrandView, BrandRequest, Respects, Profiles, Handlers
<1>4. ASSUME NEW p \in Profiles
      PROVE  StillSo(t, ProfileRow(p), profiles'[p])
  BY <1>1, <1>4 DEF BrandView, StillSo, Respects
<1>5. ASSUME NEW b \in BrandAssets, AssetRow(b) \in DOMAIN t.view
      PROVE  AssetRow(b) \in t.locks /\ AsRead(t.view[AssetRow(b)], assets'[b])
  BY <1>1, <1>5 DEF BrandView, Respects
<1>6. ASSUME t.request.op \in Handlers, CandidateRow(a) \in DOMAIN t.view
      PROVE  HandlerView(t)'
  <2>1. PICK found : found = t.view[CandidateRow(a)]
    OBVIOUS
  <2>2. /\ DOMAIN found \subseteq Profiles
        /\ \A p \in DOMAIN found : ProfileRow(p) \in t.locks /\ profiles[p] # None /\ profiles[p] = found[p]
        /\ \A p \in Profiles \ DOMAIN found : Relies(p, a) => FoundOut(p, a, n)
    BY <1>1, <1>2, <1>6, <2>1 DEF BrandView, HandlerView, Relies
  <2>3. \A p \in DOMAIN found : profiles'[p] = profiles[p]
    BY <1>1, <2>2 DEF Respects
  <2>4. a \in BrandAssets /\ n \in Int /\ n <= assets[a].version
    BY <1>2, <1>3, <1>6 DEF BrandRequest, EventKnown, EventOf
  <2>5. \A p \in Profiles \ DOMAIN found : Relies(p, a)' => FoundOut(p, a, n)'
    BY <2>2, <2>4 DEF NoneSlips
  <2> QED
    BY <1>2, <2>1, <2>2, <2>3, <2>5 DEF HandlerView, Relies, Profiles
<1> QED
  BY <1>1, <1>2, <1>3, <1>4, <1>5, <1>6 DEF BrandView, Profiles, BrandAssets, Handlers

\* Nothing is known of the events that the assets do not tell.
LEMMA EventsKnownStill ==
  ASSUME assets' = assets
  PROVE  \A e : EventKnown(e)' <=> EventKnown(e)
BY DEF EventKnown, BrandAssets

\* A command changes one profile.  It may leave it active only on the
\* publication it had, or on assets that are live.
LEMMA ProfileChanges ==
  ASSUME BrandTables, NEW q \in Profiles, NEW row \in ProfileRecord,
         profiles' = [profiles EXCEPT ![q] = row], UNCHANGED <<assets, rightsEvents, changes>>,
         \/ row.state # "ACTIVE"
         \/ profiles[q] # None /\ row.state = profiles[q].state /\ row.pins = profiles[q].pins
         \/ \A a \in DOMAIN row.pins : LivePinned(row, a, assets[a])
  PROVE  /\ BrandTables' /\ NoneSlips
         /\ profiles'[q] = row /\ \A p \in Profiles \ {q} : profiles'[p] = profiles[p]
<1>1. /\ profiles \in [Profiles -> ProfileRecord \cup {None}]
      /\ profiles'[q] = row /\ \A p \in Profiles \ {q} : profiles'[p] = profiles[p]
  BY DEF BrandTables, BrandTypes
<1>2. profiles' \in [Profiles -> ProfileRecord \cup {None}]
  BY <1>1
<1>3. BrandTypes'
  BY <1>2 DEF BrandTables, BrandTypes, Profiles, BrandAssets, ProfileRecord, Pinned
<1>4. \A e \in rightsEvents' : EventKnown(e)'
  BY EventsKnownStill DEF BrandTables
<1>5. ASSUME NEW p \in Profiles, NEW a \in BrandAssets, NEW n \in Int, Relies(p, a)'
      PROVE  FoundOut(p, a, n)' \/ (Relies(p, a) /\ ~FoundOut(p, a, n))
  <2>1. CASE profiles'[p] = profiles[p]
    BY <1>5, <2>1 DEF Relies, FoundOut, LivePinned, Usable
  <2>2. CASE p = q
    BY <1>1, <1>5, <2>2 DEF Relies, FoundOut, LivePinned, Usable
  <2> QED
    BY <1>1, <2>1, <2>2
<1>6. NoneSlips
  BY <1>5 DEF NoneSlips
<1>7. ActiveIsLive'
  BY <1>3, <1>4, <1>6, ActiveStays
<1>8. changes' <= MaxAssetChanges /\ \A a \in BrandAssets' : assets'[a].rights <= changes' + 1
  BY DEF BrandTables, BrandAssets
<1> QED
  BY <1>1, <1>3, <1>4, <1>6, <1>7, <1>8 DEF BrandTables

\* A transaction leaves the others what they hold if it writes only what it
\* holds itself, or what was not there.
LEMMA OwnProfile ==
  ASSUME TxInv, NEW c \in Clients, NEW d \in Clients \ {c}, NEW q \in Profiles,
         \A p \in Profiles \ {q} : profiles'[p] = profiles[p],
         profiles[q] = None \/ ProfileRow(q) \in tx[c].locks,
         assets' = assets, tx'[d] = tx[d]
  PROVE  Respects(d)
<1>1. tx[c].locks \cap tx[d].locks = {}
  BY DEF TxInv, LocksApart
<1> QED
  BY <1>1, EventsKnownStill DEF Respects

\* The creation of a profile makes a draft, on which nothing relies.
LEMMA CreateProfileWrites ==
  ASSUME TxInv, BrandTables, NEW c \in Clients, BrandView(c), CreateProfile(c),
         \A d \in Clients \ {c} : tx'[d] = tx[d]
  PROVE  BrandTables' /\ NoneSlips /\ \A d \in Clients \ {c} : Respects(d)
<1>1. PICK t, row : t = tx[c] /\ row = NewProfile(t.request.target, t.request.arg)
  OBVIOUS
<1>2. /\ Open(c) /\ t.request.op = "create_profile" /\ profiles[t.key] = None
      /\ profiles' = [profiles EXCEPT ![t.key] = row] /\ UNCHANGED <<assets, rightsEvents, changes>>
  BY <1>1 DEF CreateProfile, Granted
<1>3. t.request.target \in ProfileKeys /\ t.request.arg \subseteq BrandAssets /\ t.key \in Keys
  BY <1>1, <1>2 DEF BrandView, BrandRequest, Drafts, Handlers
<1>4. <<>> \in Pinned
  <2>1. <<>> \in [{} -> 1..(MaxAssetChanges + 1)] /\ {} \in SUBSET BrandAssets
    OBVIOUS
  <2> QED
    BY <2>1 DEF Pinned
<1>5. row \in ProfileRecord /\ row.state = "DRAFT"
  BY <1>1, <1>3, <1>4 DEF NewProfile, ProfileRecord
<1> QED
  BY <1>2, <1>3, <1>5, ProfileChanges, OwnProfile DEF Profiles

\* The profile that a command has read is held, and as it was read.
LEMMA ProfileHeld ==
  ASSUME BrandTables, NEW c \in Clients, BrandView(c), Open(c), NEW q \in Profiles,
         ProfileRow(q) \in DOMAIN tx[c].view, tx[c].view[ProfileRow(q)] # None
  PROVE  tx[c].view[ProfileRow(q)] = profiles[q] /\ profiles[q] \in ProfileRecord /\ ProfileRow(q) \in tx[c].locks
<1>1. StillSo(tx[c], ProfileRow(q), profiles[q])
  BY DEF BrandView
<1> QED
  BY <1>1 DEF StillSo, BrandTables, BrandTypes

\* An edit touches the draft only: what is published stays as it is.
LEMMA UpdateDraftWrites ==
  ASSUME TxInv, BrandTables, NEW c \in Clients, BrandView(c), UpdateDraft(c),
         \A d \in Clients \ {c} : tx'[d] = tx[d]
  PROVE  BrandTables' /\ NoneSlips /\ \A d \in Clients \ {c} : Respects(d)
<1>1. PICK t, q, p : t = tx[c] /\ q = t.request.target /\ p = t.view[ProfileRow(q)]
  OBVIOUS
<1>2. /\ Open(c) /\ t.request.op = "update_draft" /\ HasRead(t, BrandRows(t)) /\ p # None
      /\ profiles' = [profiles EXCEPT ![q] = Edited(p, t.request.arg)] /\ UNCHANGED <<assets, rightsEvents, changes>>
  BY <1>1 DEF UpdateDraft, Granted, SaveProfile
<1>3. q \in Profiles /\ t.request.arg \subseteq BrandAssets
  BY <1>1, <1>2 DEF BrandView, BrandRequest, Drafts
<1>4. ProfileRow(q) \in DOMAIN t.view
  <2>1. BrandRows(t) = <<ProfileRow(q), KeyRow(t)>>
    BY <1>1, <1>2 DEF BrandRows
  <2>2. BrandRows(t)[1] = ProfileRow(q) /\ 1 \in DOMAIN BrandRows(t)
    BY <2>1
  <2> QED
    BY <1>2, <2>2 DEF HasRead
<1>5. p = profiles[q] /\ p \in ProfileRecord /\ ProfileRow(q) \in tx[c].locks
  BY <1>1, <1>2, <1>3, <1>4, ProfileHeld
<1>6. /\ Edited(p, t.request.arg) \in ProfileRecord
      /\ Edited(p, t.request.arg).state = p.state /\ Edited(p, t.request.arg).pins = p.pins
  <2>1. p.version + 1 \in Nat \ {0}
    BY <1>5, RecordFields
  <2> QED
    BY <1>3, <1>5, <2>1 DEF Edited, ProfileRecord
<1> QED
  BY <1>2, <1>3, <1>5, <1>6, ProfileChanges, OwnProfile

\* What a publication pins is live: it holds the assets it has assessed, and
\* rights that have lapsed meanwhile are noticed (publish).
LEMMA PublishProfileWrites ==
  ASSUME TxInv, BrandTables, NEW c \in Clients, BrandView(c), PublishProfile(c),
         \A d \in Clients \ {c} : tx'[d] = tx[d]
  PROVE  BrandTables' /\ NoneSlips /\ \A d \in Clients \ {c} : Respects(d)
<1>1. PICK t, q, p : t = tx[c] /\ q = t.request.target /\ p = t.view[ProfileRow(q)]
  OBVIOUS
<1>2. PICK row : row = Published(p, Pins(t, p.draft))
  OBVIOUS
<1>3. /\ Open(c) /\ t.request.op = "publish_profile" /\ HasRead(t, BrandRows(t)) /\ p # None /\ Assessed(t, p.draft)
      /\ profiles' = [profiles EXCEPT ![q] = row] /\ UNCHANGED <<assets, rightsEvents, changes>>
  BY <1>1, <1>2 DEF PublishProfile, Granted, SaveProfile
<1>4. q \in Profiles
  BY <1>1, <1>3 DEF BrandView, BrandRequest
<1>5. \A i \in 0..(NAssets + 1) : PublicationRows(t)[i] \in DOMAIN t.view
  BY <1>3 DEF HasRead, BrandRows, PublicationRows
<1>6. ProfileRow(q) \in DOMAIN t.view
  <2> SUFFICES ASSUME ProfileRow(q) \notin DOMAIN t.view
               PROVE  FALSE
    OBVIOUS
  <2>1. DraftRead(t) = {}
    BY <1>1 DEF DraftRead
  <2>2. 0 \in 0..(NAssets + 1) /\ 0 # NAssets + 1
    BY BrandAssumption
  <2>3. PublicationRows(t)[0] = ProfileRow(q)
    BY <1>1, <2>1, <2>2 DEF PublicationRows
  <2> QED
    BY <1>5, <2>2, <2>3
<1>7. p = profiles[q] /\ p \in ProfileRecord /\ ProfileRow(q) \in tx[c].locks
  BY <1>1, <1>3, <1>4, <1>6, ProfileHeld
<1>8. ASSUME NEW a \in p.draft
      PROVE  /\ a \in BrandAssets /\ t.view[AssetRow(a)].rights = assets[a].rights
             /\ assets[a].status = "USABLE"
  <2>1. a \in BrandAssets
    BY <1>7, RecordFields
  <2>2. a \in 0..(NAssets + 1) /\ a # NAssets + 1
    BY <2>1, BrandAssumption DEF BrandAssets
  <2>3. a \in DraftRead(t)
    BY <1>1, <1>3, <1>6 DEF DraftRead
  <2>4. PublicationRows(t)[a] = AssetRow(a)
    BY <2>2, <2>3 DEF PublicationRows
  <2>5. AsRead(t.view[AssetRow(a)], assets[a])
    BY <1>1, <1>3, <1>5, <2>1, <2>2, <2>4 DEF BrandView
  <2>6. t.view[AssetRow(a)].status = "USABLE" /\ assets[a].status # "LAPSED"
    BY <1>3 DEF Assessed, Usable
  <2> QED
    BY <2>1, <2>5, <2>6 DEF AsRead
<1>9. Pins(t, p.draft) \in Pinned
  <2>1. ASSUME NEW a \in p.draft
        PROVE  t.view[AssetRow(a)].rights \in 1..(MaxAssetChanges + 1)
    <3>1. /\ assets[a].rights \in Nat \ {0} /\ assets[a].rights <= changes + 1
          /\ changes \in Nat /\ changes <= MaxAssetChanges
      BY <1>8 DEF BrandTables, BrandTypes
    <3> QED
      BY <1>8, <3>1, BrandAssumption
  <2>2. Pins(t, p.draft) \in [p.draft -> 1..(MaxAssetChanges + 1)]
    BY <2>1 DEF Pins
  <2> QED
    BY <1>7, <2>2, RecordFields DEF Pinned
<1>10. row \in ProfileRecord /\ row.pins = Pins(t, p.draft)
  <2>1. p.version + 1 \in Nat \ {0} /\ p.number + 1 \in Nat
    BY <1>7, RecordFields
  <2> QED
    BY <1>2, <1>7, <1>9, <2>1 DEF Published, ProfileRecord
<1>11. \A a \in DOMAIN row.pins : LivePinned(row, a, assets[a])
  BY <1>8, <1>10 DEF Pins, LivePinned, Usable
<1> QED
  BY <1>3, <1>4, <1>7, <1>10, <1>11, ProfileChanges, OwnProfile

\* A handler gives its event up.  Every profile that relied on the asset
\* either was found, and is marked or live, or is found out by a later event
\* (invalidate_asset, invalidate_foundation_asset_deletion).
LEMMA HandlerWrites ==
  ASSUME TxInv, BrandTables, NEW c \in Clients, BrandView(c), InvalidateAsset(c) \/ InvalidateDeletion(c),
         \A d \in Clients \ {c} : tx'[d] = tx[d]
  PROVE  BrandTables' /\ NoneSlips /\ \A d \in Clients \ {c} : Respects(d)
<1>1. PICK t, a, e, found, seen :
        /\ t = tx[c] /\ a = t.request.target /\ e = EventOf(t)
        /\ found = t.view[CandidateRow(a)] /\ seen = t.view[AssetRow(a)]
  OBVIOUS
<1>2. Open(c) /\ t.request.op \in Handlers /\ HasRead(t, BrandRows(t))
  BY <1>1 DEF InvalidateAsset, InvalidateDeletion, Granted, Handlers
<1>3. /\ a \in BrandAssets /\ e.asset = a /\ e.version \in Nat /\ e.version <= assets[a].version
      /\ e.deleted => assets[a].status = "DELETED" /\ e.version = assets[a].version
      /\ t.request.op = "invalidate_deletion" => e.deleted
  BY <1>1, <1>2 DEF BrandView, BrandRequest, EventKnown, EventOf
<1>4. CandidateRow(a) \in DOMAIN t.view /\ AssetRow(a) \in DOMAIN t.view
  <2>1. BrandRows(t) = <<CandidateRow(a), AssetRow(a)>>
    BY <1>1, <1>2 DEF BrandRows, Handlers
  <2>2. BrandRows(t)[1] = CandidateRow(a) /\ BrandRows(t)[2] = AssetRow(a) /\ {1, 2} \subseteq DOMAIN BrandRows(t)
    BY <2>1
  <2> QED
    BY <1>2, <2>2 DEF HasRead
<1>5. AsRead(seen, assets[a])
  BY <1>1, <1>2, <1>3, <1>4 DEF BrandView
<1>6. /\ DOMAIN found \subseteq Profiles
      /\ \A p \in DOMAIN found : ProfileRow(p) \in t.locks /\ profiles[p] # None /\ profiles[p] = found[p]
      /\ \A p \in Profiles \ DOMAIN found : Relies(p, a) => FoundOut(p, a, e.version)
  BY <1>1, <1>2, <1>4 DEF BrandView, HandlerView, Relies
<1>7. PICK stale \in SUBSET DOMAIN found :
        /\ profiles' = [p \in Profiles |-> IF p \in stale THEN MarkNeedsRepublish(found[p]) ELSE profiles[p]]
        /\ \A p \in DOMAIN found \ stale :
              p \in Profiles => LivePinned(found[p], a, assets[a]) \/ assets[a].status = "LAPSED"
  <2>1. CASE InvalidateAsset(c)
    <3>1. PICK marked : marked = {p \in DOMAIN found : ~LivePinned(found[p], a, seen)}
      OBVIOUS
    <3>2. profiles' = [p \in Profiles |-> IF p \in marked THEN MarkNeedsRepublish(found[p]) ELSE profiles[p]]
      BY <1>1, <2>1, <3>1 DEF InvalidateAsset
    <3>3. \A p \in DOMAIN found \ marked : LivePinned(found[p], a, assets[a]) \/ assets[a].status = "LAPSED"
      BY <1>5, <3>1 DEF LivePinned, Usable, AsRead
    <3> QED
      BY <3>1, <3>2, <3>3
  <2>2. CASE InvalidateDeletion(c)
    <3>1. t.request.op = "invalidate_deletion"
      BY <1>1, <2>2 DEF InvalidateDeletion, Granted
    <3>2. ~(seen.version > e.version)
      BY <1>3, <1>5, <3>1 DEF AsRead
    <3>3. profiles' = [p \in Profiles |-> IF p \in DOMAIN found THEN MarkNeedsRepublish(found[p]) ELSE profiles[p]]
      BY <1>1, <2>2, <3>2 DEF InvalidateDeletion
    <3> QED
      BY <3>3
  <2> QED
    BY <2>1, <2>2
<1>8. rightsEvents' = rightsEvents \ {e} /\ assets' = assets /\ changes' = changes
  BY <1>1 DEF InvalidateAsset, InvalidateDeletion
<1>9. ASSUME NEW p \in stale
      PROVE  profiles'[p] \in ProfileRecord /\ profiles'[p].state = "NEEDS_REPUBLISH"
  <2>1. found[p] \in ProfileRecord /\ profiles'[p] = MarkNeedsRepublish(found[p])
    BY <1>6, <1>7 DEF BrandTables, BrandTypes
  <2>2. found[p].version + 1 \in Nat \ {0}
    BY <2>1, RecordFields
  <2> QED
    BY <2>1, <2>2 DEF MarkNeedsRepublish, ProfileRecord
<1>10. \A p \in Profiles \ stale : profiles'[p] = profiles[p]
  BY <1>7
<1>11. BrandTypes'
  <2>1. \A p \in Profiles : profiles'[p] \in ProfileRecord \cup {None}
    BY <1>9, <1>10 DEF BrandTables, BrandTypes
  <2>2. profiles' \in [Profiles -> ProfileRecord \cup {None}]
    BY <1>7, <2>1
  <2> QED
    BY <1>8, <2>2 DEF BrandTables, BrandTypes, Profiles, BrandAssets, ProfileRecord, Pinned
<1>12. \A x \in rightsEvents' : EventKnown(x)'
  BY <1>8, EventsKnownStill DEF BrandTables
<1>13. ASSUME NEW p \in Profiles, NEW b \in BrandAssets, NEW n \in Int, Relies(p, b)', FoundOut(p, b, n)
       PROVE  FoundOut(p, b, n)'
  <2>1. profiles'[p] = profiles[p] /\ p \notin stale /\ Relies(p, b)
    BY <1>9, <1>10, <1>13 DEF Relies
  <2>2. CASE LivePinned(profiles[p], b, assets[b]) \/ assets[b].status \in {"LAPSED", "DELETING"}
    BY <1>8, <2>1, <2>2 DEF FoundOut, LivePinned, Usable
  <2>3. CASE \E x \in rightsEvents : x # e /\ x.asset = b /\ x.version > n
    BY <1>8, <2>3 DEF FoundOut
  <2>4. CASE a = b /\ e.version > n
    <3>1. CASE p \in DOMAIN found
      BY <1>6, <1>7, <1>8, <2>1, <2>4, <3>1 DEF FoundOut, LivePinned, Usable
    <3>2. CASE p \notin DOMAIN found
      <4>1. FoundOut(p, b, e.version)
        BY <1>6, <2>1, <2>4, <3>2
      <4>2. \A x \in rightsEvents : x.version \in Nat
        BY DEF BrandTables, EventKnown
      <4>3. ASSUME NEW x \in rightsEvents, x.asset = b, x.version > e.version
            PROVE  x # e /\ x.version > n
        BY <1>3, <2>4, <4>2, <4>3
      <4> QED
        BY <1>8, <2>2, <2>3, <4>1, <4>3 DEF FoundOut
    <3> QED
      BY <3>1, <3>2
  <2> QED
    BY <1>3, <1>13, <2>2, <2>3, <2>4 DEF FoundOut
<1>14. NoneSlips
  <2>1. ASSUME NEW p \in Profiles, NEW b, Relies(p, b)'
        PROVE  Relies(p, b)
    BY <1>9, <1>10, <2>1 DEF Relies
  <2> QED
    BY <1>13, <2>1 DEF NoneSlips
<1>15. ActiveIsLive'
  BY <1>11, <1>12, <1>14, ActiveStays
<1>16. BrandTables'
  BY <1>8, <1>11, <1>12, <1>15 DEF BrandTables, BrandAssets
<1>17. ASSUME NEW d \in Clients \ {c}
       PROVE  Respects(d)
  <2>1. tx[c].locks \cap tx[d].locks = {}
    BY DEF TxInv, LocksApart
  <2> QED
    BY <1>1, <1>6, <1>7, <1>8, <1>10, <2>1, EventsKnownStill DEF Respects
<1> QED
  BY <1>14, <1>16, <1>17

AssetRecord == [rights : Nat \ {0}, version : Nat \ {0},
                status : {"USABLE", "LAPSED", "UNUSABLE", "DELETING", "DELETED"}]

AssetMove(a, row) ==
  /\ assets' = [assets EXCEPT ![a] = row] /\ row \in AssetRecord
  /\ row.rights <= changes' + 1 /\ changes' = changes + 1 /\ changes' <= MaxAssetChanges
  /\ row.version >= assets[a].version /\ assets[a].status # "DELETED"
  /\ UNCHANGED <<profiles, idempotencyVars>>
  /\ \/ /\ row.status = "LAPSED" /\ row.rights = assets[a].rights /\ row.version = assets[a].version
        /\ rightsEvents' = rightsEvents
     \/ /\ \A c \in Clients : AssetRow(a) \notin tx[c].locks
        /\ row.version > assets[a].version
        /\ \/ row.status = "DELETING" /\ rightsEvents' = rightsEvents
           \/ \E deleted \in BOOLEAN :
                /\ deleted => row.status = "DELETED"
                /\ rightsEvents' = rightsEvents \cup {[asset |-> a, version |-> row.version, deleted |-> deleted]}

\* A change of an asset is announced, or shows as a deletion or a lapse that
\* are announced later.  Who holds the asset sees nothing but a lapse.
LEMMA AssetWrites ==
  ASSUME TxInv, BrandTables, NEW a \in ChangingAssets, AssetNext(a)
  PROVE  BrandTables' /\ NoneSlips /\ \A d \in Clients : Respects(d)
<1>1. /\ a \in BrandAssets /\ changes \in Nat /\ changes <= MaxAssetChanges /\ MaxAssetChanges \in Nat
      /\ assets[a].rights \in Nat \ {0} /\ assets[a].version \in Nat \ {0} /\ assets[a].rights <= changes + 1
      /\ DOMAIN assets = BrandAssets
  BY BrandAssumption DEF BrandTables, BrandTypes, BrandAssets
<1>2. PICK row : AssetMove(a, row)
  <2>1. assets[a] \in AssetRecord
    BY <1>1 DEF BrandTables, BrandTypes, AssetRecord
  <2>2. /\ assets[a].version + 1 \in Nat \ {0} /\ assets[a].rights + 1 \in Nat \ {0}
        /\ assets[a].version + 1 > assets[a].version /\ assets[a].version + 1 >= assets[a].version
        /\ assets[a].version >= assets[a].version
    BY <1>1
  <2>3. ASSUME changes < MaxAssetChanges, changes' = changes + 1
        PROVE  /\ changes' <= MaxAssetChanges /\ assets[a].rights <= changes' + 1 /\ assets[a].rights + 1 <= changes' + 1
    BY <1>1, <2>3
  <2>4. ASSUME NEW row, NEW event, AssetChange(a, row, event), row \in AssetRecord,
               row.rights \in {assets[a].rights, assets[a].rights + 1}, row.version = assets[a].version + 1,
               assets[a].status # "DELETED",
               \/ event = "none" /\ row.status = "DELETING"
               \/ event = "rights"
               \/ event = "deleted" /\ row.status = "DELETED"
        PROVE  AssetMove(a, row)
    <3>1. row.rights <= changes' + 1 /\ changes' = changes + 1 /\ changes' <= MaxAssetChanges
      BY <2>3, <2>4 DEF AssetChange
    <3>2. \/ row.status = "DELETING" /\ rightsEvents' = rightsEvents
          \/ \E deleted \in BOOLEAN :
                /\ deleted => row.status = "DELETED"
                /\ rightsEvents' = rightsEvents \cup {[asset |-> a, version |-> row.version, deleted |-> deleted]}
      <4>1. PICK deleted : deleted = (event = "deleted")
        OBVIOUS
      <4> QED
        BY <2>4, <4>1 DEF AssetChange
    <3> QED
      BY <2>2, <2>4, <3>1, <3>2 DEF AssetChange, AssetMove
  <2>5. CASE GrantRights(a)
    <3>1. PICK row : row = [rights |-> assets[a].rights + 1, status |-> "USABLE", version |-> assets[a].version + 1]
      OBVIOUS
    <3>2. row \in AssetRecord /\ row.rights = assets[a].rights + 1 /\ row.version = assets[a].version + 1
      BY <2>2, <3>1 DEF AssetRecord
    <3>3. AssetChange(a, row, "rights") /\ assets[a].status # "DELETED"
      BY <2>5, <3>1 DEF GrantRights
    <3> QED
      BY <2>4, <3>2, <3>3
  <2>6. CASE RevokeRights(a)
    <3>1. PICK row : row = [assets[a] EXCEPT !.status = "UNUSABLE", !.version = @ + 1]
      OBVIOUS
    <3>2. row \in AssetRecord /\ row.rights = assets[a].rights /\ row.version = assets[a].version + 1
      BY <2>1, <2>2, <3>1 DEF AssetRecord
    <3>3. AssetChange(a, row, "rights") /\ assets[a].status # "DELETED"
      BY <2>6, <3>1 DEF RevokeRights
    <3> QED
      BY <2>4, <3>2, <3>3
  <2>7. CASE RightsLapse(a)
    <3>1. PICK row : row = [assets[a] EXCEPT !.status = "LAPSED"]
      OBVIOUS
    <3>2. row \in AssetRecord /\ row.rights = assets[a].rights /\ row.version = assets[a].version /\ row.status = "LAPSED"
      BY <2>1, <3>1 DEF AssetRecord
    <3>3. assets' = [assets EXCEPT ![a] = row]
      BY <1>1, <2>7, <3>1 DEF RightsLapse
    <3>4. /\ changes < MaxAssetChanges /\ changes' = changes + 1 /\ assets[a].status # "DELETED"
          /\ UNCHANGED <<profiles, rightsEvents, idempotencyVars>>
      BY <2>7 DEF RightsLapse
    <3>5. row.rights <= changes' + 1 /\ changes' <= MaxAssetChanges /\ row.version >= assets[a].version
      BY <2>2, <2>3, <3>2, <3>4
    <3> QED
      BY <3>2, <3>3, <3>4, <3>5 DEF AssetMove
  <2>8. CASE DeleteAsset(a)
    <3>1. PICK status, row :
            /\ status \in {"DELETING", "DELETED"} /\ row = [assets[a] EXCEPT !.status = status, !.version = @ + 1]
            /\ AssetChange(a, row, IF status = "DELETING" THEN "none" ELSE "deleted")
            /\ assets[a].status # "DELETED"
      BY <2>8 DEF DeleteAsset
    <3>2. /\ row \in AssetRecord /\ row.rights = assets[a].rights /\ row.version = assets[a].version + 1
          /\ row.status = status
      BY <2>1, <2>2, <3>1 DEF AssetRecord
    <3> QED
      BY <2>4, <3>1, <3>2
  <2> QED
    BY <2>5, <2>6, <2>7, <2>8 DEF AssetNext
<1> USE DEF AssetMove, AssetRecord
<1>3. assets'[a] = row /\ \A b \in BrandAssets \ {a} : assets'[b] = assets[b]
  BY <1>1, <1>2
<1>4. BrandTypes'
  <2>1. changes' \in Nat
    BY <1>1, <1>2
  <2> QED
    BY <1>2, <2>1 DEF BrandTables, BrandTypes, Profiles, BrandAssets, ProfileRecord, Pinned
<1>5. ASSUME NEW e, EventKnown(e)
      PROVE  EventKnown(e)'
  <2>1. CASE e.asset = a
    <3>1. e.version \in Nat /\ e.version <= assets[a].version /\ ~e.deleted
      BY <1>2, <1>5, <2>1 DEF EventKnown
    <3>2. row.version \in Nat /\ e.version <= row.version
      BY <1>1, <1>2, <3>1
    <3> QED
      BY <1>1, <1>3, <2>1, <3>1, <3>2 DEF EventKnown, BrandAssets
  <2>2. CASE e.asset # a
    BY <1>3, <1>5, <2>2 DEF EventKnown, BrandAssets
  <2> QED
    BY <2>1, <2>2
<1>6. \A e \in rightsEvents' : EventKnown(e)'
  <2>1. ASSUME NEW deleted \in BOOLEAN, deleted => row.status = "DELETED"
        PROVE  EventKnown([asset |-> a, version |-> row.version, deleted |-> deleted])'
    BY <1>1, <1>2, <1>3, <2>1 DEF EventKnown, BrandAssets
  <2> QED
    BY <1>2, <1>5, <2>1 DEF BrandTables
<1>7. ASSUME NEW p \in Profiles, NEW b \in BrandAssets, NEW n \in Int, Relies(p, b)', n <= assets[b].version
      PROVE  FoundOut(p, b, n)' \/ (Relies(p, b) /\ ~FoundOut(p, b, n))
  <2>1. Relies(p, b) /\ profiles' = profiles /\ rightsEvents \subseteq rightsEvents'
    BY <1>2, <1>7 DEF Relies
  <2>2. CASE b # a
    BY <1>3, <2>1, <2>2 DEF FoundOut, LivePinned, Usable
  <2>3. CASE b = a
    <3>1. CASE row.status \in {"LAPSED", "DELETING"}
      BY <1>3, <2>3, <3>1 DEF FoundOut
    <3>2. CASE row.status \notin {"LAPSED", "DELETING"}
      <4>1. PICK deleted \in BOOLEAN : [asset |-> a, version |-> row.version, deleted |-> deleted] \in rightsEvents'
        BY <1>2, <3>2
      <4>2. PICK e \in rightsEvents' : e.asset = a /\ e.version = row.version
        BY <4>1
      <4>3. row.version > n
        BY <1>1, <1>2, <1>7, <2>3, <3>2
      <4> QED
        BY <2>3, <4>2, <4>3 DEF FoundOut
    <3> QED
      BY <3>1, <3>2
  <2> QED
    BY <2>2, <2>3
<1>8. NoneSlips
  BY <1>7 DEF NoneSlips
<1>9. ActiveIsLive'
  BY <1>4, <1>6, <1>8, ActiveStays
<1>10. \A b \in BrandAssets : assets'[b].rights <= changes' + 1
  <2>1. ASSUME NEW b \in BrandAssets \ {a}
        PROVE  assets'[b].rights <= changes' + 1
    <3>1. assets[b].rights \in Nat /\ assets[b].rights <= changes + 1
      BY DEF BrandTables, BrandTypes
    <3> QED
      BY <1>1, <1>2, <1>3, <3>1
  <2> QED
    BY <1>2, <1>3, <2>1
<1>11. ASSUME NEW d \in Clients
       PROVE  Respects(d)
  <2>1. \A seen : AssetRow(a) \in tx[d].locks /\ AsRead(seen, assets[a]) => AsRead(seen, assets'[a])
    BY <1>2, <1>3 DEF AsRead
  <2> QED
    BY <1>2, <1>3, <1>5, <2>1 DEF Respects, idempotencyVars
<1> QED
  BY <1>2, <1>4, <1>6, <1>8, <1>9, <1>10, <1>11 DEF BrandTables, BrandAssets

\* What is read is known as it is: a profile or an asset as long as it is
\* held, the profiles found active on an asset as all there were.
LEMMA BrandRowsRead ==
  ASSUME TxInv, NEW c \in Clients, BrandTables, BrandView(c), BrandRead(c)
  PROVE  BrandView(c)' /\ \A d \in Clients \ {c} : tx'[d] = tx[d]
<1>1. PICK row \in Owing(tx[c], BrandRows(tx[c])) :
        CASE row[1] = "key" -> Claim(c)
          [] row[1] = "profile" -> ReadProfile(c, row)
          [] row[1] = "profile_key" -> ReadProfileKey(c, row)
          [] row[1] = "candidates" -> LockCandidates(c, row[2])
          [] OTHER -> ReadAsset(c, row)
  BY DEF BrandRead
<1>2. Open(c) /\ TxForm /\ LocksApart /\ UNCHANGED brandVars /\ row \notin DOMAIN tx[c].view
  BY <1>1 DEF BrandRead, TxInv, Owing
<1>3. row = KeyRow(tx[c]) \/ \E x : row \in {ProfileRow(x), ProfileKeyRow(x), CandidateRow(x), AssetRow(x)}
  <2>1. PICK i \in DOMAIN BrandRows(tx[c]) : row = BrandRows(tx[c])[i]
    BY <1>1 DEF Owing
  <2> QED
    BY <2>1, BrandRowForm
<1>4. PICK held, value :
        /\ Takes(c, held, row, value)
        /\ \A p : row = ProfileRow(p) => value = profiles[p] /\ (value # None => row \in held)
        /\ \A a : row = AssetRow(a) => value = assets[a] /\ row \in held
        /\ \A a : row = CandidateRow(a) => /\ value = [p \in Candidates(a) |-> profiles[p]]
                                           /\ \A p \in Candidates(a) : ProfileRow(p) \in held
  <2>1. CASE row = KeyRow(tx[c])
    <3>1. row[1] = "key" /\ \A x : row \notin {ProfileRow(x), CandidateRow(x), AssetRow(x)}
      BY <2>1 DEF KeyRow, ProfileRow, CandidateRow, AssetRow
    <3>2. Takes(c, {row}, row, RecordOf(tx[c]))
      BY <1>1, <1>2, <2>1, <3>1, LockTakes DEF Claim
    <3> QED
      BY <3>1, <3>2
  <2>2. CASE \E x : row = ProfileRow(x)
    <3>1. row[1] = "profile" /\ (\A x : row \notin {CandidateRow(x), AssetRow(x)}) /\ \A x : row = ProfileRow(x) => x = row[2]
      BY <2>2 DEF ProfileRow, CandidateRow, AssetRow
    <3>2. LockRow(c, row, profiles[row[2]])
      BY <1>1, <3>1 DEF ReadProfile
    <3>3. Takes(c, IF profiles[row[2]] = None THEN {} ELSE {row}, row, profiles[row[2]])
      BY <1>2, <3>1, <3>2, LockRowTakes
    <3> QED
      BY <3>1, <3>3
  <2>3. CASE \E x : row = ProfileKeyRow(x)
    <3>1. row[1] = "profile_key" /\ row # KeyRow(tx[c]) /\ \A x : row \notin {ProfileRow(x), CandidateRow(x), AssetRow(x)}
      BY <2>3 DEF KeyRow, ProfileKeyRow, ProfileRow, CandidateRow, AssetRow
    <3>2. PICK value : Lock(c, row, value)
      BY <1>1, <3>1 DEF ReadProfileKey
    <3>3. Takes(c, {row}, row, value)
      BY <1>2, <3>1, <3>2, LockTakes
    <3> QED
      BY <3>1, <3>3
  <2>4. CASE \E x : row = CandidateRow(x)
    <3>1. PICK x : row = CandidateRow(x)
      BY <2>4
    <3>2. /\ row[1] = "candidates" /\ row[2] = x /\ row # KeyRow(tx[c])
          /\ \A y : row \notin {ProfileRow(y), AssetRow(y)} /\ (row = CandidateRow(y) => y = x)
      BY <3>1 DEF KeyRow, CandidateRow, ProfileRow, AssetRow
    <3>3. LockCandidates(c, x)
      BY <1>1, <3>2
    <3>4. PICK held : held = {ProfileRow(p) : p \in Candidates(x)}
      OBVIOUS
    <3>5. \A d \in Clients \ {c} : held \cap tx[d].locks = {}
      BY <3>3, <3>4 DEF LockCandidates, Free
    <3>6. Takes(c, held, row, [p \in Candidates(x) |-> profiles[p]])
      BY <1>2, <3>1, <3>2, <3>3, <3>4, <3>5 DEF LockCandidates, Takes
    <3> QED
      BY <3>2, <3>4, <3>6
  <2>5. CASE \E x : row = AssetRow(x)
    <3>1. /\ row[1] = "asset" /\ row # KeyRow(tx[c])
          /\ \A x : row \notin {ProfileRow(x), CandidateRow(x)} /\ (row = AssetRow(x) => x = row[2])
      BY <2>5 DEF KeyRow, AssetRow, ProfileRow, CandidateRow
    <3>2. Lock(c, row, assets[row[2]])
      BY <1>1, <3>1 DEF ReadAsset
    <3>3. Takes(c, {row}, row, assets[row[2]])
      BY <1>2, <3>1, <3>2, LockTakes
    <3> QED
      BY <3>1, <3>3
  <2> QED
    BY <1>3, <2>1, <2>2, <2>3, <2>4, <2>5
<1>5. PICK t, u : t = tx[c] /\ u = tx'[c]
  OBVIOUS
<1>6. /\ \A d \in Clients \ {c} : tx'[d] = tx[d]
      /\ u.key = t.key /\ u.request = t.request /\ u.locks = t.locks \cup held
      /\ DOMAIN u.view = DOMAIN t.view \cup {row} /\ u.view[row] = value
      /\ \A x \in DOMAIN t.view : u.view[x] = t.view[x]
  BY <1>2, <1>4, <1>5, Taken
<1>7. BrandRequest(u.request)' /\ (u.request.op \in Handlers \/ u.key \in Keys)
  BY <1>2, <1>5, <1>6 DEF BrandView, BrandRequest, EventKnown, brandVars, Profiles, BrandAssets, Handlers
<1>8. \A p \in Profiles : StillSo(u, ProfileRow(p), profiles[p])
  BY <1>2, <1>4, <1>5, <1>6 DEF BrandView, StillSo
<1>9. ASSUME NEW a \in BrandAssets, AssetRow(a) \in DOMAIN u.view
      PROVE  AssetRow(a) \in u.locks /\ AsRead(u.view[AssetRow(a)], assets[a])
  <2>1. CASE row = AssetRow(a)
    BY <1>4, <1>6, <2>1 DEF AsRead
  <2>2. CASE row # AssetRow(a)
    BY <1>2, <1>5, <1>6, <1>9, <2>2 DEF BrandView
  <2> QED
    BY <2>1, <2>2
<1>10. ASSUME u.request.op \in Handlers, CandidateRow(u.request.target) \in DOMAIN u.view
       PROVE  HandlerView(u)
  <2>1. PICK a : a = u.request.target
    OBVIOUS
  <2>2. CASE row = CandidateRow(a)
    <3>1. u.view[CandidateRow(a)] = [p \in Candidates(a) |-> profiles[p]] /\ \A p \in Candidates(a) : ProfileRow(p) \in u.locks
      BY <1>4, <1>6, <2>2
    <3> QED
      BY <2>1, <3>1 DEF HandlerView, Candidates
  <2>3. CASE row # CandidateRow(a)
    <3>1. HandlerView(t) /\ u.view[CandidateRow(a)] = t.view[CandidateRow(a)] /\ CandidateRow(a) \in DOMAIN t.view
      BY <1>2, <1>5, <1>6, <1>10, <2>1, <2>3 DEF BrandView
    <3> QED
      BY <1>6, <2>1, <3>1 DEF HandlerView, EventOf
  <2> QED
    BY <2>2, <2>3
<1>11. BrandView(c)'
  <2>1. HandlerView(u)' <=> HandlerView(u)
    BY <1>2 DEF HandlerView, brandVars, FoundOut, LivePinned, Usable, Profiles
  <2> QED
    BY <1>2, <1>5, <1>7, <1>8, <1>9, <1>10, <2>1 DEF BrandView, brandVars, Profiles, BrandAssets, Handlers
<1> QED
  BY <1>6, <1>11

\* Every step of the service keeps its tables and what is known of them.
LEMMA BrandKeeps ==
  ASSUME TxInv, BrandTables, \A d \in Clients : BrandView(d), NEW c \in Clients, BrandNext(c)
  PROVE  BrandTables' /\ \A d \in Clients : BrandView(d)'
<1>1. ASSUME UNCHANGED brandVars
      PROVE  /\ BrandTables' /\ NoneSlips
             /\ \A d \in Clients : tx'[d] = tx[d] => Respects(d)
  <2>1. BrandTables'
    BY <1>1 DEF brandVars, BrandTables, BrandTypes, ActiveIsLive, EventKnown, Profiles, BrandAssets, ProfileRecord, Pinned,
                LivePinned, Usable
  <2>2. NoneSlips
    BY <1>1 DEF brandVars, NoneSlips, Relies, FoundOut, LivePinned, Usable
  <2>3. \A d \in Clients : tx'[d] = tx[d] => Respects(d)
    BY <1>1, EventsKnownStill DEF brandVars, Respects
  <2> QED
    BY <2>1, <2>2, <2>3
<1>2. ASSUME BrandTables', NoneSlips, \A d \in Clients \ {c} : Respects(d), BrandView(c)'
      PROVE  BrandTables' /\ \A d \in Clients : BrandView(d)'
  BY <1>2, BrandViewStays
<1>3. ASSUME Commit(c) \/ Leave(c)
      PROVE  BrandView(c)' /\ \A d \in Clients \ {c} : tx'[d] = tx[d]
  <2>1. ~Open(c)' /\ \A d \in Clients \ {c} : tx'[d] = tx[d]
    BY <1>3 DEF Commit, Leave, Open, Idle, TxInv, TxForm
  <2> QED
    BY <2>1 DEF BrandView
<1>4. CASE BrandRead(c)
  <2>1. UNCHANGED brandVars
    BY <1>4 DEF BrandRead
  <2> QED
    BY <1>1, <1>2, <1>4, <2>1, BrandRowsRead
<1>5. CASE CreateProfile(c)
  BY <1>2, <1>3, <1>5, CreateProfileWrites DEF CreateProfile
<1>6. CASE UpdateDraft(c)
  BY <1>2, <1>3, <1>6, UpdateDraftWrites DEF UpdateDraft
<1>7. CASE PublishProfile(c)
  BY <1>2, <1>3, <1>7, PublishProfileWrites DEF PublishProfile
<1>8. CASE InvalidateAsset(c) \/ InvalidateDeletion(c)
  BY <1>2, <1>3, <1>8, HandlerWrites DEF InvalidateAsset, InvalidateDeletion
<1>9. CASE Leave(c) /\ UNCHANGED brandVars
  BY <1>1, <1>2, <1>3, <1>9
<1>10. ASSUME NEW r, BrandRequest(r), UNCHANGED brandVars, tx'[c].request = r, tx'[c].view = <<>>,
              r.op \in Handlers \/ tx'[c].key \in Keys, \A d \in Clients \ {c} : tx'[d] = tx[d]
       PROVE  BrandTables' /\ \A d \in Clients : BrandView(d)'
  <2>1. DOMAIN tx'[c].view = {}
    BY <1>10
  <2>2. BrandRequest(r)'
    BY <1>10 DEF BrandRequest, EventKnown, brandVars, Profiles, BrandAssets, Handlers
  <2>3. BrandView(c)'
    BY <1>10, <2>1, <2>2 DEF BrandView, StillSo, Handlers
  <2> QED
    BY <1>1, <1>2, <1>10, <2>3
<1>11. ASSUME NEW k \in Keys, NEW r \in BrandRequests, Begin(c, k, r), UNCHANGED brandVars
       PROVE  BrandTables' /\ \A d \in Clients : BrandView(d)'
  <2>1. /\ tx'[c].key = k /\ tx'[c].request = r /\ tx'[c].view = <<>>
        /\ \A d \in Clients \ {c} : tx'[d] = tx[d]
    BY <1>11 DEF Begin, TxInv, TxForm
  <2>2. BrandRequest(r)
    BY <1>11 DEF BrandRequests, BrandRequest, Request, Handlers
  <2> QED
    BY <1>10, <1>11, <2>1, <2>2
<1>12. ASSUME NEW e \in rightsEvents, Deliver(c, Handler(e)), UNCHANGED brandVars
       PROVE  BrandTables' /\ \A d \in Clients : BrandView(d)'
  <2>1. PICK r : r = Handler(e)
    OBVIOUS
  <2>2. /\ tx'[c].request = r /\ tx'[c].view = <<>>
        /\ \A d \in Clients \ {c} : tx'[d] = tx[d]
    BY <1>12, <2>1 DEF Deliver, TxInv, TxForm, Idle
  <2>3. /\ r.op \in Handlers /\ r.arg = e /\ r.target = e.asset
        /\ r.op = "invalidate_deletion" => e.deleted
        /\ r.op \notin {"create_profile", "update_draft", "publish_profile"}
    BY <2>1 DEF Handler, Handlers, Request
  <2>4. BrandRequest(r)
    BY <2>3 DEF BrandRequest, BrandTables
  <2> QED
    BY <1>10, <1>12, <2>2, <2>3, <2>4
<1> QED
  BY <1>4, <1>5, <1>6, <1>7, <1>8, <1>9, <1>11, <1>12 DEF BrandNext

\* At the start the one active profile pins a usable asset.
LEMMA BrandInvInit == Init => BrandInv
<1> SUFFICES ASSUME BrandInit, IdempotencyInit
             PROVE  BrandInv
  BY DEF Init
<1>1. PICK pins, row : /\ pins = [a \in {1} |-> 1]
                       /\ row = [NewProfile(Active, {1}) EXCEPT !.state = "ACTIVE", !.number = 1, !.pins = pins, !.version = 2]
  OBVIOUS
<1>2. NAssets \in Nat \ {0} /\ MaxAssetChanges \in Nat /\ {1} \subseteq BrandAssets
  BY BrandAssumption DEF BrandAssets
<1>3. pins \in Pinned
  <2>1. pins \in [{1} -> 1..(MaxAssetChanges + 1)] /\ {1} \in SUBSET BrandAssets
    BY <1>1, <1>2
  <2> QED
    BY <2>1 DEF Pinned
<1>4. row \in ProfileRecord /\ row.pins = pins /\ DOMAIN pins = {1} /\ pins[1] = 1
  <2>1. row = [profileKey |-> Active, state |-> "ACTIVE", draft |-> {1}, number |-> 1, pins |-> pins, version |-> 2]
    BY <1>1 DEF NewProfile
  <2>2. row \in ProfileRecord
    BY <1>2, <1>3, <2>1 DEF ProfileRecord
  <2> QED
    BY <1>1, <2>1, <2>2
<1>5. /\ profiles = [p \in Profiles |-> IF p = Active THEN row ELSE None]
      /\ assets = [a \in BrandAssets |-> NewAsset] /\ rightsEvents = {} /\ changes = 0
  BY <1>1 DEF BrandInit
<1>6. BrandTypes
  BY <1>4, <1>5 DEF BrandTypes, NewAsset
<1>7. ActiveIsLive
  BY <1>2, <1>4, <1>5 DEF ActiveIsLive, LivePinned, Usable, NewAsset
<1>8. \A c \in Clients : BrandView(c)
  BY DEF IdempotencyInit, Idle, BrandView, Open
<1> QED
  BY <1>2, <1>5, <1>6, <1>7, <1>8 DEF BrandInv, BrandTables, NewAsset

\* Every step keeps the invariant of the brand profiles.
LEMMA BrandInvStays ==
  ASSUME TxInv, BrandInv, [Next]_vars
  PROVE  BrandInv'
<1>1. service' = service
  BY DEF Next, vars
<1>2. ASSUME service = "brands", NEW c \in Clients, BrandNext(c)
      PROVE  BrandInv'
  BY <1>1, <1>2, BrandKeeps DEF BrandInv
<1>3. ASSUME service = "brands", NEW a \in ChangingAssets, AssetNext(a)
      PROVE  BrandInv'
  BY <1>1, <1>3, AssetWrites, BrandViewStays DEF BrandInv
<1>4. ASSUME UNCHANGED brandVars
      PROVE  BrandTables'
  BY <1>4 DEF BrandInv, brandVars, BrandTables, BrandTypes, ActiveIsLive, EventKnown, Profiles, BrandAssets, ProfileRecord,
              Pinned, LivePinned, Usable
<1>5. CASE service # "brands" /\ UNCHANGED brandVars
  BY <1>1, <1>4, <1>5 DEF BrandInv
<1>6. CASE UNCHANGED vars
  <2>1. UNCHANGED brandVars /\ tx' = tx
    BY <1>6 DEF vars, idempotencyVars
  <2>2. ASSUME NEW c \in Clients, BrandView(c)
        PROVE  BrandView(c)'
    <3>1. Respects(c)
      BY <2>1, EventsKnownStill DEF brandVars, Respects
    <3>2. NoneSlips
      BY <2>1 DEF brandVars, NoneSlips, Relies, FoundOut, LivePinned, Usable
    <3> QED
      BY <2>2, <3>1, <3>2, BrandViewStays DEF BrandInv
  <2> QED
    BY <1>1, <1>4, <2>1, <2>2 DEF BrandInv
<1> QED
  BY <1>2, <1>3, <1>5, <1>6 DEF Next

\* The tables of the brand profiles agree with each other, and what an open
\* command or handler has locked of them is as it was read
\* (lock_for_publication, lock_current_profiles_referencing_asset).
THEOREM BrandInvariant == Spec => []BrandInv
BY BrandInvInit, BrandInvStays, TransactionInvariant, PTL DEF Spec

\* A profile that stays ACTIVE on rights no longer in force is always about
\* to be found out, in whatever order publications, changes of rights and
\* the handlers of their events run (publish, invalidate_asset,
\* invalidate_foundation_asset_deletion).
THEOREM ActiveProfilesAreLive == Spec => []ActiveIsLive
<1>1. BrandInv => ActiveIsLive
  BY DEF BrandInv, BrandTables
<1> QED
  BY <1>1, BrandInvariant, PTL
-----------------------------------------------------------------------------
(* Retrieval: a decision is taken from the present, which is recorded *)

\* A moment that was recorded stays recorded, and the last one is the new one.
LEMMA MomentAdded ==
  ASSUME NEW h \in Seq(Moments), NEW m \in Moments
  PROVE  /\ Append(h, m) \in Seq(Moments) /\ Append(h, m) # <<>>
         /\ Len(Append(h, m)) = Len(h) + 1 /\ Append(h, m)[Len(Append(h, m))] = m
         /\ DOMAIN h \subseteq DOMAIN Append(h, m)
         /\ \A i \in DOMAIN h : Append(h, m)[i] = h[i]
OBVIOUS

\* What was answered by earlier moments is still so.
LEMMA FoundedStays ==
  ASSUME NEW h \in Seq(Moments), NEW m \in Moments
  PROVE  \A c, q : Founded(h, c, q) => Founded(Append(h, m), c, q)
<1> SUFFICES ASSUME NEW c, NEW q, Founded(h, c, q)
             PROVE  Founded(Append(h, m), c, q)
  OBVIOUS
<1> DEFINE g == Append(h, m)
<1>1. DOMAIN h = 1..Len(h) /\ Len(h) \in Nat
  OBVIOUS
<1>2. q.asked \in DOMAIN g /\ c.decided \in q.asked..Len(g) /\ c.decided \in DOMAIN h
  BY <1>1, MomentAdded DEF Founded
<1>3. g[c.decided] = h[c.decided]
  BY <1>2, MomentAdded
<1> QED
  BY <1>2, <1>3 DEF Founded

LEMMA AuthorisedStays ==
  ASSUME NEW h \in Seq(Moments), NEW m \in Moments, NEW a \in DOMAIN h, NEW d \in a..Len(h), NEW v,
         AuthorisedAt(h, d, v)
  PROVE  /\ a \in DOMAIN Append(h, m) /\ d \in a..Len(Append(h, m))
         /\ AuthorisedAt(Append(h, m), d, v)
<1>1. DOMAIN h = 1..Len(h) /\ Len(h) \in Nat
  OBVIOUS
<1>2. d \in DOMAIN h /\ d \in a..Len(Append(h, m))
  BY <1>1, MomentAdded
<1> QED
  BY <1>2, MomentAdded DEF AuthorisedAt

LEMMA SoundStays ==
  ASSUME NEW h \in Seq(Moments), NEW m \in Moments
  PROVE  /\ \A q : SoundQuery(h, q) => SoundQuery(Append(h, m), q)
         /\ \A r : SoundRun(h, r) => SoundRun(Append(h, m), r)
         /\ \A p : SoundPreview(h, p) => SoundPreview(Append(h, m), p)
         /\ \A url : SoundReference(h, url) => SoundReference(Append(h, m), url)
<1>1. ASSUME NEW q, SoundQuery(h, q) PROVE SoundQuery(Append(h, m), q)
  BY <1>1, FoundedStays, MomentAdded DEF SoundQuery
<1>2. ASSUME NEW r, SoundRun(h, r) PROVE SoundRun(Append(h, m), r)
  BY <1>2, FoundedStays DEF SoundRun
<1>3. ASSUME NEW p, SoundPreview(h, p) PROVE SoundPreview(Append(h, m), p)
  <2>1. CASE p.pc = "idle"
    BY <2>1 DEF SoundPreview
  <2>2. CASE p.pc # "idle" /\ p.pc # "object"
    BY <1>3, <2>2, MomentAdded DEF SoundPreview
  <2>3. CASE p.pc = "object"
    BY <1>3, <2>3, AuthorisedStays DEF SoundPreview
  <2> QED
    BY <2>1, <2>2, <2>3
<1>4. ASSUME NEW url, SoundReference(h, url) PROVE SoundReference(Append(h, m), url)
  BY <1>4, AuthorisedStays DEF SoundReference
<1> QED
  BY <1>1, <1>2, <1>3, <1>4

\* The present is a moment.
LEMMA PresentIsMoment == ASSUME AuthorityTypes PROVE Snapshot \in Moments
<1>1. \A v \in Versions : Held(v) \in Versions \X Nat
  BY DEF AuthorityTypes, Held
<1> QED
  BY <1>1 DEF AuthorityTypes, Snapshot, Moments

\* An eligible version is authorised in the moment that was recorded last.
LEMMA EligibleNow ==
  ASSUME RightsInv, NEW q, NEW S \in SUBSET Versions, NEW v \in EligibleVersions(q, S)
  PROVE  /\ v \in Versions /\ Instant \in DOMAIN history /\ Instant \in Nat
         /\ <<v, authority[v].record>> \in history[Instant].held
         /\ q.by_brief => history[Instant].brief
<1>1. v \in Versions /\ Authorised(v) /\ (q.by_brief => brief)
  BY DEF EligibleVersions
<1>2. Held(v) \in Snapshot.held /\ Snapshot.brief = brief
  BY <1>1 DEF Snapshot
<1>3. Instant \in DOMAIN history /\ Instant \in Nat /\ history[Instant] = Snapshot
  BY DEF RightsInv, Instant
<1> QED
  BY <1>1, <1>2, <1>3 DEF Held

-----------------------------------------------------------------------------
(* The steps of retrieval *)

\* A change of authority records the new moment.
LEMMA AuthorityChanges ==
  ASSUME RightsInv, Recorded, AuthorityTypes', run' \in {run, None}, UNCHANGED <<query, preview, issued>>
  PROVE  RightsInv'
<1>1. history \in Seq(Moments) /\ Snapshot' \in Moments /\ history' = Append(history, Snapshot')
  <2>1. Snapshot' \in Moments
    <3>1. \A v \in Versions : Held(v)' \in Versions \X Nat
      BY DEF AuthorityTypes, Held
    <3> QED
      BY <3>1 DEF AuthorityTypes, Snapshot, Moments
  <2> QED
    BY <2>1 DEF RightsInv, Recorded
<1>2. history' \in Seq(Moments) /\ history' # <<>> /\ history'[Len(history')] = Snapshot'
  BY <1>1, MomentAdded
<1>3. SoundQuery(history', query) /\ SoundRun(history', run) /\ SoundPreview(history', preview)
  BY <1>1, SoundStays DEF RightsInv
<1>4. \A url \in issued : SoundReference(history', url)
  BY <1>1, SoundStays DEF RightsInv
<1>5. SoundRun(history', run')
  BY <1>3 DEF SoundRun
<1> QED
  BY <1>2, <1>3, <1>4, <1>5 DEF RightsInv, Instant

LEMMA AuthoritySteps ==
  ASSUME RightsInv, AuthorityNext
  PROVE  RightsInv'
<1>1. Recorded
  BY DEF AuthorityNext
<1>2. CASE ChangeBrief
  BY <1>1, <1>2, AuthorityChanges DEF ChangeBrief, RightsInv, AuthorityTypes
<1>3. ASSUME NEW v \in ChangingVersions, Renew(v) \/ Withdraw(v) \/ ScheduleDeletion(v) \/ CompleteDeletion(v)
      PROVE  RightsInv'
  <2>1. authority[v] \in [record : Nat, granted : BOOLEAN, status : {"AVAILABLE", "DELETING", "DELETED"}]
    BY RetrievalAssumption DEF RightsInv, AuthorityTypes
  <2> DEFINE Rows == [record : Nat, granted : BOOLEAN, status : {"AVAILABLE", "DELETING", "DELETED"}]
  <2>2. PICK row \in Rows : Authorises(v, row)
    <3>1. [authority[v] EXCEPT !.record = @ + 1, !.granted = TRUE] \in Rows
      <4>1. ASSUME NEW x \in Rows, NEW n \in Nat PROVE [x EXCEPT !.record = n, !.granted = TRUE] \in Rows
        OBVIOUS
      <4>2. authority[v].record + 1 \in Nat
        BY <2>1
      <4> QED
        BY <2>1, <4>1, <4>2 DEF Rows
    <3>2. [authority[v] EXCEPT !.granted = FALSE] \in Rows
      BY <2>1
    <3>3. [authority[v] EXCEPT !.status = "DELETING"] \in Rows /\ [authority[v] EXCEPT !.status = "DELETED"] \in Rows
      BY <2>1
    <3> QED
      BY <1>3, <3>1, <3>2, <3>3 DEF Renew, Withdraw, ScheduleDeletion, CompleteDeletion
  <2>3. run' \in {run, None}
    BY <1>3 DEF Renew, Withdraw, ScheduleDeletion, CompleteDeletion
  <2>4. AuthorityTypes'
    BY <2>2 DEF RightsInv, AuthorityTypes, Authorises
  <2> QED
    BY <1>1, <2>2, <2>3, <2>4, AuthorityChanges DEF Authorises
<1> QED
  BY <1>2, <1>3 DEF AuthorityNext

\* The rest of the tables stays.
LEMMA PresentStays ==
  ASSUME RightsInv, UNCHANGED <<authority, brief, history>>
  PROVE  /\ AuthorityTypes' /\ history' \in Seq(Moments) /\ history' # <<>>
         /\ history'[Instant'] = Snapshot'
BY DEF RightsInv, AuthorityTypes, Snapshot, Held, Authorised, Instant

\* A query that goes on keeps its question and its answer.
LEMMA QueryBecomes ==
  ASSUME RightsInv, NEW row, Becomes(row), SoundQuery(history, row)
  PROVE  RightsInv'
<1>1. UNCHANGED <<authority, brief, history>>
  BY DEF Becomes
<1> QED
  BY <1>1, PresentStays DEF RightsInv, Becomes

LEMMA SameQuestion ==
  ASSUME RightsInv, NEW row, Becomes(row), query.pc # "idle",
         DOMAIN row = DOMAIN query,
         row.by_brief = query.by_brief, row.asked = query.asked, row.citations = query.citations,
         {row.eligible, row.pending, row.rows, row.recalled, row.fused} \subseteq SUBSET Versions
  PROVE  RightsInv'
<1>1. SoundQuery(history, row)
  BY DEF RightsInv, SoundQuery, Founded
<1> QED
  BY <1>1, QueryBecomes

LEMMA AsleepIsSound == \A h : SoundQuery(h, Asleep)
BY DEF SoundQuery, Asleep

LEMMA QueryFields ==
  ASSUME RightsInv
  PROVE  /\ DOMAIN query = DOMAIN Asleep /\ query.by_brief \in BOOLEAN
         /\ query.eligible \in SUBSET Versions /\ query.pending \in SUBSET Versions
         /\ query.rows \in SUBSET Versions /\ query.recalled \in SUBSET Versions
         /\ query.fused \in SUBSET Versions
BY DEF RightsInv, SoundQuery

LEMMA QuerySteps ==
  ASSUME RightsInv, QueryNext
  PROVE  RightsInv'
<1> USE QueryFields
<1>1. CASE Ask
  <2>1. PICK by_brief, brand \in BOOLEAN, image \in {None, 1} :
          Becomes([Asleep EXCEPT !.pc = "initial", !.by_brief = by_brief, !.brand = brand,
                                 !.image = image, !.asked = Instant])
    BY <1>1 DEF Ask
  <2> DEFINE row == [Asleep EXCEPT !.pc = "initial", !.by_brief = by_brief, !.brand = brand,
                                   !.image = image, !.asked = Instant]
  <2>2. /\ DOMAIN row = DOMAIN Asleep /\ row.by_brief = by_brief /\ row.asked = Instant /\ row.citations = {}
        /\ {row.eligible, row.pending, row.rows, row.recalled, row.fused} \subseteq SUBSET Versions
    BY DEF Asleep
  <2>3. Instant \in DOMAIN history
    BY DEF RightsInv, Instant
  <2>4. SoundQuery(history, row)
    BY <2>2, <2>3 DEF SoundQuery
  <2> QED
    BY <2>1, <2>4, QueryBecomes
<1>2. CASE InitialRights
  <2> DEFINE eligible == EligibleVersions(query, Versions)
             row == [query EXCEPT !.pc = "pointer", !.eligible = eligible, !.pending = eligible,
                                  !.steady = Findable(eligible)]
             empty == [query EXCEPT !.pc = "record"]
  <2>1. eligible \subseteq Versions
    BY DEF EligibleVersions
  <2>2. Becomes(row) \/ Becomes(empty)
    BY <1>2 DEF InitialRights
  <2>3. /\ DOMAIN row = DOMAIN query /\ row.by_brief = query.by_brief /\ row.asked = query.asked
        /\ row.citations = query.citations
        /\ {row.eligible, row.pending, row.rows, row.recalled, row.fused} \subseteq SUBSET Versions
    BY <2>1 DEF Asleep
  <2>4. /\ DOMAIN empty = DOMAIN query /\ empty.by_brief = query.by_brief /\ empty.asked = query.asked
        /\ empty.citations = query.citations
        /\ {empty.eligible, empty.pending, empty.rows, empty.recalled, empty.fused} \subseteq SUBSET Versions
    BY DEF Asleep
  <2>5. query.pc # "idle"
    BY <1>2 DEF InitialRights, At
  <2> HIDE DEF row, empty
  <2> QED
    BY <2>2, <2>3, <2>4, <2>5, SameQuestion
<1>3. ASSUME Fail PROVE RightsInv'
  BY <1>3, AsleepIsSound, QueryBecomes DEF Fail
<1>4. ASSUME NEW pc, query.pc # "idle", Becomes([query EXCEPT !.pc = pc]) PROVE RightsInv'
  <2> DEFINE row == [query EXCEPT !.pc = pc]
  <2>1. /\ DOMAIN row = DOMAIN query /\ row.by_brief = query.by_brief /\ row.asked = query.asked
        /\ row.citations = query.citations
        /\ {row.eligible, row.pending, row.rows, row.recalled, row.fused} \subseteq SUBSET Versions
    BY DEF Asleep
  <2> QED
    BY <1>4, <2>1, SameQuestion
<1>5. ASSUME query.pc # "idle", Becomes(Degraded(query)) PROVE RightsInv'
  <2>1. /\ DOMAIN Degraded(query) = DOMAIN query /\ Degraded(query).by_brief = query.by_brief
        /\ Degraded(query).asked = query.asked /\ Degraded(query).citations = query.citations
        /\ Degraded(query).eligible = query.eligible /\ Degraded(query).pending = query.pending
        /\ Degraded(query).rows = query.rows /\ Degraded(query).recalled = query.recalled
        /\ Degraded(query).fused = query.fused
    BY DEF Asleep, Degraded
  <2> QED
    BY <1>5, <2>1, SameQuestion
<1>6. CASE ReadRouting
  <2> DEFINE row == [query EXCEPT !.pc = "collection", !.collection = routing.collection]
  <2>1. /\ DOMAIN row = DOMAIN query /\ row.by_brief = query.by_brief /\ row.asked = query.asked
        /\ row.citations = query.citations
        /\ {row.eligible, row.pending, row.rows, row.recalled, row.fused} \subseteq SUBSET Versions
    BY DEF Asleep
  <2> QED
    BY <1>6, <2>1, SameQuestion DEF ReadRouting, At
<1>7. CASE ReadCollection
  BY <1>3, <1>4, <1>7 DEF ReadCollection, At
<1>8. CASE ReadRows
  <2> DEFINE chunk == FirstChunk(query.pending)
             row == [query EXCEPT !.pending = @ \ chunk, !.rows = @ \cup RowsIn(chunk)]
  <2>1. RowsIn(chunk) \subseteq Versions
    BY DEF RowsIn, FirstChunk
  <2>2. /\ DOMAIN row = DOMAIN query /\ row.by_brief = query.by_brief /\ row.asked = query.asked
        /\ row.citations = query.citations
        /\ {row.eligible, row.pending, row.rows, row.recalled, row.fused} \subseteq SUBSET Versions
    <3> HIDE DEF chunk
    <3> QED
      BY <2>1 DEF Asleep
  <2>3. Becomes(row) /\ query.pc # "idle"
    BY <1>8 DEF ReadRows, At
  <2> HIDE DEF row
  <2> QED
    BY <2>2, <2>3, SameQuestion
<1>9. CASE ResolveTarget
  BY <1>4, <1>5, <1>9 DEF ResolveTarget, At
<1>10. CASE ReauthorizeImage
  BY <1>4, <1>5, <1>10 DEF ReauthorizeImage, At
<1>11. CASE Search
  <2>1. query.pc # "idle"
    BY <1>11 DEF Search, At
  <2>2. CASE Unembedded
    BY <1>5, <2>1, <2>2 DEF Unembedded
  <2>3. ASSUME NEW hits \in Capped({v \in query.rows : <<query.collection, v>> \in vectors}, CandidateLimit),
               Becomes([query EXCEPT !.pc = "fuse", !.recalled = hits])
        PROVE  RightsInv'
    <3> DEFINE row == [query EXCEPT !.pc = "fuse", !.recalled = hits]
    <3>1. hits \subseteq Versions
      BY DEF Capped
    <3>2. /\ DOMAIN row = DOMAIN query /\ row.by_brief = query.by_brief /\ row.asked = query.asked
          /\ row.citations = query.citations
          /\ {row.eligible, row.pending, row.rows, row.recalled, row.fused} \subseteq SUBSET Versions
      BY <3>1 DEF Asleep
    <3> QED
      BY <2>1, <2>3, <3>2, SameQuestion
  <2> QED
    BY <1>11, <2>2, <2>3 DEF Search
<1>12. CASE Fuse
  <2>1. query.pc # "idle"
    BY <1>12 DEF Fuse, At
  <2>2. ASSUME NEW listed \in Listings, NEW distinct \in Deduplicated(Fused(listed)),
               NEW bounded \in Bounded(distinct),
               Becomes([query EXCEPT !.pc = "final", !.fused = bounded, !.rows = {}, !.recalled = {},
                                     !.steady = {}, !.torn = FALSE, !.collection = 0])
        PROVE  RightsInv'
    <3> DEFINE row == [query EXCEPT !.pc = "final", !.fused = bounded, !.rows = {}, !.recalled = {},
                                    !.steady = {}, !.torn = FALSE, !.collection = 0]
    <3>1. Fused(listed) \subseteq Versions /\ Required \subseteq Versions
      BY DEF Listings, Fused, Required
    <3>2. distinct \subseteq Versions
      BY <3>1 DEF Deduplicated, Capped
    <3>3. bounded \subseteq Versions
      BY <3>1, <3>2 DEF Bounded, Capped
    <3>4. /\ DOMAIN row = DOMAIN query /\ row.by_brief = query.by_brief /\ row.asked = query.asked
          /\ row.citations = query.citations
          /\ {row.eligible, row.pending, row.rows, row.recalled, row.fused} \subseteq SUBSET Versions
      BY <3>3 DEF Asleep
    <3> QED
      BY <2>1, <2>2, <3>4, SameQuestion
  <2> QED
    BY <1>3, <1>12, <2>2 DEF Fuse
<1>13. CASE FinalRights
  <2> DEFINE final == EligibleVersions(query, query.fused)
  <2>1. PICK selected \in Capped(final, ResultLimit) :
          Becomes([query EXCEPT !.pc = "record", !.final = final, !.citations = {Cited(v) : v \in selected}])
    BY <1>13 DEF FinalRights
  <2> DEFINE row == [query EXCEPT !.pc = "record", !.final = final, !.citations = {Cited(v) : v \in selected}]
  <2>2. /\ DOMAIN row = DOMAIN Asleep /\ row.by_brief = query.by_brief /\ row.asked = query.asked
        /\ row.citations = {Cited(v) : v \in selected}
        /\ {row.eligible, row.pending, row.rows, row.recalled, row.fused} \subseteq SUBSET Versions
    <3> HIDE DEF final
    <3> QED
      BY DEF Asleep
  <2>3. query.asked \in DOMAIN history /\ query.asked \in 1..Len(history) /\ Len(history) \in Nat
    BY <1>13 DEF FinalRights, At, RightsInv, SoundQuery
  <2>4. selected \subseteq final
    BY DEF Capped
  <2> HIDE DEF row
  <2>5. ASSUME NEW v \in selected PROVE Founded(history, Cited(v), row)
    <3>1. /\ v \in Versions /\ <<v, authority[v].record>> \in history[Instant].held
          /\ query.by_brief => history[Instant].brief
      BY <2>4, <2>5, EligibleNow
    <3>2. Cited(v).version = v /\ Cited(v).record = authority[v].record /\ Cited(v).decided = Instant
      BY DEF Cited
    <3>3. Instant \in query.asked..Len(history)
      BY <2>3 DEF Instant
    <3> QED
      BY <2>2, <2>3, <3>1, <3>2, <3>3 DEF Founded
  <2>6. SoundQuery(history, row)
    BY <2>2, <2>3, <2>5 DEF SoundQuery
  <2> QED
    BY <2>1, <2>6, QueryBecomes DEF row
<1>14. CASE RecordRun
  <2>1. UNCHANGED <<authority, brief, history, preview, issued>> /\ query' = Asleep
    BY <1>14 DEF RecordRun
  <2>2. /\ run'.by_brief = query.by_brief /\ run'.asked = query.asked /\ run'.citations = query.citations
    BY <1>14 DEF RecordRun
  <2>3. SoundRun(history, run')
    BY <2>2 DEF SoundRun, RightsInv, SoundQuery, Founded
  <2> QED
    BY <2>1, <2>3, PresentStays, AsleepIsSound DEF RightsInv
<1> QED
  BY <1>1, <1>2, <1>6, <1>7, <1>8, <1>9, <1>10, <1>11, <1>12, <1>13, <1>14 DEF QueryNext

\* A token is exchanged on the rights of the moment.
LEMMA PreviewSteps ==
  ASSUME RightsInv, PreviewNext
  PROVE  RightsInv'
<1>1. UNCHANGED <<authority, brief, history, query, run>>
  BY DEF PreviewNext, ExchangeToken, ExchangeRights, IssueReference, Exchanging
<1>2. AuthorityTypes' /\ history' \in Seq(Moments) /\ history' # <<>> /\ history'[Instant'] = Snapshot'
  BY <1>1, PresentStays
<1>3. ASSUME DOMAIN preview' = DOMAIN NoPreview, SoundPreview(history, preview'),
             \A url \in issued' : SoundReference(history, url)
      PROVE  RightsInv'
  BY <1>1, <1>2, <1>3 DEF RightsInv
<1>4. DOMAIN NoPreview = DOMAIN NoPreview /\ SoundPreview(history, NoPreview)
  BY DEF SoundPreview, NoPreview
<1>5. Instant \in DOMAIN history /\ Instant \in Nat /\ DOMAIN history = 1..Instant
  BY DEF RightsInv, Instant
<1>6. CASE ExchangeToken
  <2>1. PICK cited \in run.citations :
          preview' = [pc |-> IF run.by_brief THEN "brief" ELSE "rights", version |-> cited.version,
                      asked |-> Instant, decided |-> 0]
    BY <1>6 DEF ExchangeToken, Exchanging
  <2>2. Founded(history, cited, run)
    BY <1>6 DEF ExchangeToken, RightsInv, SoundRun
  <2>3. cited.version \in Versions
    <3>1. cited.decided \in DOMAIN history
      BY <1>5, <2>2 DEF Founded, Instant
    <3>2. history[cited.decided] \in Moments
      BY <3>1 DEF RightsInv
    <3>3. history[cited.decided].held \subseteq Versions \X Nat
      BY <3>2 DEF Moments
    <3> QED
      BY <2>2, <3>3 DEF Founded
  <2>4. DOMAIN preview' = DOMAIN NoPreview /\ SoundPreview(history, preview')
    <3>1. preview'.pc # "object" /\ preview'.version = cited.version /\ preview'.asked = Instant
      BY <2>1
    <3>2. DOMAIN preview' = DOMAIN NoPreview
      BY <2>1 DEF NoPreview
    <3> QED
      BY <1>5, <2>3, <3>1, <3>2 DEF SoundPreview
  <2>5. issued' = issued
    BY <1>6 DEF ExchangeToken
  <2> QED
    BY <1>3, <2>4, <2>5 DEF RightsInv
<1>7. CASE ExchangeRights
  <2> DEFINE row == [preview EXCEPT !.pc = "object", !.decided = Instant]
             eligible == EligibleVersions([by_brief |-> preview.pc = "brief"], {preview.version})
  <2>1. preview' = NoPreview \/ (preview' = row /\ eligible # {})
    BY <1>7 DEF ExchangeRights, Exchanging
  <2>2. preview.version \in Versions /\ preview.asked \in DOMAIN history
    BY <1>7 DEF ExchangeRights, RightsInv, SoundPreview
  <2>3. CASE preview' = row /\ eligible # {}
    <3>1. PICK v \in eligible : v = preview.version
      BY <2>3 DEF EligibleVersions
    <3>2. <<v, authority[v].record>> \in history[Instant].held
      BY <2>2, <3>1, EligibleNow
    <3>3. AuthorisedAt(history, Instant, preview.version)
      BY <3>1, <3>2 DEF AuthorisedAt
    <3>4. /\ DOMAIN row = DOMAIN NoPreview /\ row.version = preview.version /\ row.asked = preview.asked
          /\ row.decided = Instant
      BY DEF RightsInv, NoPreview
    <3>5. Instant \in preview.asked..Len(history)
      BY <1>5, <2>2 DEF Instant
    <3>6. SoundPreview(history, preview')
      BY <2>2, <2>3, <3>3, <3>4, <3>5 DEF SoundPreview
    <3>7. issued' = issued
      BY <1>7 DEF ExchangeRights
    <3> QED
      BY <1>3, <2>3, <3>4, <3>6, <3>7 DEF RightsInv
  <2>4. CASE preview' = NoPreview
    BY <1>3, <1>4, <1>7, <2>4 DEF ExchangeRights, RightsInv
  <2> QED
    BY <2>1, <2>3, <2>4
<1>8. CASE IssueReference
  <2> DEFINE url == [version |-> preview.version, asked |-> preview.asked, decided |-> preview.decided,
                     expires |-> preview.decided + ReferenceLifetime]
  <2>1. preview' = NoPreview /\ issued' \subseteq issued \cup {url}
    BY <1>8 DEF IssueReference, Exchanging
  <2>2. SoundReference(history, url)
    BY <1>8 DEF IssueReference, RightsInv, SoundPreview, SoundReference
  <2> QED
    BY <1>3, <1>4, <2>1, <2>2 DEF RightsInv
<1> QED
  BY <1>6, <1>7, <1>8 DEF PreviewNext

\* The rebuild beside a query touches what it could have found, nothing else.
LEMMA RebuildLeavesRights ==
  ASSUME RightsInv, RebuildBeside
  PROVE  RightsInv'
<1> DEFINE row == [query EXCEPT !.steady = {v \in @ : embedding'[v].state = "INDEXED"},
                                !.torn = @ \/ (BetweenChunks /\ routing' # routing)]
<1>1. UNCHANGED <<authority, brief, history, run, preview, issued>> /\ query' = row
  BY DEF RebuildBeside
<1>2. /\ DOMAIN row = DOMAIN query /\ row.by_brief = query.by_brief /\ row.asked = query.asked
      /\ row.citations = query.citations /\ row.pc = query.pc
      /\ row.eligible = query.eligible /\ row.pending = query.pending /\ row.rows = query.rows
      /\ row.recalled = query.recalled /\ row.fused = query.fused
  BY QueryFields DEF Asleep
<1> HIDE DEF row
<1>3. SoundQuery(history, row)
  BY <1>2 DEF RightsInv, SoundQuery, Founded
<1> QED
  BY <1>1, <1>3, PresentStays DEF RightsInv

LEMMA RightsInvInit == Init => RightsInv
<1> SUFFICES ASSUME RetrievalInit PROVE RightsInv
  BY DEF Init
<1>1. AuthorityTypes
  BY DEF RetrievalInit, AuthorityTypes
<1>2. history = <<Snapshot>>
  <2>1. {v \in Versions : Authorised(v)} = Versions
    BY DEF RetrievalInit, Authorised
  <2>2. \A v \in Versions : Held(v) = <<v, 1>>
    BY DEF RetrievalInit, Held
  <2> QED
    BY <2>1, <2>2 DEF RetrievalInit, Snapshot
<1>3. history \in Seq(Moments) /\ history # <<>> /\ history[Instant] = Snapshot
  BY <1>1, <1>2, PresentIsMoment DEF Instant
<1>4. SoundQuery(history, query) /\ SoundRun(history, run) /\ SoundPreview(history, preview)
  BY AsleepIsSound DEF RetrievalInit, SoundRun, SoundPreview, NoPreview
<1> QED
  BY <1>1, <1>3, <1>4 DEF RightsInv, RetrievalInit

LEMMA RightsInvStays ==
  ASSUME RightsInv, [Next]_vars
  PROVE  RightsInv'
<1>1. CASE UNCHANGED retrievalVars
  <2> USE <1>1 DEF retrievalVars
  <2> QED
    BY PresentStays DEF RightsInv
<1>2. CASE RetrievalNext
  BY <1>2, AuthoritySteps, QuerySteps, PreviewSteps, RebuildLeavesRights DEF RetrievalNext
<1> QED
  BY <1>1, <1>2 DEF Next, vars

\* Every decision of a query, a run, a preview or a signed URL was taken from a
\* moment not before its question, in which the version was authorised
\* (eligible_asset_versions, revalidate_asset_versions).
THEOREM RightsInvariant == Spec => []RightsInv
BY RightsInvInit, RightsInvStays, PTL DEF Spec

\* Nothing is returned on stale authority, neither a citation nor a signed URL,
\* however rights, briefs and assets change between the statements of a query
\* and of an exchange (RetrievalApplicationService.execute, exchange).
THEOREM RetrievalIsAuthorised == Spec => []NothingUnauthorised
<1>1. RightsInv => NothingUnauthorised
  <2> SUFFICES ASSUME RightsInv PROVE NothingUnauthorised
    OBVIOUS
  <2>1. DOMAIN history = 1..Len(history) /\ Len(history) \in Nat
    BY DEF RightsInv
  <2>2. ASSUME run # None, NEW cited \in run.citations
        PROVE  /\ cited.decided >= run.asked /\ <<cited.version, cited.record>> \in history[cited.decided].held
               /\ run.by_brief => history[cited.decided].brief
    BY <2>1, <2>2 DEF RightsInv, SoundRun, Founded
  <2>3. ASSUME NEW url \in issued
        PROVE  /\ url.decided >= url.asked /\ url.expires <= url.decided + ReferenceLifetime
               /\ \E held \in history[url.decided].held : held[1] = url.version
    <3>1. SoundReference(history, url)
      BY DEF RightsInv
    <3>2. url.decided \in Int /\ url.asked \in Int /\ ReferenceLifetime \in Int
      BY <2>1, <3>1, RetrievalAssumption DEF SoundReference
    <3> QED
      BY <2>1, <3>1, <3>2 DEF SoundReference, AuthorisedAt
  <2> QED
    BY <2>2, <2>3 DEF NothingUnauthorised
<1> QED
  BY <1>1, RightsInvariant, PTL
=============================================================================
