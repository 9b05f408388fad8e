------------------------- MODULE UploadSessionProofs -------------------------
(***************************************************************************)
(* Proofs about UploadSession, for every number of finalize requests, keys *)
(* and transfers.                                                          *)
(*                                                                         *)
(* The argument: the presigned URL stores nothing over an object, and      *)
(* nothing but the cleanup removes one.  The cleanup is scheduled only     *)
(* when the session ends without an asset.  So what a request has verified *)
(* is what the quarantine holds when it commits, and the row's lease lets  *)
(* one request commit.                                                     *)
(***************************************************************************)
EXTENDS UploadSession, FiniteSetTheorems, TLAPS

USE UploadAssumption

-----------------------------------------------------------------------------
(* The shapes of the row's transitions *)

LEMMA EnteredRow ==
  ASSUME session \in SessionRow, NEW state \in {"OPEN"} \cup Terminal
  PROVE  /\ Entered(state) \in SessionRow /\ Entered(state).state = state
         /\ Entered(state).cleanup = session.cleanup
<1>1. session.version + 1 \in Nat \ {0} /\ None \in Requests \cup {None} /\ FALSE \in BOOLEAN
  BY DEF SessionRow
<1> QED
  BY <1>1 DEF SessionRow, Entered, Terminal

LEMMA NewCleanupRow ==
  ASSUME NEW status \in {"NONE", "OPEN"}, NEW target \in Nat
  PROVE  NewCleanup(status, target) \in CleanupRow /\ NewCleanup(status, target).status = status
<1>1. 0 \in 0..Horizon /\ 0 \in Nat /\ TRUE \in BOOLEAN /\ FALSE \in BOOLEAN
  OBVIOUS
<1> QED
  BY <1>1 DEF NewCleanup, CleanupRow

\* schedule_cleanup keeps the state of the row it is given, and schedules only
\* for a session that ended without an asset.
LEMMA ScheduledRow ==
  ASSUME NEW row \in SessionRow, ScheduleCleanup(row), TypeOK
  PROVE  /\ session' \in SessionRow /\ session'.state = row.state
         /\ cleanup' \in CleanupRow
         /\ row.state \notin {"EXPIRED", "ABORTED"} => session' = row /\ UNCHANGED cleanup
<1>1. CASE row.state \in {"EXPIRED", "ABORTED"} /\ ~row.cleanup
  <2>1. session' = [row EXCEPT !.cleanup = TRUE, !.version = @ + 1]
    BY <1>1 DEF ScheduleCleanup
  <2>2. cleanup' = NewCleanup("OPEN", row.version + 1)
    BY <1>1 DEF ScheduleCleanup
  <2>3. row.version + 1 \in Nat \ {0}
    BY DEF SessionRow
  <2>4. cleanup' \in CleanupRow
    BY <2>2, <2>3, NewCleanupRow
  <2> QED
    BY <1>1, <2>1, <2>3, <2>4 DEF SessionRow
<1>2. CASE ~(row.state \in {"EXPIRED", "ABORTED"} /\ ~row.cleanup)
  BY <1>2 DEF ScheduleCleanup, TypeOK
<1> QED
  BY <1>1, <1>2

\* An ending session without an asset, or one that is given back: the other
\* facts of the invariant look only at the state.
LEMMA EnteredStep ==
  ASSUME UploadInv, session.state \notin Terminal,
         NEW state \in {"OPEN", "EXPIRED", "ABORTED"}, ScheduleCleanup(Entered(state))
  PROVE  /\ session' \in SessionRow /\ session'.state = state
         /\ cleanup' \in CleanupRow
         /\ CleanupFollowsEnd'
<1>1. session \in SessionRow /\ state \in {"OPEN"} \cup Terminal
  BY DEF UploadInv, TypeOK, Terminal
<1>2. Entered(state) \in SessionRow /\ Entered(state).state = state
      /\ Entered(state).cleanup = session.cleanup
  BY <1>1, EnteredRow
<1>3. TypeOK
  BY DEF UploadInv
<1>4. /\ session' \in SessionRow /\ session'.state = state
      /\ cleanup' \in CleanupRow
      /\ state \notin {"EXPIRED", "ABORTED"} => session' = Entered(state) /\ UNCHANGED cleanup
  BY <1>2, <1>3, ScheduledRow
<1>5. ~session.cleanup /\ cleanup.status = "NONE"
  BY DEF UploadInv, CleanupFollowsEnd, Terminal
<1> QED
  BY <1>2, <1>4, <1>5 DEF CleanupFollowsEnd

\* No answer was stored and no asset was made while the session had not ended.
LEMMA NothingAnswered ==
  ASSUME UploadInv, session.state \notin Terminal
  PROVE  assets = {} /\ \A k \in Keys : keys[k].status \notin {"ASSET", "ERROR"}
  BY DEF UploadInv, OneAsset, Terminal

-----------------------------------------------------------------------------
(* What a step touches *)

\* An answer is stored under one key.
LEMMA CompletedKey ==
  ASSUME keys \in [Keys -> KeyRecord], NEW k, NEW answer \in {"ASSET", "ERROR"},
         Complete(k, answer)
  PROVE  /\ keys' \in [Keys -> KeyRecord]
         /\ \A j \in Keys : keys'[j].status = keys[j].status \/ keys'[j].status = answer
<1>1. CASE k \in Keys
  BY <1>1 DEF Complete, KeyRecord
<1>2. CASE k \notin Keys
  BY <1>2 DEF Complete, KeyRecord
<1> QED
  BY <1>1, <1>2

\* The session ends without an asset, or is open again.
LEMMA EndedStep ==
  ASSUME UploadInv, session.state \notin Terminal,
         NEW state \in {"OPEN", "EXPIRED", "ABORTED"}, ScheduleCleanup(Entered(state)),
         UNCHANGED <<keys, assets, source, phase, due, puts>>,
         request' \in [Requests -> RequestState],
         \A q \in Requests : At(q, "commit")' => request'[q] = request[q]
  PROVE  UploadInv'
<1>1. TypeOK' /\ CleanupFollowsEnd'
  BY EnteredStep DEF UploadInv, TypeOK
<1>2. VerifiedObjectStays'
  BY EnteredStep DEF UploadInv, VerifiedObjectStays, At, Terminal
<1>3. OneAsset'
  BY EnteredStep, NothingAnswered DEF OneAsset
<1> QED
  BY <1>1, <1>2, <1>3 DEF UploadInv

\* A step that only moves a request, and not to its commit.
LEMMA RequestMoves ==
  ASSUME UploadInv, UNCHANGED <<session, keys, assets, source, cleanup, phase, due, puts>>,
         request' \in [Requests -> RequestState],
         \A q \in Requests : At(q, "commit")' => request'[q] = request[q]
  PROVE  UploadInv'
  BY DEF UploadInv, TypeOK, CleanupFollowsEnd, VerifiedObjectStays, OneAsset, At

\* A request goes to another step.
LEMMA GotoTypes ==
  ASSUME TypeOK, NEW q \in Requests, Goto(q, "done") \/ Goto(q, "release") \/ Goto(q, "reject")
  PROVE  /\ request' \in [Requests -> RequestState]
         /\ \A p \in Requests : At(p, "commit")' => request'[p] = request[p]
  BY DEF TypeOK, Goto, At, RequestState

-----------------------------------------------------------------------------
(* The inductive step, action by action *)

LEMMA ClaimStep ==
  ASSUME UploadInv, NEW q \in Requests, NEW k \in Keys, NEW v \in 1..session.version,
         ClaimExpired(q) \/ ClaimLease(q, k, v) \/ ClaimFinalized(q, k, v)
  PROVE  UploadInv'
<1>0. TypeOK /\ session \in SessionRow /\ session.version \in Nat /\ v \in Nat
  BY DEF UploadInv, TypeOK, SessionRow
<1>1. CASE ClaimExpired(q)
  <2>1. session.state \notin Terminal
    BY <1>1 DEF ClaimExpired, Expiring, ExpireForRetention, ExpireAbandoned, Terminal
  <2> QED
    BY <1>0, <1>1, <2>1, GotoTypes, EndedStep DEF ClaimExpired
<1>2. CASE ClaimLease(q, k, v)
  <2>1. session.state \notin Terminal
    BY <1>2 DEF ClaimLease
  <2>2. /\ session' \in SessionRow /\ session'.state = "FINALIZING"
        /\ session'.cleanup = session.cleanup
    <3>1. session.version + 1 \in Nat \ {0} /\ TRUE \in BOOLEAN
      BY <1>0 DEF SessionRow
    <3>2. session' = [session EXCEPT !.state = "FINALIZING", !.version = @ + 1, !.token = q,
                                     !.live = TRUE]
      BY <1>2 DEF ClaimLease, ClaimFinalize
    <3> QED
      BY <1>0, <3>1, <3>2 DEF SessionRow
  <2>3. /\ keys' \in [Keys -> KeyRecord]
        /\ \A j \in Keys : keys'[j].status \notin {"ASSET", "ERROR"}
    BY <1>0, <1>2, <2>1, NothingAnswered DEF ClaimLease, TypeOK, KeyRecord
  <2>4. /\ request' \in [Requests -> RequestState]
        /\ \A p \in Requests : At(p, "commit")' => request'[p] = request[p]
    BY <1>0, <1>2 DEF ClaimLease, TypeOK, RequestState, At
  <2>5. UNCHANGED <<assets, source, cleanup, phase, due, puts>>
    BY <1>2 DEF ClaimLease
  <2>6. TypeOK'
    BY <1>0, <2>2, <2>3, <2>4, <2>5 DEF TypeOK
  <2>7. CleanupFollowsEnd' /\ VerifiedObjectStays'
    BY <2>1, <2>2, <2>4, <2>5 DEF UploadInv, CleanupFollowsEnd, VerifiedObjectStays, At, Terminal
  <2>8. OneAsset'
    BY <2>1, <2>2, <2>3, <2>5, NothingAnswered DEF OneAsset
  <2> QED
    BY <2>6, <2>7, <2>8 DEF UploadInv
<1>3. CASE ClaimFinalized(q, k, v)
  <2>1. /\ request' \in [Requests -> RequestState]
        /\ \A p \in Requests : At(p, "commit")' => request'[p] = request[p]
    BY <1>0, <1>3, GotoTypes DEF ClaimFinalized
  <2>2. /\ keys' \in [Keys -> KeyRecord]
        /\ \A j \in Keys : keys'[j].status = keys[j].status \/ keys'[j].status = "ASSET"
    BY <1>0, <1>3 DEF ClaimFinalized, TypeOK, KeyRecord
  <2>3. session.state = "FINALIZED" /\ UNCHANGED <<session, assets, source, cleanup, phase, due, puts>>
    BY <1>3 DEF ClaimFinalized
  <2>4. TypeOK'
    BY <1>0, <2>1, <2>2, <2>3 DEF TypeOK
  <2>5. CleanupFollowsEnd' /\ VerifiedObjectStays'
    BY <2>1, <2>3 DEF UploadInv, CleanupFollowsEnd, VerifiedObjectStays, At
  <2>6. OneAsset'
    BY <2>2, <2>3 DEF UploadInv, OneAsset
  <2> QED
    BY <2>4, <2>5, <2>6 DEF UploadInv
<1> QED
  BY <1>1, <1>2, <1>3

\* Between its stat and its read a request keeps the identity it has seen.
LEMMA VerifyStep ==
  ASSUME UploadInv, NEW q \in Requests,
         Stat(q) \/ Read(q) \/ StorageUnavailable(q) \/ RequestDies(q)
  PROVE  UploadInv'
<1>0. TypeOK /\ source.version \in 0..MaxPuts
      /\ source \in [object : {"none", "good", "bad"}, version : 0..MaxPuts]
  BY DEF UploadInv, TypeOK
<1>1. CASE Stat(q)
  <2>1. /\ request' \in [Requests -> RequestState]
        /\ \A p \in Requests : At(p, "commit")' => request'[p] = request[p]
    <3>1. request[q] \in RequestState
      BY <1>0 DEF TypeOK
    <3>2. \E pc \in {"release", "read"} :
              request' = [request EXCEPT ![q] = [@ EXCEPT !.pc = pc, !.seen = source.version]]
      BY <1>0, <1>1 DEF Stat, TypeOK, RequestState
    <3>3. PICK pc \in {"release", "read"} :
              request' = [request EXCEPT ![q] = [@ EXCEPT !.pc = pc, !.seen = source.version]]
      BY <3>2
    <3>4. /\ [request[q] EXCEPT !.pc = pc, !.seen = source.version] \in RequestState
          /\ [request[q] EXCEPT !.pc = pc, !.seen = source.version].pc = pc
      BY <1>0, <3>1 DEF RequestState
    <3> QED
      BY <1>0, <3>3, <3>4 DEF TypeOK, At
  <2> QED
    BY <1>1, <2>1, RequestMoves DEF Stat
<1>2. CASE Read(q)
  <2>1. CASE Goto(q, "release") \/ Goto(q, "reject")
    BY <1>0, <1>2, <2>1, GotoTypes, RequestMoves DEF Read
  <2>2. CASE Goto(q, "commit") /\ source.object # "none"
             /\ source.version = request[q].seen /\ source.object # "bad"
    <3>1. source = [object |-> "good", version |-> request[q].seen]
      BY <1>0, <2>2
    <3>2. request' \in [Requests -> RequestState]
      BY <1>0, <2>2 DEF Goto, TypeOK, RequestState
    <3>3. request'[q].seen = request[q].seen
          /\ \A p \in Requests \ {q} : request'[p] = request[p]
      BY <1>0, <2>2 DEF Goto, TypeOK, RequestState
    <3>4. UNCHANGED <<session, keys, assets, source, cleanup, phase, due, puts>>
      BY <1>2 DEF Read
    <3>5. TypeOK' /\ CleanupFollowsEnd' /\ OneAsset'
      BY <3>2, <3>4 DEF UploadInv, TypeOK, CleanupFollowsEnd, OneAsset
    <3>6. VerifiedObjectStays'
      BY <3>1, <3>3, <3>4 DEF UploadInv, VerifiedObjectStays, At
    <3> QED
      BY <3>5, <3>6 DEF UploadInv
  <2> QED
    BY <1>2, <2>1, <2>2 DEF Read
<1>3. CASE StorageUnavailable(q) \/ RequestDies(q)
  BY <1>0, <1>3, GotoTypes, RequestMoves DEF StorageUnavailable, RequestDies
<1> QED
  BY <1>1, <1>2, <1>3

\* The commit: whoever holds the live lease of a session that has not ended
\* makes its asset from the object it has verified.
LEMMA CommitStep ==
  ASSUME UploadInv, NEW q \in Requests, Commit(q)
  PROVE  UploadInv'
<1>0. /\ TypeOK /\ session \in SessionRow /\ request[q] \in RequestState
      /\ request' \in [Requests -> RequestState]
      /\ \A p \in Requests : At(p, "commit")' => request'[p] = request[p]
      /\ UNCHANGED <<source, phase, due, puts>>
  BY GotoTypes DEF Commit, UploadInv, TypeOK
<1>1. CASE session.state = "FINALIZED"
  <2>1. /\ keys' \in [Keys -> KeyRecord]
        /\ \A j \in Keys : keys'[j].status = keys[j].status \/ keys'[j].status = "ASSET"
        /\ UNCHANGED <<session, cleanup, assets>>
    BY <1>0, <1>1, CompletedKey DEF Commit, TypeOK
  <2>2. TypeOK'
    BY <1>0, <2>1 DEF TypeOK
  <2>3. CleanupFollowsEnd' /\ VerifiedObjectStays'
    BY <1>0, <2>1 DEF UploadInv, CleanupFollowsEnd, VerifiedObjectStays, At
  <2>4. OneAsset'
    BY <1>0, <1>1, <2>1 DEF UploadInv, OneAsset
  <2> QED
    BY <2>2, <2>3, <2>4 DEF UploadInv
<1>2. CASE session.state # "FINALIZED" /\ ExpireForRetention
  <2>1. session.state \notin Terminal
    BY <1>2 DEF ExpireForRetention, Terminal
  <2> QED
    BY <1>0, <1>2, <2>1, EndedStep DEF Commit
<1>3. CASE session.state # "FINALIZED" /\ ~ExpireForRetention /\ HoldsLiveLease(q)
  <2>1. session.state = "FINALIZING" /\ At(q, "commit")
    BY <1>3 DEF HoldsLiveLease, HoldsLease, Commit
  <2>2. /\ source = [object |-> "good", version |-> request[q].seen]
        /\ request[q].seen \in 1..MaxPuts
    BY <1>0, <2>1 DEF UploadInv, VerifiedObjectStays, TypeOK, RequestState
  <2>3. assets = {} /\ \A k \in Keys : keys[k].status \notin {"ASSET", "ERROR"}
    BY <2>1, NothingAnswered DEF Terminal
  <2>4. /\ session' = Entered("FINALIZED") /\ assets' = {request[q].seen}
        /\ UNCHANGED cleanup /\ Complete(request[q].key, "ASSET")
    BY <1>3, <2>3 DEF Commit
  <2>5. /\ session' \in SessionRow /\ session'.state = "FINALIZED"
        /\ session'.cleanup = session.cleanup
    BY <1>0, <2>4, EnteredRow DEF Terminal
  <2>6. /\ keys' \in [Keys -> KeyRecord]
        /\ \A j \in Keys : keys'[j].status # "ERROR"
    BY <1>0, <2>3, <2>4, CompletedKey DEF TypeOK
  <2>7. TypeOK'
    BY <1>0, <2>2, <2>4, <2>5, <2>6 DEF TypeOK
  <2>8. CleanupFollowsEnd' /\ VerifiedObjectStays' /\ ~session'.cleanup
    BY <1>0, <2>1, <2>4, <2>5 DEF UploadInv, CleanupFollowsEnd, VerifiedObjectStays, At
  <2>9. Cardinality(assets') = 1 /\ (CHOOSE a \in assets' : TRUE) = request[q].seen
    BY <2>4, FS_Singleton
  <2>10. OneAsset'
    BY <1>0, <2>2, <2>4, <2>5, <2>6, <2>8, <2>9 DEF OneAsset
  <2> QED
    BY <2>7, <2>8, <2>10 DEF UploadInv
<1>4. CASE UNCHANGED <<session, cleanup, keys, assets>>
  BY <1>0, <1>4, RequestMoves
<1> QED
  BY <1>1, <1>2, <1>3, <1>4 DEF Commit

\* A request gives its lease back, or rejects what it found and aborts the
\* session it holds.
LEMMA GiveBackStep ==
  ASSUME UploadInv, NEW q \in Requests, Release(q) \/ Reject(q)
  PROVE  UploadInv'
<1>0. /\ TypeOK
      /\ request' \in [Requests -> RequestState]
      /\ \A p \in Requests : At(p, "commit")' => request'[p] = request[p]
      /\ UNCHANGED <<assets, source, phase, due, puts>>
  BY GotoTypes DEF Release, Reject, UploadInv
<1>1. CASE UNCHANGED <<session, cleanup, keys>>
  BY <1>0, <1>1, RequestMoves
<1>2. CASE Release(q) /\ HoldsLease(q)
  <2>1. session.state \notin Terminal
    BY <1>2 DEF HoldsLease, Terminal
  <2> QED
    BY <1>0, <1>2, <2>1, EndedStep DEF Release
<1>3. CASE Reject(q) /\ HoldsLiveLease(q)
  <2>1. session.state \notin Terminal
    BY <1>3 DEF HoldsLiveLease, HoldsLease, Terminal
  <2>2. ScheduleCleanup(Entered("ABORTED")) /\ Complete(request[q].key, "ERROR")
    BY <1>3 DEF Reject
  <2>3. /\ session' \in SessionRow /\ session'.state = "ABORTED"
        /\ cleanup' \in CleanupRow
        /\ CleanupFollowsEnd'
    BY <2>1, <2>2, EnteredStep
  <2>4. assets = {} /\ \A k \in Keys : keys[k].status \notin {"ASSET", "ERROR"}
    BY <2>1, NothingAnswered
  <2>5. /\ keys' \in [Keys -> KeyRecord]
        /\ \A j \in Keys : keys'[j].status # "ASSET"
    BY <1>0, <2>2, <2>4, CompletedKey DEF TypeOK
  <2>6. TypeOK' /\ VerifiedObjectStays' /\ OneAsset'
    BY <1>0, <2>3, <2>4, <2>5 DEF UploadInv, TypeOK, VerifiedObjectStays, OneAsset
  <2> QED
    BY <2>3, <2>6 DEF UploadInv
<1> QED
  BY <1>1, <1>2, <1>3 DEF Release, Reject

\* A step of the cleanup.
PassStep == Cleanup \/ Decide \/ CleanupFails \/ PassIsLost

LEMMA PassFacts ==
  ASSUME PassStep, TypeOK
  PROVE  /\ cleanup.status # "NONE" /\ cleanup' \in CleanupRow /\ cleanup'.status # "NONE"
         /\ source' \in [object : {"none", "good", "bad"}, version : 0..MaxPuts]
         /\ source' = source \/ source'.object = "none"
         /\ UNCHANGED <<session, keys, request, assets, phase, due, puts>>
<1>1. /\ cleanup \in CleanupRow /\ cleanup.passes \in Nat /\ cleanup.passes + 1 \in Nat
      /\ source \in [object : {"none", "good", "bad"}, version : 0..MaxPuts]
  BY DEF TypeOK, CleanupRow
<1>2. Deleted => /\ source' \in [object : {"none", "good", "bad"}, version : 0..MaxPuts]
                 /\ source'.object = "none"
  BY <1>1 DEF Deleted
<1>3. ASSUME NEW passes \in Nat, GiveUpOrRetry(passes)
      PROVE  cleanup' \in CleanupRow /\ cleanup'.status # "NONE"
  BY <1>1, <1>3 DEF GiveUpOrRetry, CleanupRow
<1>4. CASE Cleanup
  <2>1. cleanup' \in CleanupRow /\ cleanup'.status # "NONE"
    BY <1>1, <1>4 DEF Cleanup, CleanupRow
  <2> QED
    BY <1>2, <1>4, <2>1 DEF Cleanup, PassDue
<1>5. CASE Decide
  <2>1. cleanup' \in CleanupRow /\ cleanup'.status # "NONE"
    BY <1>1, <1>5 DEF Decide, CleanupRow
  <2> QED
    BY <1>1, <1>5, <2>1 DEF Decide
<1>6. CASE CleanupFails
  BY <1>1, <1>2, <1>3, <1>6 DEF CleanupFails, PassDue
<1>7. CASE PassIsLost
  BY <1>1, <1>3, <1>7 DEF PassIsLost
<1> QED
  BY <1>4, <1>5, <1>6, <1>7 DEF PassStep

\* The client's other calls, the expiry scan and the cleanup.
LEMMA OtherStep ==
  ASSUME UploadInv, Abort \/ Look \/ ExpiryScan \/ PassStep
  PROVE  UploadInv'
<1>1. ASSUME Abort \/ Look \/ ExpiryScan
      PROVE  UploadInv'
  <2>1. /\ session.state \notin Terminal
        /\ request' \in [Requests -> RequestState]
        /\ \A q \in Requests : At(q, "commit")' => request'[q] = request[q]
    BY <1>1 DEF Abort, Look, ExpireIfDue, ExpiryScan, ExpireAbandoned, Terminal, UploadInv,
       TypeOK
  <2> QED
    BY <1>1, <2>1, EndedStep DEF Abort, Look, ExpiryScan
<1>2. ASSUME PassStep
      PROVE  UploadInv'
  <2>1. session.state \in {"EXPIRED", "ABORTED"} /\ cleanup \in CleanupRow
    BY <1>2, PassFacts DEF UploadInv, CleanupFollowsEnd, TypeOK
  <2>2. /\ source' \in [object : {"none", "good", "bad"}, version : 0..MaxPuts]
        /\ source' = source \/ source'.object = "none"
    BY <1>2, PassFacts DEF UploadInv, TypeOK
  <2>3. /\ cleanup' \in CleanupRow
        /\ UNCHANGED <<session, keys, request, assets, phase, due, puts>>
    BY <1>2, PassFacts DEF UploadInv, TypeOK
  <2> QED
    BY <2>1, <2>2, <2>3 DEF UploadInv, TypeOK, CleanupFollowsEnd, VerifiedObjectStays, OneAsset
<1> QED
  BY <1>1, <1>2

LEMMA PutRow ==
  ASSUME cleanup \in CleanupRow, Put
  PROVE  cleanup' \in CleanupRow /\ cleanup'.status = cleanup.status
<1>1. PICK missed \in BOOLEAN : missed = (cleanup.missed \/ cleanup.status = "DELETED")
  BY DEF CleanupRow
<1>2. cleanup' = [cleanup EXCEPT !.missed = missed]
  BY <1>1 DEF Put
<1> QED
  BY <1>2 DEF CleanupRow

LEMMA WindowRow ==
  ASSUME cleanup \in CleanupRow, WindowAges
  PROVE  cleanup' \in CleanupRow /\ cleanup'.status = cleanup.status
<1>1. cleanup.age + 1 \in 0..Horizon
  BY DEF WindowAges, Over, CleanupRow
<1> QED
  BY <1>1 DEF WindowAges, CleanupRow

\* The client's transfers and the clock.
LEMMA WorldStep ==
  ASSUME UploadInv, Put \/ UrlAges \/ RetentionDeadlinePasses \/ LeaseLapses \/ WindowAges
  PROVE  UploadInv'
<1>1. ASSUME Put
      PROVE  UploadInv'
  <2>1. source.object = "none" /\ puts' = puts + 1 /\ puts' \in 0..MaxPuts
    BY <1>1 DEF Put, UploadInv, TypeOK
  <2>2. /\ source' \in [object : {"none", "good", "bad"}, version : 0..MaxPuts]
        /\ source'.version > 0
    BY <1>1, <2>1 DEF Put, UploadInv, TypeOK
  <2>3. /\ UNCHANGED <<session, keys, request, assets, phase, due>>
        /\ cleanup' \in CleanupRow /\ cleanup'.status = cleanup.status
    <3>1. cleanup \in CleanupRow /\ (cleanup.missed \/ cleanup.status = "DELETED") \in BOOLEAN
      BY DEF UploadInv, TypeOK, CleanupRow
    <3> QED
      BY <1>1, <3>1, PutRow DEF Put
  <2>4. session.state # "FINALIZED"
    BY <2>1 DEF UploadInv, OneAsset
  <2>5. TypeOK' /\ CleanupFollowsEnd' /\ OneAsset'
    BY <2>1, <2>2, <2>3, <2>4 DEF UploadInv, TypeOK, CleanupFollowsEnd, OneAsset
  <2>6. session.state \notin {"EXPIRED", "ABORTED"} => \A q \in Requests : ~At(q, "commit")
    BY <2>1 DEF UploadInv, VerifiedObjectStays
  <2>7. VerifiedObjectStays'
    BY <2>2, <2>3, <2>6 DEF VerifiedObjectStays, At
  <2> QED
    BY <2>5, <2>7 DEF UploadInv
<1>2. ASSUME UrlAges \/ RetentionDeadlinePasses
      PROVE  UploadInv'
  <2>1. phase' \in 0..2 /\ due' \in BOOLEAN
    <3>1. phase \in 0..2 /\ due \in BOOLEAN
      BY DEF UploadInv, TypeOK
    <3>2. CASE UrlAges
      BY <3>1, <3>2 DEF UrlAges
    <3>3. CASE RetentionDeadlinePasses
      BY <3>1, <3>3 DEF RetentionDeadlinePasses
    <3> QED
      BY <1>2, <3>2, <3>3
  <2>2. UNCHANGED <<session, keys, request, assets, source, cleanup, puts>>
    BY <1>2 DEF UrlAges, RetentionDeadlinePasses
  <2> QED
    BY <2>1, <2>2 DEF UploadInv, TypeOK, CleanupFollowsEnd, VerifiedObjectStays, OneAsset, At
<1>3. ASSUME LeaseLapses
      PROVE  UploadInv'
  <2>1. /\ session' \in SessionRow /\ session'.state = session.state
        /\ session'.cleanup = session.cleanup
    BY <1>3 DEF LeaseLapses, UploadInv, TypeOK, SessionRow
  <2>2. UNCHANGED <<keys, request, assets, source, cleanup, phase, due, puts>>
    BY <1>3 DEF LeaseLapses
  <2> QED
    BY <2>1, <2>2 DEF UploadInv, TypeOK, CleanupFollowsEnd, VerifiedObjectStays, OneAsset, At
<1>4. ASSUME WindowAges
      PROVE  UploadInv'
  <2>1. cleanup' \in CleanupRow /\ cleanup'.status = cleanup.status
    BY <1>4, WindowRow DEF UploadInv, TypeOK
  <2>2. UNCHANGED <<session, keys, request, assets, source, phase, due, puts>>
    BY <1>4 DEF WindowAges
  <2> QED
    BY <2>1, <2>2 DEF UploadInv, TypeOK, CleanupFollowsEnd, VerifiedObjectStays, OneAsset, At
<1> QED
  BY <1>1, <1>2, <1>3, <1>4

-----------------------------------------------------------------------------
(* The theorems *)

LEMMA UploadInit ==
  ASSUME Init
  PROVE  UploadInv
<1>1. TypeOK
  <2>1. session \in SessionRow /\ due \in BOOLEAN
    <3>1. /\ "OPEN" \in {"OPEN", "FINALIZING"} \cup Terminal /\ 1 \in Nat \ {0}
          /\ None \in Requests \cup {None} /\ FALSE \in BOOLEAN
      OBVIOUS
    <3>2. due \in BOOLEAN
      BY Zenon DEF Init, NewSession
    <3>3. session = [state |-> "OPEN", version |-> 1, token |-> None, live |-> FALSE, cleanup |-> FALSE]
      BY DEF Init, NewSession
    <3> QED
      BY <3>1, <3>2, <3>3 DEF SessionRow
  <2>2. keys \in [Keys -> KeyRecord] /\ request \in [Requests -> RequestState]
    BY DEF Init, NewSession, KeyRecord, RequestState
  <2>3. /\ source \in [object : {"none", "good", "bad"}, version : 0..MaxPuts]
        /\ cleanup \in CleanupRow
        /\ assets \subseteq 1..MaxPuts /\ phase \in 0..2 /\ puts \in 0..MaxPuts
    BY NewCleanupRow DEF Init
  <2> QED
    BY <2>1, <2>2, <2>3 DEF TypeOK
<1> QED
  BY <1>1, NewCleanupRow DEF Init, NewSession, UploadInv, CleanupFollowsEnd, VerifiedObjectStays, OneAsset, At

LEMMA UploadStep ==
  ASSUME UploadInv, [Next]_vars
  PROVE  UploadInv'
<1>1. ASSUME NEW q \in Requests, FinalizeStep(q)
      PROVE  UploadInv'
  <2>1. CASE ClaimExpired(q)
    <3>1. PICK k \in Keys : TRUE
      BY UploadAssumption
    <3>2. session.version \in Nat \ {0}
      BY DEF UploadInv, TypeOK, SessionRow
    <3>3. 1 \in 1..session.version
      BY <3>2
    <3> QED
      BY <2>1, <3>1, <3>3, ClaimStep
  <2> QED
    BY <1>1, <2>1, ClaimStep, VerifyStep, CommitStep, GiveBackStep DEF FinalizeStep
<1>2. ASSUME UNCHANGED vars
      PROVE  UploadInv'
  BY <1>2 DEF vars, UploadInv, TypeOK, CleanupFollowsEnd, VerifiedObjectStays, OneAsset, At
<1> QED
  BY <1>1, <1>2, OtherStep, WorldStep DEF Next, PassStep

\* Every conjunct of UploadInv holds in every reachable state: the row, the keys
\* and the requests keep their types, a cleanup follows only an end without an
\* asset, and what a request has verified stays until it commits.
THEOREM UploadInvariant == Spec => []UploadInv
<1>1. Init => UploadInv
  BY UploadInit
<1>2. UploadInv /\ [Next]_vars => UploadInv'
  BY UploadStep
<1> QED
  BY <1>1, <1>2, PTL DEF Spec

\* A session yields one asset exactly when it is FINALIZED, the object of that
\* asset stays in quarantine, and every answer stored under a key tells the fate
\* of the session (UploadApplicationService._commit and _reject).
THEOREM SessionYieldsOneAsset == Spec => []OneAsset
<1>1. UploadInv => OneAsset
  BY DEF UploadInv
<1> QED
  BY <1>1, UploadInvariant, PTL

-----------------------------------------------------------------------------
(* The constraints of the tables *)

\* The part of the constraints that is about the lease and the cleanup.
LeaseFits ==
    /\ session.state = "FINALIZING" <=> session.token # None
    /\ session.live => session.state = "FINALIZING"
    /\ session.cleanup <=> cleanup.status # "NONE"

LEMMA EnteredFits ==
  ASSUME session \in SessionRow, LeaseFits, NEW state \in {"OPEN"} \cup Terminal
  PROVE  /\ Entered(state).token = None /\ ~Entered(state).live
         /\ Entered(state).state # "FINALIZING"
  BY DEF SessionRow, Entered, Terminal

LEMMA ScheduledFits ==
  ASSUME TypeOK, LeaseFits, NEW state \in {"OPEN"} \cup Terminal,
         ScheduleCleanup(Entered(state))
  PROVE  LeaseFits'
<1> DEFINE row == Entered(state)
<1>1. /\ row \in SessionRow /\ row.state = state /\ row.cleanup = session.cleanup
      /\ row.token = None /\ ~row.live /\ row.state # "FINALIZING"
  BY EnteredRow, EnteredFits DEF TypeOK
<1>2. ScheduleCleanup(row)
  OBVIOUS
<1> HIDE DEF row
<1>3. CASE row.state \in {"EXPIRED", "ABORTED"} /\ ~row.cleanup
  <2>1. session' = [row EXCEPT !.cleanup = TRUE, !.version = @ + 1]
    BY <1>2, <1>3 DEF ScheduleCleanup
  <2>2. cleanup'.status = "OPEN"
    BY <1>2, <1>3 DEF ScheduleCleanup, NewCleanup
  <2>3. /\ session'.token = None /\ session'.live = row.live /\ session'.cleanup
        /\ session'.state = row.state
    BY <1>1, <2>1 DEF SessionRow
  <2> QED
    BY <1>1, <2>2, <2>3 DEF LeaseFits
<1>4. CASE ~(row.state \in {"EXPIRED", "ABORTED"} /\ ~row.cleanup)
  <2>1. session' = row /\ UNCHANGED cleanup
    BY <1>2, <1>4 DEF ScheduleCleanup
  <2> QED
    BY <1>1, <2>1 DEF LeaseFits
<1> QED
  BY <1>3, <1>4

\* A step of a finalize request.
LEMMA RequestFits ==
  ASSUME TypeOK, LeaseFits, NEW q \in Requests, FinalizeStep(q)
  PROVE  LeaseFits'
<1>0. session \in SessionRow
  BY DEF TypeOK
<1>1. CASE UNCHANGED <<session, cleanup>>
  BY <1>1 DEF LeaseFits
<1>2. CASE \E state \in {"OPEN"} \cup Terminal : ScheduleCleanup(Entered(state))
  BY <1>2, ScheduledFits
<1>3. CASE session' = Entered("FINALIZED") /\ UNCHANGED cleanup
  BY <1>0, <1>3, EnteredRow, EnteredFits DEF LeaseFits, Terminal
<1>4. CASE ClaimFinalize(q) /\ UNCHANGED cleanup
  BY <1>0, <1>4, UploadAssumption DEF ClaimFinalize, LeaseFits, SessionRow
<1>5. CASE ClaimExpired(q)
  BY <1>2, <1>5 DEF ClaimExpired, Terminal
<1>6. CASE \E k \in Keys, v \in 1..session.version : ClaimLease(q, k, v) \/ ClaimFinalized(q, k, v)
  BY <1>1, <1>4, <1>6 DEF ClaimLease, ClaimFinalized
<1>7. CASE Commit(q)
  BY <1>1, <1>2, <1>3, <1>7 DEF Commit, Terminal
<1>8. CASE Release(q) \/ Reject(q)
  BY <1>1, <1>2, <1>8 DEF Release, Reject, Terminal
<1>9. CASE Stat(q) \/ Read(q) \/ StorageUnavailable(q) \/ RequestDies(q)
  BY <1>1, <1>9 DEF Stat, Read, StorageUnavailable, RequestDies
<1> QED
  BY <1>5, <1>6, <1>7, <1>8, <1>9 DEF FinalizeStep

LEMMA LeaseStep ==
  ASSUME UploadInv, LeaseFits, [Next]_vars
  PROVE  LeaseFits'
<1>0. TypeOK /\ session \in SessionRow
  BY DEF UploadInv, TypeOK
<1>1. CASE \E q \in Requests : FinalizeStep(q)
  BY <1>0, <1>1, RequestFits
<1>2. CASE Abort \/ Look \/ ExpiryScan
  BY <1>0, <1>2, ScheduledFits DEF Abort, Look, ExpiryScan, Terminal
<1>3. CASE PassStep
  <2>1. UNCHANGED session /\ cleanup.status # "NONE" /\ cleanup'.status # "NONE"
    BY <1>0, <1>3, PassFacts
  <2> QED
    BY <2>1 DEF LeaseFits
<1>4. CASE WindowAges \/ Put
  <2>1. UNCHANGED session /\ cleanup'.status = cleanup.status
    BY <1>0, <1>4, WindowRow, PutRow DEF WindowAges, Put, TypeOK
  <2> QED
    BY <2>1 DEF LeaseFits
<1>5. CASE LeaseLapses
  <2>1. /\ session'.state = session.state /\ session'.token = session.token
        /\ ~session'.live /\ session'.cleanup = session.cleanup /\ UNCHANGED cleanup
    BY <1>0, <1>5 DEF LeaseLapses, SessionRow
  <2> QED
    BY <2>1 DEF LeaseFits
<1>6. CASE UrlAges \/ RetentionDeadlinePasses \/ UNCHANGED vars
  BY <1>6 DEF UrlAges, RetentionDeadlinePasses, vars, LeaseFits
<1> QED
  BY <1>1, <1>2, <1>3, <1>4, <1>5, <1>6 DEF Next, PassStep

\* One asset is one element.
LEMMA OneVersion ==
  ASSUME UploadInv
  PROVE  AssetVersionTable
<1>1. CASE session.state = "FINALIZED"
  <2>1. Cardinality(assets) = 1 /\ assets \subseteq 1..MaxPuts
    BY <1>1 DEF UploadInv, OneAsset, TypeOK
  <2>2. IsFiniteSet(1..MaxPuts)
    BY UploadAssumption, FS_Interval
  <2>3. IsFiniteSet(assets)
    BY <2>1, <2>2, FS_Subset
  <2>4. \E v : assets = {v}
    BY <2>1, <2>3, FS_Singleton
  <2> QED
    BY <2>4 DEF AssetVersionTable
<1>2. CASE session.state # "FINALIZED"
  BY <1>2 DEF UploadInv, OneAsset, AssetVersionTable
<1> QED
  BY <1>1, <1>2

\* No transaction is refused by the constraints of upload_sessions and
\* asset_versions: a lease belongs to a FINALIZING session, an asset version, the
\* only one, to a FINALIZED session, and a cleanup to one that ended without it
\* (UploadSessionModel, AssetVersionModel).
THEOREM RowsFit == Spec => []RowsFitTables
<1>1. Init => UploadInv /\ LeaseFits
  <2>1. Init => LeaseFits
    BY SMT DEF Init, NewSession, NewCleanup, LeaseFits
  <2> QED
    BY <2>1, UploadInit
<1>2. UploadInv /\ LeaseFits /\ [Next]_vars => UploadInv' /\ LeaseFits'
  BY UploadStep, LeaseStep
<1>3. UploadInv /\ LeaseFits => RowsFitTables
  BY OneVersion DEF UploadInv, CleanupFollowsEnd, OneAsset, LeaseFits, RowsFitTables,
     UploadSessionTable
<1> QED
  BY <1>1, <1>2, <1>3, PTL DEF Spec
==============================================================================
