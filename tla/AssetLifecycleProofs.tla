------------------------ MODULE AssetLifecycleProofs ------------------------
(***************************************************************************)
(* AssetInv is inductive.  Workers hold on to what only ever grows: the    *)
(* stages that have passed, the upload that is gone, the deadline that is  *)
(* over, the row of the controlled object.  Forward is this growth; it     *)
(* carries every worker but the one that moves over any step.              *)
(***************************************************************************)
EXTENDS AssetLifecycle, SequenceTheorems, TLAPS

-----------------------------------------------------------------------------
(* Stages and verdicts *)

Verdict5 == {"PASS", "REVIEW", "BLOCK", "RETRYABLE_FAILURE", "TERMINAL_FAILURE"}

\* Whatever its adapter answers, a stage ends with one of five verdicts.
LEMMA VerdictKinds == \A s \in StageNames : Verdicts(s) \subseteq Verdict5
<1>1. RunLocal \subseteq Verdict5
  BY DEF RunLocal, LocalFormats, Verdict5
<1>2. RunMalware \subseteq Verdict5
  BY DEF RunMalware, Scans, Verdict5
<1>3. RunContentSafety \subseteq Verdict5
  <2>1. SUFFICES ASSUME NEW m \in Moderation \cup {TransferDenied}
                 PROVE  (IF "risk" \in DOMAIN m THEN m.risk ELSE m.refused) \in Verdict5
    BY DEF RunContentSafety
  <2>2. CASE m \in [risk : {"PASS", "REVIEW", "BLOCK"}]
    BY <2>2 DEF Verdict5
  <2>3. CASE m \in [refused : {"RETRYABLE_FAILURE", "TERMINAL_FAILURE"}]
    BY <2>3 DEF Verdict5
  <2>4. TransferDenied \in [refused : {"RETRYABLE_FAILURE", "TERMINAL_FAILURE"}]
    BY DEF TransferDenied
  <2> QED
    BY <2>2, <2>3, <2>4 DEF Moderation, Normalized
<1>4. RunProvenance \subseteq Verdict5
  BY DEF RunProvenance, Readings, Provenance, Verdict5
<1>5. \A i \in DOMAIN Stages : Stages[i] \in {"LOCAL_FORMAT", "MALWARE", "CONTENT_SAFETY", "PROVENANCE"}
  BY AssetAssumption DEF AssetAssumption
<1> QED
  BY <1>1, <1>2, <1>3, <1>4, <1>5 DEF StageNames, Verdicts

\* The types that the prover needs of stages and verdicts.
LEMMA StageTypes ==
  /\ Len(Stages) \in Nat \ {0} /\ DOMAIN Stages = 1..Len(Stages)
  /\ \A i \in DOMAIN Stages : Stages[i] \in StageNames
  /\ Unseen \in [StageNames -> Verdict] /\ Unseen \in ValidationResults
  /\ Verdict \subseteq Verdict5 \cup {"NONE"}
  /\ \A s \in StageNames : Verdicts(s) \subseteq Verdict
  /\ Idle \in WorkerState
<1>1. Stages \in Seq({"LOCAL_FORMAT", "MALWARE", "CONTENT_SAFETY", "PROVENANCE"}) /\ Stages # <<>>
  BY AssetAssumption DEF AssetAssumption
<1>2. Len(Stages) \in Nat \ {0} /\ DOMAIN Stages = 1..Len(Stages)
  <2>1. Len(Stages) \in Nat \ {0}
    BY <1>1, EmptySeq
  <2>2. DOMAIN Stages = 1..Len(Stages)
    BY <1>1
  <2> QED
    BY <2>1, <2>2
<1>3. "NONE" \in Verdict /\ \A s \in StageNames : Verdicts(s) \subseteq Verdict
  BY DEF Verdict
<1>4. \A i \in DOMAIN Stages : Stages[i] \in StageNames
  BY DEF StageNames
<1>5. Unseen \in [StageNames -> Verdict] /\ Unseen \in ValidationResults
  BY <1>3 DEF Unseen, ValidationResults
<1>6. Verdict \subseteq Verdict5 \cup {"NONE"}
  <2>1. SUFFICES ASSUME NEW v \in UNION {Verdicts(s) : s \in StageNames}
                 PROVE  v \in Verdict5
    BY DEF Verdict
  <2>2. PICK s \in StageNames : v \in Verdicts(s)
    OBVIOUS
  <2> QED
    BY <2>2, VerdictKinds
<1>7. Idle \in WorkerState
  <2>1. 0 \in 0..MaxAttempts /\ 1 \in DOMAIN Stages
    BY <1>2, AssetAssumption DEF AssetAssumption
  <2> QED
    BY <2>1, <1>5 DEF Idle, WorkerState, Points
<1> QED
  BY <1>2, <1>3, <1>4, <1>5, <1>6, <1>7

\* One stage of one attempt is recorded: its results stay typed, every stage that
\* has passed stays passed, and the stage has passed if the verdict kept is PASS.
LEMMA ResultAppended ==
  ASSUME results \in [1..MaxAttempts -> ValidationResults],
         NEW n \in 1..MaxAttempts, NEW s \in StageNames, NEW v \in Verdicts(s),
         AppendResult(n, s, v)
  PROVE  /\ results' \in [1..MaxAttempts -> ValidationResults]
         /\ \A t \in StageNames : HasPassed(t) => HasPassed(t)'
         /\ results'[n][s] \in Verdicts(s)
         /\ results'[n][s] = "PASS" => HasPassed(s)'
<1>1. results[n] \in [StageNames -> Verdict]
  BY DEF ValidationResults
<1>2. "NONE" \notin Verdicts(s)
  BY VerdictKinds DEF Verdict5
<1> DEFINE kept == IF results[n][s] = "NONE" THEN v ELSE results[n][s]
<1>3. kept \in Verdicts(s) /\ kept \in Verdict
  BY StageTypes DEF ValidationResults
<1>4. PICK row \in ValidationResults : row = [results[n] EXCEPT ![s] = kept]
  <2>1. [results[n] EXCEPT ![s] = kept] \in [StageNames -> Verdict]
    BY <1>1, <1>3
  <2> QED
    BY <2>1, <1>1, <1>3 DEF ValidationResults
<1>5. results' = [results EXCEPT ![n] = row]
  BY <1>4 DEF AppendResult
<1>6. results' \in [1..MaxAttempts -> ValidationResults] /\ results'[n] = row
  BY <1>5
<1>7. row[s] = kept
  BY <1>4, <1>1
<1>8. ASSUME NEW t \in StageNames, NEW k \in 1..MaxAttempts, results[k][t] = "PASS"
      PROVE  results'[k][t] = "PASS"
  <2>1. CASE k = n
    BY <2>1, <1>8, <1>4, <1>6, <1>1
  <2>2. CASE k # n
    BY <2>2, <1>8, <1>5
  <2> QED
    BY <2>1, <2>2
<1> QED
  BY <1>3, <1>6, <1>7, <1>8 DEF HasPassed

-----------------------------------------------------------------------------
(* What only ever grows, and the workers that do not move *)

Forward ==
  /\ \A s \in StageNames : HasPassed(s) => HasPassed(s)'
  /\ store'.source = "upload" => store.source = "upload"
  /\ Due => Due'
  /\ Due /\ objects.version \notin store.dest => objects'.version \notin store'.dest
  /\ objects.controlled # "NONE" => objects'.controlled # "NONE" /\ objects'.version = objects.version
  /\ objects'.controlled = "CONTROLLED" => objects.controlled = "CONTROLLED" \/ ~Due
  /\ objects'.controlled = "NONE" /\ ~Due' => objects.controlled = "NONE" /\ store.dest \subseteq store'.dest

\* A worker that does not move keeps its invariant.
LEMMA WaitingWorker ==
  ASSUME Forward, NEW w \in Workers, WorkerInv(w), worker'[w] = worker[w],
         worker[w] \in WorkerState
  PROVE  WorkerInv(w)'
<1>1. StagesInOrder(w)'
  <2>1. \A i \in 1..(worker[w].stage - 1) : worker'[w].stage = worker[w].stage
    OBVIOUS
  <2> QED
    BY DEF WorkerInv, StagesInOrder, Forward
<1>2. SeenGone(w)'
  BY DEF WorkerInv, SeenGone, CopyKept, Forward
<1>3. CopyKept(w)'
  BY DEF WorkerInv, CopyKept, Forward
<1> QED
  BY <1>1, <1>2, <1>3 DEF WorkerInv

\* One worker moves and ends in a state that fits; the others wait.
LEMMA OneWorkerMoves ==
  ASSUME TypeOK, \A v \in Workers : WorkerInv(v), Forward,
         NEW w \in Workers, NEW x \in WorkerState, worker' = [worker EXCEPT ![w] = x],
         WorkerInv(w)'
  PROVE  worker' \in [Workers -> WorkerState] /\ \A v \in Workers : WorkerInv(v)'
<1>1. worker \in [Workers -> WorkerState]
  BY DEF TypeOK
<1>2. \A v \in Workers \ {w} : worker'[v] = worker[v] /\ worker[v] \in WorkerState
  BY <1>1
<1> QED
  BY <1>1, <1>2, WaitingWorker

\* No worker moves.
LEMMA WorkersWait ==
  ASSUME TypeOK, \A v \in Workers : WorkerInv(v), Forward, UNCHANGED worker
  PROVE  worker' \in [Workers -> WorkerState] /\ \A v \in Workers : WorkerInv(v)'
<1>1. worker \in [Workers -> WorkerState]
  BY DEF TypeOK
<1> QED
  BY <1>1, WaitingWorker

\* A worker goes to another point: it keeps what it knows, unless that point
\* needs none of it.
Reaches(w, pc, x) ==
  /\ x \in WorkerState /\ worker' = [worker EXCEPT ![w] = x] /\ worker'[w] = x
  /\ x.pc = pc
  /\ pc \notin Forgetful => /\ x.attempt = worker[w].attempt /\ x.seen = worker[w].seen
                            /\ x.stage = worker[w].stage /\ x.version = worker[w].version

LEMMA GotoReaches ==
  ASSUME TypeOK, NEW w \in Workers, NEW pc \in Points, Goto(w, pc)
  PROVE  \E x : Reaches(w, pc, x)
<1>1. worker \in [Workers -> WorkerState] /\ worker[w] \in WorkerState
  BY DEF TypeOK
<1>2. CASE pc \in Forgetful
  <2>1. PICK x \in WorkerState : x = [Idle EXCEPT !.pc = pc]
    BY StageTypes DEF WorkerState
  <2>2. worker' = [worker EXCEPT ![w] = x]
    BY <2>1, <1>2 DEF Goto
  <2>3. worker'[w] = x /\ x.pc = pc
    BY <2>1, <2>2, <1>1, StageTypes DEF WorkerState
  <2> QED
    BY <2>2, <2>3, <1>2 DEF Reaches
<1>3. CASE pc \notin Forgetful
  <2>1. PICK x \in WorkerState : x = [worker[w] EXCEPT !.pc = pc]
    BY <1>1 DEF WorkerState
  <2>2. worker' = [worker EXCEPT ![w] = x]
    BY <2>1, <1>3 DEF Goto
  <2>3. worker'[w] = x /\ x.pc = pc
    BY <2>1, <2>2, <1>1 DEF WorkerState
  <2>4. /\ x.attempt = worker[w].attempt /\ x.seen = worker[w].seen
        /\ x.stage = worker[w].stage /\ x.version = worker[w].version
    BY <2>1, <1>1 DEF WorkerState
  <2> QED
    BY <2>2, <2>3, <2>4 DEF Reaches
<1> QED
  BY <1>2, <1>3

-----------------------------------------------------------------------------
(* The parts of the invariant that no worker holds *)

Facts ==
  /\ VersionsIssued /\ RowsFollowStore /\ TargetsMarked /\ RightsFollowPromotion
  /\ ValidatedBeforeUse /\ ControlledContentKept /\ DeletedHasNoObjects

RowsTyped ==
  /\ asset \in AssetRow /\ AssetTable
  /\ rights \in RightsRecord
  /\ objects \in ObjectRows
  /\ store \in ObjectStore
  /\ results \in [1..MaxAttempts -> ValidationResults]
  /\ cleanup \in Cleanup
  /\ passed \in BOOLEAN

Counted == op \in Operation /\ AttemptsInOrder /\ records \in 0..MaxRecords /\ faults \in 0..MaxFaults

\* A step that touches no row and no object disturbs none of these parts.
LEMMA RowsUntouched ==
  ASSUME AssetInv, UNCHANGED <<asset, rights, objects, store, results, cleanup, passed>>
  PROVE  Forward /\ Facts' /\ RowsTyped'
<1>1. Forward
  BY DEF Forward, HasPassed, Due
<1>2. RowsTyped'
  BY DEF AssetInv, TypeOK, RowsTyped, AssetTable
<1>3. Promoted' <=> Promoted
  BY DEF Promoted, HasPassed
<1>4. Usable' <=> Usable
  BY DEF Usable, RightsBlocked
<1>5. Facts'
  BY <1>3, <1>4 DEF AssetInv, Facts, VersionsIssued, RowsFollowStore, TargetsMarked, RightsFollowPromotion,
                    ValidatedBeforeUse, ControlledContentKept, DeletedHasNoObjects
<1> QED
  BY <1>1, <1>2, <1>5

\* A step of one executor, with what it has to show.
LEMMA ExecutorStep ==
  ASSUME AssetInv, NEW w \in Workers, UNCHANGED <<op, cleanup, passed, records, faults>>,
         NEW x \in WorkerState, worker' = [worker EXCEPT ![w] = x], WorkerInv(w)',
         Forward, Facts', RowsTyped'
  PROVE  AssetInv'
<1>1. Counted'
  BY DEF AssetInv, TypeOK, Counted, AttemptsInOrder
<1>2. worker' \in [Workers -> WorkerState] /\ \A v \in Workers : WorkerInv(v)'
  BY OneWorkerMoves DEF AssetInv
<1> QED
  BY <1>1, <1>2 DEF AssetInv, TypeOK, RowsTyped, Facts, Counted

\* Points that promise nothing, and the one that promises a deadline.
LEMMA FreePoint ==
  ASSUME NEW w \in Workers,
         worker'[w].pc \in Outcomes \cup {"idle", "review", "reject", "cleanup"}
  PROVE  WorkerInv(w)'
BY DEF WorkerInv, StagesInOrder, SeenGone, CopyKept, Outcomes

LEMMA ExpirePoint ==
  ASSUME NEW w \in Workers, worker'[w].pc = "expire", Due'
  PROVE  WorkerInv(w)'
BY DEF WorkerInv, StagesInOrder, SeenGone, CopyKept

\* A worker that goes to a point where its invariant holds, while no row changes.
LEMMA GoesOn ==
  ASSUME AssetInv, NEW w \in Workers, NEW pc \in Points, Goto(w, pc),
         UNCHANGED <<asset, rights, objects, store, results>>,
         UNCHANGED <<op, cleanup, passed, records, faults>>,
         \A x : Reaches(w, pc, x) => WorkerInv(w)'
  PROVE  AssetInv'
<1>1. PICK x : Reaches(w, pc, x)
  BY GotoReaches DEF AssetInv
<1>2. Forward /\ Facts' /\ RowsTyped'
  BY RowsUntouched
<1> QED
  BY <1>1, <1>2, ExecutorStep DEF Reaches

\* It returns, or goes to a point that promises nothing.
LEMMA GoesFree ==
  ASSUME AssetInv, NEW w \in Workers, NEW pc \in Outcomes \cup {"review", "reject", "cleanup"}, Goto(w, pc),
         UNCHANGED <<asset, rights, objects, store, results>>,
         UNCHANGED <<op, cleanup, passed, records, faults>>
  PROVE  AssetInv'
<1>1. pc \in Points
  BY DEF Points, Outcomes
<1>2. \A x : Reaches(w, pc, x) => WorkerInv(w)'
  BY FreePoint DEF Reaches
<1> QED
  BY <1>1, <1>2, GoesOn

\* The retention guard sends it to the cleanup instead of its step.
LEMMA GoesToExpire ==
  ASSUME AssetInv, NEW w \in Workers, Due, Goto(w, "expire"),
         UNCHANGED <<asset, rights, objects, store, results>>,
         UNCHANGED <<op, cleanup, passed, records, faults>>
  PROVE  AssetInv'
<1>1. "expire" \in Points /\ Due'
  BY DEF Points, Due
<1>2. \A x : Reaches(w, "expire", x) => WorkerInv(w)'
  BY <1>1, ExpirePoint DEF Reaches
<1> QED
  BY <1>1, <1>2, GoesOn

-----------------------------------------------------------------------------
(* The validation executor, step by step *)

Still(w) == AssetInv /\ UNCHANGED <<op, cleanup, passed, records, faults>>

LEMMA LoadKeeps ==
  ASSUME NEW w \in Workers, Still(w), Load(w)
  PROVE  AssetInv'
<1>1. worker[w].pc = "load" /\ UNCHANGED <<asset, rights, objects, store, results>>
  BY DEF Load
<1>2. CASE Goto(w, "terminal") \/ Goto(w, "cleanup") \/ Goto(w, "success")
  BY <1>1, <1>2, GoesFree DEF Still, Outcomes
<1>3. CASE Due /\ Goto(w, "expire")
  BY <1>1, <1>3, GoesToExpire DEF Still
<1>4. CASE asset.status = "PENDING_RIGHTS" /\ Goto(w, "stat")
  <2>1. \A s \in StageNames : HasPassed(s)
    BY <1>4 DEF Still, AssetInv, ValidatedBeforeUse, Usable, Promoted
  <2>2. ASSUME NEW x, Reaches(w, "stat", x)
        PROVE  WorkerInv(w)'
    BY <2>1, <2>2, <1>1, RowsUntouched DEF Still, Reaches, WorkerInv, StagesInOrder, SeenGone, CopyKept, Forward
  <2> QED
    BY <2>2, <1>1, <1>4, GoesOn DEF Still, Points
<1>5. CASE Goto(w, "begin")
  <2>1. worker[w].attempt > 0 /\ worker[w].stage = 1
    BY <1>1 DEF Still, AssetInv, WorkerInv, StagesInOrder
  <2>2. ASSUME NEW x, Reaches(w, "begin", x)
        PROVE  WorkerInv(w)'
    BY <2>1, <2>2, <1>1 DEF Reaches, WorkerInv, StagesInOrder, SeenGone, CopyKept, Outcomes, Forgetful
  <2> QED
    BY <2>2, <1>1, <1>5, GoesOn DEF Still, Points
<1> QED
  BY <1>2, <1>3, <1>4, <1>5 DEF Load

LEMMA BeginValidationKeeps ==
  ASSUME NEW w \in Workers, Still(w), BeginValidation(w)
  PROVE  AssetInv'
<1>1. worker[w].pc = "begin" /\ UNCHANGED <<rights, objects, store, results>>
  BY DEF BeginValidation
<1>2. CASE Goto(w, "terminal") /\ UNCHANGED asset
  BY <1>1, <1>2, GoesFree DEF Still, Outcomes
<1>3. CASE /\ asset.status \in {"QUARANTINED", "FAILED", "VALIDATING", "PENDING_RIGHTS", "PENDING_REVIEW"}
           /\ asset' = StartValidation(asset)
           /\ worker' = [worker EXCEPT ![w].pc = IF Due THEN "expire" ELSE "download",
                             ![w].seen = [s \in StageNames |-> Selected(worker[w].attempt, s)]]
  <2> DEFINE seen == [s \in StageNames |-> Selected(worker[w].attempt, s)]
             pc == IF Due THEN "expire" ELSE "download"
  <2>1. worker \in [Workers -> WorkerState] /\ worker[w] \in WorkerState /\ worker[w].attempt \in 1..MaxAttempts
        /\ worker[w].stage = 1
    <3>1. worker[w].attempt \in 0..MaxAttempts /\ worker[w].attempt > 0
      BY <1>1 DEF Still, AssetInv, TypeOK, WorkerInv, StagesInOrder, WorkerState
    <3>2. worker[w].attempt \in 1..MaxAttempts
      BY <3>1, AssetAssumption DEF AssetAssumption
    <3> QED
      BY <3>2, <1>1 DEF Still, AssetInv, TypeOK, WorkerInv, StagesInOrder
  <2>2. results[worker[w].attempt] \in [StageNames -> Verdict]
    BY <2>1 DEF Still, AssetInv, TypeOK, ValidationResults
  <2>3. \A s \in StageNames : results[worker[w].attempt][s] \in Verdict
    BY <2>2
  <2>4. \A s \in StageNames : ~ (\A k \in 1..(worker[w].attempt - 1) : results[k][s] # "PASS") => HasPassed(s) /\ "PASS" \in Verdict
    <3>1. SUFFICES ASSUME NEW s \in StageNames, NEW k \in 1..(worker[w].attempt - 1), results[k][s] = "PASS"
                   PROVE  HasPassed(s) /\ "PASS" \in Verdict
      OBVIOUS
    <3>2. k \in 1..MaxAttempts
      BY <2>1, AssetAssumption DEF AssetAssumption
    <3>3. results[k] \in [StageNames -> Verdict]
      BY <3>2 DEF Still, AssetInv, TypeOK, ValidationResults
    <3> QED
      BY <3>1, <3>2, <3>3 DEF HasPassed
  <2>5. \A s \in StageNames : /\ seen[s] \in Verdict
                              /\ seen[s] = "PASS" => HasPassed(s)
    BY <2>1, <2>3, <2>4 DEF Selected, HasPassed
  <2>6. seen \in [StageNames -> Verdict]
    BY <2>5
  <2> HIDE DEF seen
  <2>7. PICK x \in WorkerState : x = [worker[w] EXCEPT !.pc = pc, !.seen = seen]
    BY <2>1, <2>6 DEF WorkerState, Points
  <2>8. worker' = [worker EXCEPT ![w] = x]
    BY <2>7, <1>3, <2>1 DEF seen
  <2>9. worker'[w] = x /\ x.pc = pc /\ x.seen = seen /\ x.attempt = worker[w].attempt /\ x.stage = 1
    BY <2>7, <2>8, <2>1 DEF WorkerState
  <2>10. \A s \in StageNames : HasPassed(s)' <=> HasPassed(s)
    BY <1>1 DEF HasPassed
  <2>11. asset' \in AssetRow /\ asset'.class = asset.class /\ asset'.reason = asset.reason /\ asset'.deletion = asset.deletion
         /\ asset'.status \in {"VALIDATING", "PENDING_RIGHTS", "PENDING_REVIEW"}
         /\ (asset'.status = "PENDING_RIGHTS" => asset.status = "PENDING_RIGHTS")
    BY <1>3 DEF Still, AssetInv, TypeOK, AssetRow, StartValidation, Status
  <2>12. WorkerInv(w)'
    <3>1. StagesInOrder(w)'
      BY <2>1, <2>5, <2>9, <2>10 DEF StagesInOrder
    <3>2. SeenGone(w)' /\ CopyKept(w)'
      BY <2>9, <2>11 DEF SeenGone, CopyKept, Due, Still
    <3> QED
      BY <3>1, <3>2 DEF WorkerInv
  <2>13. Forward
    BY <2>10, <2>11, <1>1 DEF Forward, Due, Still
  <2>14. RowsTyped'
    <3>1. AssetTable'
      BY <1>3, <2>11 DEF AssetTable, Still, AssetInv, TypeOK
    <3> QED
      BY <3>1, <2>11, <1>1 DEF RowsTyped, Still, AssetInv, TypeOK
  <2>15. Facts'
    <3>1. Promoted' <=> Promoted
      BY <2>10, <1>1 DEF Promoted
    <3>2. Usable' => Usable
      BY <2>11 DEF Usable, RightsBlocked
    <3>3. RightsFollowPromotion'
      BY <3>1, <1>1, <1>3, <2>11 DEF RightsFollowPromotion, Still, AssetInv
    <3> QED
      BY <3>1, <3>2, <3>3, <2>11, <1>1 DEF Facts, Still, AssetInv, VersionsIssued, RowsFollowStore, TargetsMarked,
         ValidatedBeforeUse, ControlledContentKept, DeletedHasNoObjects
  <2> QED
    BY <2>8, <2>12, <2>13, <2>14, <2>15, ExecutorStep DEF Still
<1> QED
  BY <1>2, <1>3 DEF BeginValidation

LEMMA DownloadKeeps ==
  ASSUME NEW w \in Workers, Still(w), Download(w)
  PROVE  AssetInv'
<1>1. worker[w].pc = "download" /\ UNCHANGED <<asset, rights, objects, store, results>>
  BY DEF Download
<1>2. CASE Goto(w, "terminal") \/ Goto(w, "retry")
  BY <1>1, <1>2, GoesFree DEF Still, Outcomes
<1>3. CASE Goto(w, "stage")
  <2>1. ASSUME NEW x, Reaches(w, "stage", x)
        PROVE  WorkerInv(w)'
    <3>1. StagesInOrder(w)
      BY DEF Still, AssetInv, WorkerInv
    <3>2. \A s \in StageNames : HasPassed(s)' <=> HasPassed(s)
      BY <1>1 DEF HasPassed
    <3>3. StagesInOrder(w)'
      BY <3>1, <3>2, <2>1, <1>1 DEF Reaches, StagesInOrder, Outcomes, Forgetful
    <3> QED
      BY <3>3, <2>1 DEF Reaches, WorkerInv, SeenGone, CopyKept
  <2> QED
    BY <2>1, <1>1, <1>3, GoesOn DEF Still, Points
<1> QED
  BY <1>1, <1>2, <1>3 DEF Download

\* A worker that has the verdict of its stage, recorded or remembered, goes on as
\* the verdict demands.
LEMMA Advances ==
  ASSUME NEW w \in Workers, Still(w), worker[w].pc = "stage",
         NEW v \in Verdict5, v \in Verdict,
         NEW s \in StageNames, s = Stages[worker[w].stage], Advance(w, s, v),
         \A t \in StageNames : HasPassed(t) => HasPassed(t)',
         v = "PASS" => HasPassed(s)'
  PROVE  \E x \in WorkerState : worker' = [worker EXCEPT ![w] = x] /\ WorkerInv(w)'
<1>1. /\ worker \in [Workers -> WorkerState] /\ worker[w] \in WorkerState
      /\ worker[w].attempt > 0 /\ worker[w].seen \in [StageNames -> Verdict]
      /\ worker[w].stage \in 1..Len(Stages)
      /\ \A t \in StageNames : worker[w].seen[t] = "PASS" => HasPassed(t)
      /\ \A i \in 1..(worker[w].stage - 1) : worker[w].seen[Stages[i]] \in {"PASS", "REVIEW"}
  BY StageTypes DEF Still, AssetInv, TypeOK, WorkerState, WorkerInv, StagesInOrder
<1>2. CASE Enforced(w, s, v) = "stage"
  <2>1. PICK x : x = [worker[w] EXCEPT !.seen[s] = v, !.stage = @ + 1]
    OBVIOUS
  <2>2. worker' = [worker EXCEPT ![w] = x]
    BY <2>1, <1>1, <1>2 DEF Advance
  <2>3. v \in {"PASS", "REVIEW"} /\ worker[w].stage < Len(Stages)
    BY <1>2 DEF Enforced, Verdict5
  <2>4. worker[w].stage + 1 \in DOMAIN Stages
    BY <1>1, <2>3, StageTypes
  <2>5. [worker[w].seen EXCEPT ![s] = v] \in [StageNames -> Verdict]
    BY <1>1
  <2>6. x \in WorkerState /\ x.pc = "stage" /\ x.attempt = worker[w].attempt
        /\ x.seen = [worker[w].seen EXCEPT ![s] = v] /\ x.stage = worker[w].stage + 1
    BY <2>1, <2>4, <2>5, <1>1 DEF WorkerState
  <2>7. worker'[w] = x
    BY <1>1, <2>2
  <2>8. \A t \in StageNames : x.seen[t] = "PASS" => HasPassed(t)'
    BY <1>1, <2>6
  <2>9. ASSUME NEW i \in 1..(x.stage - 1)
        PROVE  x.seen[Stages[i]] \in {"PASS", "REVIEW"}
    <3>1. i \in DOMAIN Stages /\ Stages[i] \in StageNames
      BY <2>6, <1>1, StageTypes
    <3>2. CASE Stages[i] = s
      BY <3>1, <3>2, <2>3, <2>6, <1>1
    <3>3. CASE Stages[i] # s
      <4>1. i \in 1..(worker[w].stage - 1)
        BY <3>3, <2>6, <1>1
      <4> QED
        BY <4>1, <3>1, <3>3, <2>6, <1>1
    <3> QED
      BY <3>2, <3>3
  <2>10. WorkerInv(w)'
    BY <2>6, <2>7, <2>8, <2>9, <1>1 DEF WorkerInv, StagesInOrder, SeenGone, CopyKept
  <2> QED
    BY <2>2, <2>6, <2>10
<1>3. CASE Enforced(w, s, v) # "stage"
  <2> DEFINE next == Enforced(w, s, v)
  <2>1. next \in {"reject", "retry", "terminal", "review", "stat"}
    BY <1>3 DEF Enforced
  <2>2. worker' = [worker EXCEPT ![w] = [Idle EXCEPT !.pc = next]]
    BY <1>3 DEF Advance
  <2> HIDE DEF next
  <2>3. PICK x \in WorkerState : x = [Idle EXCEPT !.pc = next]
    BY <2>1, StageTypes DEF WorkerState, Points, Outcomes
  <2>6. worker' = [worker EXCEPT ![w] = x] /\ worker'[w].pc = next
    BY <2>2, <2>3, <1>1, StageTypes DEF WorkerState
  <2>4. CASE next # "stat"
    BY <2>1, <2>4, <2>6, FreePoint DEF Outcomes
  <2>5. CASE next = "stat"
    <3>1. v = "PASS" /\ worker[w].stage = Len(Stages) /\ "REVIEW" \notin Range(worker[w].seen)
      BY <2>5, <1>1 DEF Enforced, Verdict5, next
    <3>2. \A t \in StageNames : worker[w].seen[t] # "REVIEW"
      BY <3>1, <1>1 DEF Range
    <3>3. ASSUME NEW t \in StageNames
          PROVE  HasPassed(t)'
      <4>1. PICK i \in 1..Len(Stages) : Stages[i] = t
        BY StageTypes DEF StageNames
      <4>2. CASE t = s
        BY <4>2, <3>1
      <4>3. CASE t # s
        <5>1. i \in 1..(worker[w].stage - 1)
          BY <4>1, <4>3, <3>1, <1>1
        <5> QED
          BY <5>1, <4>1, <3>2, <1>1
      <4> QED
        BY <4>2, <4>3
    <3> QED
      BY <2>5, <2>6, <3>3 DEF WorkerInv, StagesInOrder, SeenGone, CopyKept
  <2> QED
    BY <2>4, <2>5, <2>6
<1> QED
  BY <1>2, <1>3

LEMMA ReuseResultKeeps ==
  ASSUME NEW w \in Workers, Still(w), ReuseResult(w)
  PROVE  AssetInv'
<1>1. PICK s : s = Stages[worker[w].stage]
  OBVIOUS
<1>2. PICK v : v = worker[w].seen[s]
  OBVIOUS
<1>3. worker[w].pc = "stage" /\ v # "NONE" /\ Advance(w, s, v)
      /\ UNCHANGED <<asset, rights, objects, store, results>>
  BY <1>1, <1>2 DEF ReuseResult
<1>4. worker[w].stage \in DOMAIN Stages /\ worker[w].seen \in [StageNames -> Verdict]
  BY DEF Still, AssetInv, TypeOK, WorkerState
<1>5. s \in StageNames /\ v \in Verdict /\ v \in Verdict5
  BY <1>1, <1>2, <1>3, <1>4, StageTypes
<1>6. v = "PASS" => HasPassed(s)
  BY <1>2, <1>3, <1>5 DEF Still, AssetInv, WorkerInv, StagesInOrder
<1>7. \A t \in StageNames : HasPassed(t)' <=> HasPassed(t)
  BY <1>3 DEF HasPassed
<1>8. PICK x \in WorkerState : worker' = [worker EXCEPT ![w] = x] /\ WorkerInv(w)'
  BY <1>1, <1>3, <1>5, <1>6, <1>7, Advances
<1>9. Forward /\ Facts' /\ RowsTyped'
  BY <1>3, RowsUntouched DEF Still
<1> QED
  BY <1>8, <1>9, ExecutorStep DEF Still

LEMMA RunStageKeeps ==
  ASSUME NEW w \in Workers, Still(w), RunStage(w)
  PROVE  AssetInv'
<1>1. PICK s : s = Stages[worker[w].stage]
  OBVIOUS
<1>2. PICK n : n = worker[w].attempt
  OBVIOUS
<1>3. worker[w].pc = "stage"
  BY DEF RunStage
<1>4. worker[w].stage \in DOMAIN Stages /\ s \in StageNames /\ n \in 1..MaxAttempts
  <2>1. worker[w].stage \in DOMAIN Stages /\ n \in 0..MaxAttempts
    BY <1>2 DEF Still, AssetInv, TypeOK, WorkerState
  <2>2. n > 0
    BY <1>2, <1>3 DEF Still, AssetInv, WorkerInv, StagesInOrder
  <2>3. n \in 1..MaxAttempts
    BY <2>1, <2>2, AssetAssumption DEF AssetAssumption
  <2> QED
    BY <2>1, <2>3, <1>1, StageTypes
<1>5. CASE Due /\ Goto(w, "expire") /\ UNCHANGED <<asset, rights, objects, store, results>>
  BY <1>5, GoesToExpire DEF Still
<1>6. CASE (Goto(w, "retry") \/ Goto(w, "terminal")) /\ UNCHANGED <<asset, rights, objects, store, results>>
  BY <1>6, GoesFree DEF Still, Outcomes
<1>7. ASSUME NEW v \in Verdicts(s), AppendResult(n, s, v), Advance(w, s, results'[n][s]),
             UNCHANGED <<asset, rights, objects, store>>
      PROVE  AssetInv'
  <2>1. /\ results' \in [1..MaxAttempts -> ValidationResults]
        /\ \A t \in StageNames : HasPassed(t) => HasPassed(t)'
        /\ results'[n][s] \in Verdicts(s)
        /\ results'[n][s] = "PASS" => HasPassed(s)'
    BY <1>4, <1>7, ResultAppended DEF Still, AssetInv, TypeOK
  <2>2. PICK kept : kept = results'[n][s]
    OBVIOUS
  <2>3. kept \in Verdict5 /\ kept \in Verdict
    BY <2>1, <2>2, <1>4, VerdictKinds, StageTypes
  <2>4. PICK x \in WorkerState : worker' = [worker EXCEPT ![w] = x] /\ WorkerInv(w)'
    BY <1>1, <1>3, <1>4, <1>7, <2>1, <2>2, <2>3, Advances
  <2>5. Forward
    BY <2>1, <1>7 DEF Forward, Due, Still
  <2>6. RowsTyped'
    BY <2>1, <1>7 DEF RowsTyped, AssetTable, Still, AssetInv, TypeOK
  <2>7. Promoted => Promoted'
    BY <2>1, <1>7 DEF Promoted
  <2>8. Usable' <=> Usable
    BY <1>7 DEF Usable, RightsBlocked
  <2>9. Facts'
    BY <2>7, <2>8, <1>7 DEF Facts, Still, AssetInv, VersionsIssued, RowsFollowStore, TargetsMarked, RightsFollowPromotion,
       ValidatedBeforeUse, ControlledContentKept, DeletedHasNoObjects
  <2> QED
    BY <2>4, <2>5, <2>6, <2>9, ExecutorStep DEF Still
<1> QED
  BY <1>1, <1>2, <1>5, <1>6, <1>7 DEF RunStage, Guarded, ReferenceRefused

LEMMA MarkPendingReviewKeeps ==
  ASSUME NEW w \in Workers, Still(w), MarkPendingReview(w)
  PROVE  AssetInv'
<1>1. worker[w].pc = "review"
  BY DEF MarkPendingReview
<1>2. CASE Due /\ Goto(w, "expire") /\ UNCHANGED <<asset, rights, objects, store, results>>
  BY <1>2, GoesToExpire DEF Still
<1>3. ASSUME asset' = [asset EXCEPT !.status = IF @ = "VALIDATING" THEN "PENDING_REVIEW" ELSE @],
             NEW pc \in {"success", "terminal"}, Goto(w, pc), UNCHANGED <<rights, objects, store, results>>
      PROVE  AssetInv'
  <2>1. PICK x : Reaches(w, pc, x)
    BY <1>3, GotoReaches DEF Still, AssetInv, Points, Outcomes
  <2>2. WorkerInv(w)'
    BY <2>1, <1>3, FreePoint DEF Reaches, Outcomes
  <2>3. /\ asset' \in AssetRow /\ asset'.class = asset.class /\ asset'.reason = asset.reason
        /\ asset'.deletion = asset.deletion
        /\ asset'.status # asset.status => asset.status = "VALIDATING" /\ asset'.status = "PENDING_REVIEW"
    BY <1>3 DEF Still, AssetInv, TypeOK, AssetRow, Status
  <2>4. (\A t \in StageNames : HasPassed(t)' <=> HasPassed(t)) /\ (Promoted' <=> Promoted)
    BY <1>3 DEF HasPassed, Promoted
  <2>5. Forward
    BY <2>3, <2>4, <1>3 DEF Forward, Due, Still
  <2>6. RowsTyped'
    BY <2>3, <1>3 DEF RowsTyped, AssetTable, Still, AssetInv, TypeOK
  <2>7. Usable' => Usable
    BY <2>3 DEF Usable, RightsBlocked
  <2>8. Facts'
    BY <2>3, <2>4, <2>7, <1>3 DEF Facts, Still, AssetInv, VersionsIssued, RowsFollowStore, TargetsMarked, RightsFollowPromotion,
       ValidatedBeforeUse, ControlledContentKept, DeletedHasNoObjects
  <2> QED
    BY <2>1, <2>2, <2>5, <2>6, <2>8, ExecutorStep DEF Still, Reaches
<1> QED
  BY <1>2, <1>3 DEF MarkPendingReview, Guarded

LEMMA RejectKeeps ==
  ASSUME NEW w \in Workers, Still(w), Reject(w)
  PROVE  AssetInv'
<1>1. UNCHANGED <<rights, store, results>>
  BY DEF Reject
<1>2. CASE Goto(w, "uncertain") /\ UNCHANGED rowVars
  BY <1>1, <1>2, GoesFree DEF Still, Outcomes, rowVars
<1>3. CASE /\ asset.status \in Blockable \cup {"BLOCKED"}
           /\ asset' = IF asset.status = "BLOCKED" THEN asset ELSE Block(asset, "CONTENT")
           /\ objects' = [objects EXCEPT !.source = IF @ = "QUARANTINED" THEN "DELETE_PENDING" ELSE @]
           /\ Goto(w, "cleanup")
  <2>1. PICK x : Reaches(w, "cleanup", x)
    BY <1>3, GotoReaches DEF Still, AssetInv, Points
  <2>2. WorkerInv(w)'
    BY <2>1, FreePoint DEF Reaches
  <2>3. /\ asset' \in AssetRow /\ asset'.class = asset.class /\ asset'.deletion = asset.deletion
        /\ asset'.status = "BLOCKED" /\ asset'.reason # None
        /\ asset'.reason \in RightsBlockReasons => asset' = asset
    BY <1>3, AssetAssumption
       DEF Still, AssetInv, TypeOK, AssetTable, AssetRow, Status, Block, Reasons, RightsBlockReasons, AssetAssumption
  <2>4. /\ objects' \in ObjectRows /\ objects'.controlled = objects.controlled /\ objects'.version = objects.version
        /\ objects'.source = "DELETED" <=> objects.source = "DELETED"
    BY <1>3 DEF Still, AssetInv, TypeOK, ObjectRows
  <2>5. (\A t \in StageNames : HasPassed(t)' <=> HasPassed(t)) /\ (Promoted' <=> Promoted)
    BY <1>1, <2>4 DEF HasPassed, Promoted
  <2>6. Forward
    BY <2>3, <2>4, <2>5, <1>1 DEF Forward, Due, Still
  <2>7. RowsTyped'
    BY <2>3, <2>4, <1>1 DEF RowsTyped, AssetTable, Still, AssetInv, TypeOK
  <2>8. Usable' => Usable
    BY <2>3 DEF Usable, RightsBlocked
  <2>9. Facts'
    BY <2>3, <2>4, <2>5, <2>8, <1>1 DEF Facts, Still, AssetInv, VersionsIssued, RowsFollowStore, TargetsMarked, RightsFollowPromotion,
       ValidatedBeforeUse, ControlledContentKept, DeletedHasNoObjects
  <2> QED
    BY <2>1, <2>2, <2>6, <2>7, <2>9, ExecutorStep DEF Still, Reaches
<1> QED
  BY <1>2, <1>3 DEF Reject

\* A conditional deletion takes the validated upload away, and nothing else but the source.
LEMMA SourceDeleted ==
  ASSUME store \in ObjectStore, NEW source \in AfterDelete, store' = [store EXCEPT !.source = source]
  PROVE  /\ store' \in ObjectStore /\ store'.source # "upload"
         /\ store'.dest = store.dest /\ store'.fresh = store.fresh
<1>1. source \in {"none", "late"}
  BY DEF AfterDelete, ObjectStore
<1> QED
  BY <1>1 DEF ObjectStore

LEMMA CleanupRejectedKeeps ==
  ASSUME NEW w \in Workers, Still(w), CleanupRejected(w)
  PROVE  AssetInv'
<1>1. UNCHANGED <<asset, rights, results>>
  BY DEF CleanupRejected
<1>2. CASE Goto(w, "retry") /\ UNCHANGED <<store, objects>>
  BY <1>1, <1>2, GoesFree DEF Still, Outcomes
<1>3. CASE /\ \E source \in AfterDelete : store' = [store EXCEPT !.source = source]
           /\ objects' = [objects EXCEPT !.source = "DELETED"]
           /\ Goto(w, "terminal")
  <2>1. PICK x : Reaches(w, "terminal", x)
    BY <1>3, GotoReaches DEF Still, AssetInv, Points, Outcomes
  <2>2. WorkerInv(w)'
    BY <2>1, FreePoint DEF Reaches, Outcomes
  <2>3. /\ objects' \in ObjectRows /\ objects'.controlled = objects.controlled /\ objects'.version = objects.version
        /\ objects'.source = "DELETED"
    BY <1>3 DEF Still, AssetInv, TypeOK, ObjectRows
  <2>4. store' \in ObjectStore /\ store'.source # "upload" /\ store'.dest = store.dest /\ store'.fresh = store.fresh
    BY <1>3, SourceDeleted DEF Still, AssetInv, TypeOK
  <2>5. (\A t \in StageNames : HasPassed(t)' <=> HasPassed(t)) /\ (Promoted => Promoted')
    BY <1>1, <2>3 DEF HasPassed, Promoted
  <2>6. Forward
    BY <2>3, <2>4, <2>5, <1>1 DEF Forward, Due, Still
  <2>7. RowsTyped'
    BY <2>3, <2>4, <1>1 DEF RowsTyped, AssetTable, Still, AssetInv, TypeOK
  <2>8. Usable' => Usable
    BY <1>1 DEF Usable, RightsBlocked
  <2>9. Facts'
    BY <2>3, <2>4, <2>5, <2>8, <1>1 DEF Facts, Still, AssetInv, VersionsIssued, RowsFollowStore, TargetsMarked, RightsFollowPromotion,
       ValidatedBeforeUse, ControlledContentKept, DeletedHasNoObjects
  <2> QED
    BY <2>1, <2>2, <2>6, <2>7, <2>9, ExecutorStep DEF Still, Reaches
<1> QED
  BY <1>2, <1>3 DEF CleanupRejected

LEMMA StatDestinationKeeps ==
  ASSUME NEW w \in Workers, Still(w), StatDestination(w)
  PROVE  AssetInv'
<1>1. worker[w].pc = "stat" /\ UNCHANGED <<asset, rights, objects, store, results>>
  BY DEF StatDestination, Guarded
<1>2. worker \in [Workers -> WorkerState] /\ worker[w] \in WorkerState /\ \A s \in StageNames : HasPassed(s)
  BY <1>1 DEF Still, AssetInv, TypeOK, WorkerInv, StagesInOrder
<1>3. Forward /\ Facts' /\ RowsTyped'
  BY <1>1, RowsUntouched DEF Still
<1>4. \A s \in StageNames : HasPassed(s)'
  BY <1>2, <1>3 DEF Forward
<1>5. CASE Due /\ Goto(w, "expire")
  BY <1>1, <1>5, GoesToExpire DEF Still
<1>6. CASE Goto(w, "retry")
  BY <1>1, <1>6, GoesFree DEF Still, Outcomes
<1>7. CASE Goto(w, "copy")
  <2>1. ASSUME NEW x, Reaches(w, "copy", x)
        PROVE  WorkerInv(w)'
    BY <2>1, <1>4 DEF Reaches, WorkerInv, StagesInOrder, SeenGone, CopyKept
  <2> QED
    BY <2>1, <1>1, <1>7, GoesOn DEF Still, Points
<1>8. ASSUME NEW v \in store.dest, worker' = [worker EXCEPT ![w].pc = "delete", ![w].version = v]
      PROVE  AssetInv'
  <2>1. v \in Versions
    BY DEF Still, AssetInv, TypeOK, ObjectStore
  <2>2. PICK x \in WorkerState : x = [worker[w] EXCEPT !.pc = "delete", !.version = v]
    BY <1>2, <2>1 DEF WorkerState, Points
  <2>3. worker' = [worker EXCEPT ![w] = x] /\ worker'[w] = x /\ x.pc = "delete" /\ x.version = v
    BY <1>8, <1>2, <2>2 DEF WorkerState
  <2>4. WorkerInv(w)'
    BY <2>3, <1>1, <1>4 DEF WorkerInv, StagesInOrder, SeenGone, CopyKept
  <2> QED
    BY <2>3, <2>4, <1>3, ExecutorStep DEF Still
<1> QED
  BY <1>5, <1>6, <1>7, <1>8 DEF StatDestination, Guarded

LEMMA CopyIfAbsentKeeps ==
  ASSUME NEW w \in Workers, Still(w), CopyIfAbsent(w)
  PROVE  AssetInv'
<1>1. worker[w].pc = "copy" /\ UNCHANGED <<asset, rights, objects, results>>
  BY DEF CopyIfAbsent
<1>2. CASE Goto(w, "reject") /\ UNCHANGED store
  BY <1>1, <1>2, GoesFree DEF Still
<1>3. ASSUME NEW v \in store.dest \cup store.fresh,
             store' = [store EXCEPT !.dest = @ \cup {v}, !.fresh = @ \ {v}],
             worker' = [worker EXCEPT ![w].pc = "delete", ![w].version = v]
      PROVE  AssetInv'
  <2>1. worker \in [Workers -> WorkerState] /\ worker[w] \in WorkerState /\ v \in Versions
    BY <1>3 DEF Still, AssetInv, TypeOK, ObjectStore
  <2>2. PICK x \in WorkerState : x = [worker[w] EXCEPT !.pc = "delete", !.version = v]
    BY <2>1 DEF WorkerState, Points
  <2>3. worker' = [worker EXCEPT ![w] = x] /\ worker'[w] = x /\ x.pc = "delete" /\ x.version = v
    BY <1>3, <2>1, <2>2 DEF WorkerState
  <2>4. /\ store' \in ObjectStore /\ store'.source = store.source
        /\ store'.dest = store.dest \cup {v} /\ store'.fresh = store.fresh \ {v}
    BY <1>3, <2>1 DEF Still, AssetInv, TypeOK, ObjectStore
  <2>5. (\A s \in StageNames : HasPassed(s)' <=> HasPassed(s)) /\ (Promoted' <=> Promoted) /\ (Usable' <=> Usable)
    BY <1>1 DEF HasPassed, Promoted, Usable, RightsBlocked
  <2>6. \A s \in StageNames : HasPassed(s)
    BY <1>1 DEF Still, AssetInv, WorkerInv, StagesInOrder
  <2>7. WorkerInv(w)'
    BY <2>3, <2>4, <2>5, <2>6 DEF WorkerInv, StagesInOrder, SeenGone, CopyKept
  <2>11. objects.version \notin store.dest => objects.version \notin store'.dest
    BY <1>3, <2>4 DEF Still, AssetInv, VersionsIssued
  <2>8. Forward
    BY <2>4, <2>5, <2>11, <1>1 DEF Forward, Due, Still
  <2>9. RowsTyped'
    BY <2>4, <1>1 DEF RowsTyped, AssetTable, Still, AssetInv, TypeOK
  <2>10. Facts'
    BY <2>4, <2>5, <2>11, <1>1 DEF Facts, Still, AssetInv, VersionsIssued, RowsFollowStore, TargetsMarked, RightsFollowPromotion,
       ValidatedBeforeUse, ControlledContentKept, DeletedHasNoObjects
  <2> QED
    BY <2>3, <2>7, <2>8, <2>9, <2>10, ExecutorStep DEF Still
<1> QED
  BY <1>2, <1>3 DEF CopyIfAbsent

LEMMA DeleteSourceKeeps ==
  ASSUME NEW w \in Workers, Still(w), DeleteSource(w)
  PROVE  AssetInv'
<1>1. /\ worker[w].pc = "delete" /\ Goto(w, "persist") /\ UNCHANGED <<asset, rights, objects, results>>
      /\ \E source \in AfterDelete : store' = [store EXCEPT !.source = source]
  BY DEF DeleteSource
<1>2. PICK x : Reaches(w, "persist", x)
  BY <1>1, GotoReaches DEF Still, AssetInv, Points
<1>3. store' \in ObjectStore /\ store'.source # "upload" /\ store'.dest = store.dest /\ store'.fresh = store.fresh
  BY <1>1, SourceDeleted DEF Still, AssetInv, TypeOK
<1>4. (\A s \in StageNames : HasPassed(s)' <=> HasPassed(s)) /\ (Promoted' <=> Promoted) /\ (Usable' <=> Usable)
  BY <1>1 DEF HasPassed, Promoted, Usable, RightsBlocked
<1>5. Due' <=> Due
  BY <1>1 DEF Still, Due
<1>6. x.version = worker[w].version
  BY <1>2 DEF Reaches, Outcomes, Forgetful
<1>7. WorkerInv(w)'
  <2>1. WorkerInv(w)
    BY DEF Still, AssetInv
  <2> QED
    BY <2>1, <1>1, <1>2, <1>3, <1>4, <1>5, <1>6 DEF Reaches, WorkerInv, StagesInOrder, SeenGone, CopyKept
<1>8. Forward
  BY <1>3, <1>4, <1>5, <1>1 DEF Forward
<1>9. RowsTyped'
  BY <1>1, <1>3 DEF RowsTyped, AssetTable, Still, AssetInv, TypeOK
<1>10. Facts'
  BY <1>1, <1>3, <1>4 DEF Facts, Still, AssetInv, VersionsIssued, RowsFollowStore, TargetsMarked, RightsFollowPromotion,
     ValidatedBeforeUse, ControlledContentKept, DeletedHasNoObjects
<1> QED
  BY <1>2, <1>7, <1>8, <1>9, <1>10, ExecutorStep DEF Still, Reaches

\* The promotion is recorded: what the worker copied is still there, what it deleted is gone.
LEMMA PersistVerifiedKeeps ==
  ASSUME NEW w \in Workers, Still(w), PersistVerified(w)
  PROVE  AssetInv'
<1>1. worker[w].pc = "persist" /\ WorkerInv(w)
  BY DEF PersistVerified, Still, AssetInv
<1>2. CASE Due /\ Goto(w, "expire") /\ UNCHANGED <<asset, rights, objects, store, results>>
  BY <1>2, GoesToExpire DEF Still
<1>3. CASE /\ ~Due /\ asset.status = "VALIDATING" /\ objects.controlled = "NONE"
           /\ objects' = [source |-> "DELETED", controlled |-> "CONTROLLED", version |-> worker[w].version]
           /\ asset' = [asset EXCEPT !.status = "PENDING_RIGHTS"]
           /\ Goto(w, "success")
           /\ UNCHANGED <<rights, store, results>>
  <2>1. PICK x : Reaches(w, "success", x)
    BY <1>3, GotoReaches DEF Still, AssetInv, Points, Outcomes
  <2>2. WorkerInv(w)'
    BY <2>1, FreePoint DEF Reaches, Outcomes
  <2>3. store.source # "upload" /\ worker[w].version \in store.dest /\ \A s \in StageNames : HasPassed(s)
    BY <1>1, <1>3 DEF WorkerInv, StagesInOrder, SeenGone, CopyKept
  <2>4. worker[w].version \in Versions /\ worker[w].version \notin store.fresh
    BY <2>3 DEF Still, AssetInv, TypeOK, ObjectStore, VersionsIssued
  <2>5. /\ objects' \in ObjectRows /\ objects'.source = "DELETED" /\ objects'.controlled = "CONTROLLED"
        /\ objects'.version = worker[w].version
    BY <1>3, <2>4 DEF ObjectRows
  <2>6. /\ asset' \in AssetRow /\ asset'.class = asset.class /\ asset'.reason = asset.reason
        /\ asset'.deletion = asset.deletion /\ asset'.status = "PENDING_RIGHTS"
    BY <1>3 DEF Still, AssetInv, TypeOK, AssetRow, Status
  <2>7. (\A t \in StageNames : HasPassed(t)' <=> HasPassed(t)) /\ Promoted'
    BY <1>3, <2>3, <2>5 DEF HasPassed, Promoted
  <2>8. Forward
    BY <2>5, <2>6, <2>7, <1>3 DEF Forward, Due, Still
  <2>9. RowsTyped'
    BY <1>3, <2>5, <2>6 DEF RowsTyped, AssetTable, Still, AssetInv, TypeOK
  <2>10. TargetsMarked'
    BY <1>3, <2>5 DEF TargetsMarked, Still, AssetInv
  <2>12. cleanup.pc # "idle" => "controlled" \notin cleanup.targets
    BY <1>3 DEF TargetsMarked, Still, AssetInv
  <2>13. VersionsIssued' /\ RowsFollowStore'
    BY <1>3, <2>3, <2>4, <2>5, <2>12 DEF VersionsIssued, RowsFollowStore, Still, AssetInv
  <2>11. Facts'
    BY <1>3, <2>3, <2>4, <2>5, <2>6, <2>7, <2>10, <2>13 DEF Facts, Still, AssetInv, RightsFollowPromotion,
       ValidatedBeforeUse, ControlledContentKept, DeletedHasNoObjects
  <2> QED
    BY <2>1, <2>2, <2>8, <2>9, <2>11, ExecutorStep DEF Still, Reaches
<1>4. CASE (Goto(w, "terminal") \/ Goto(w, "reject") \/ Goto(w, "success"))
           /\ UNCHANGED <<asset, rights, objects, store, results>>
  BY <1>4, GoesFree DEF Still, Outcomes
<1>5. CASE ConcurrentVersion(w) /\ Goto(w, "reconcile") /\ UNCHANGED <<asset, rights, objects, store, results>>
  <2>1. \A s \in StageNames : HasPassed(s)
    BY <1>1 DEF WorkerInv, StagesInOrder
  <2>2. \A s \in StageNames : HasPassed(s)'
    BY <1>5, <2>1 DEF HasPassed
  <2>3. store.source # "upload"
    BY <1>1 DEF WorkerInv, SeenGone
  <2>4. ASSUME NEW x, Reaches(w, "reconcile", x)
        PROVE  WorkerInv(w)'
    BY <1>5, <2>2, <2>3, <2>4 DEF ConcurrentVersion, Outcomes, Forgetful, Reaches, WorkerInv, StagesInOrder, SeenGone, CopyKept
  <2> QED
    BY <2>4, <1>5, GoesOn DEF Still, Points
<1> QED
  <2>1. CASE Due
    BY <2>1, <1>2 DEF PersistVerified, Guarded
  <2>2. CASE ~Due /\ asset.status = "VALIDATING" /\ objects.controlled = "NONE"
    BY <2>2, <1>3 DEF PersistVerified, Guarded
  <2>3. CASE ~Due /\ ~(asset.status = "VALIDATING" /\ objects.controlled = "NONE")
    <3>1. /\ Goto(w, CASE asset.status \in Unusable -> "terminal"
                       [] asset.status \notin Unusable /\ ConcurrentVersion(w) -> "reconcile"
                       [] asset.status \notin Unusable /\ objects.controlled \in {"DELETE_PENDING", "DELETED"} -> "reject"
                       [] asset.status = "PENDING_RIGHTS" /\ ~ConcurrentVersion(w) -> "success"
                       [] OTHER -> "terminal")
          /\ UNCHANGED <<asset, rights, objects, store, results>>
      BY <2>3 DEF PersistVerified, Guarded, rowVars
    <3>2. CASE asset.status \in Unusable
      BY <3>1, <3>2, <1>4
    <3>3. CASE asset.status \notin Unusable /\ ConcurrentVersion(w)
      <4>1. objects.controlled \notin {"DELETE_PENDING", "DELETED"}
        BY <3>3 DEF ConcurrentVersion
      <4> QED
        BY <4>1, <3>1, <3>3, <1>5
    <3>4. CASE asset.status \notin Unusable /\ ~ConcurrentVersion(w)
      BY <3>1, <3>4, <1>4
    <3> QED
      BY <3>2, <3>3, <3>4
  <2> QED
    BY <2>1, <2>2, <2>3

\* The loser of two promotions deletes its own version, which the row does not name.
LEMMA ReconcileDestinationKeeps ==
  ASSUME NEW w \in Workers, Still(w), ReconcileDestination(w)
  PROVE  AssetInv'
<1>1. worker[w].pc = "reconcile" /\ WorkerInv(w) /\ worker \in [Workers -> WorkerState] /\ worker[w] \in WorkerState
  BY DEF ReconcileDestination, Still, AssetInv, TypeOK
<1>2. CASE Due /\ Goto(w, "expire") /\ UNCHANGED <<asset, rights, objects, store, results>>
  BY <1>2, GoesToExpire DEF Still
<1>3. CASE Goto(w, "reject") /\ UNCHANGED <<asset, rights, objects, store, results>>
  BY <1>3, GoesFree DEF Still
<1>4. CASE /\ objects.version \in store.dest
           /\ store' = [store EXCEPT !.dest = @ \ {worker[w].version}]
           /\ worker' = [worker EXCEPT ![w].pc = "persist", ![w].version = objects.version]
           /\ UNCHANGED <<asset, rights, objects, results>>
  <2>1. objects.controlled # "NONE" /\ objects.version # worker[w].version /\ store.source # "upload"
        /\ \A s \in StageNames : HasPassed(s)
    BY <1>1 DEF WorkerInv, StagesInOrder, SeenGone, CopyKept
  <2>2. objects.version \in Versions
    BY <1>4 DEF Still, AssetInv, TypeOK, ObjectStore
  <2>3. PICK x \in WorkerState : x = [worker[w] EXCEPT !.pc = "persist", !.version = objects.version]
    BY <1>1, <2>2 DEF WorkerState, Points
  <2>4. worker' = [worker EXCEPT ![w] = x] /\ worker'[w] = x /\ x.pc = "persist"
    BY <1>1, <1>4, <2>3 DEF WorkerState
  <2>5. /\ store' \in ObjectStore /\ store'.source = store.source
        /\ store'.dest = store.dest \ {worker[w].version} /\ store'.fresh = store.fresh
    BY <1>4 DEF Still, AssetInv, TypeOK, ObjectStore
  <2>6. (\A s \in StageNames : HasPassed(s)' <=> HasPassed(s)) /\ (Promoted' <=> Promoted) /\ (Usable' <=> Usable)
    BY <1>4 DEF HasPassed, Promoted, Usable, RightsBlocked
  <2>7. WorkerInv(w)'
    BY <1>4, <2>1, <2>4, <2>5, <2>6 DEF WorkerInv, StagesInOrder, SeenGone, CopyKept
  <2>8. Forward
    BY <1>4, <2>1, <2>5, <2>6 DEF Forward, Due, Still
  <2>9. RowsTyped'
    BY <1>4, <2>5 DEF RowsTyped, AssetTable, Still, AssetInv, TypeOK
  <2>10. Facts'
    BY <1>4, <2>1, <2>5, <2>6 DEF Facts, Still, AssetInv, VersionsIssued, RowsFollowStore, TargetsMarked, RightsFollowPromotion,
       ValidatedBeforeUse, ControlledContentKept, DeletedHasNoObjects
  <2> QED
    BY <2>4, <2>7, <2>8, <2>9, <2>10, ExecutorStep DEF Still
<1> QED
  BY <1>2, <1>3, <1>4 DEF ReconcileDestination, Guarded

LEMMA MarkCleanupPendingKeeps ==
  ASSUME NEW w \in Workers, Still(w), MarkCleanupPending(w)
  PROVE  AssetInv'
<1>1. /\ worker[w].pc = "expire" /\ WorkerInv(w) /\ asset' = BeginRetentionCleanup(asset)
      /\ objects' = [objects EXCEPT !.source = Pending(@), !.controlled = Pending(@)]
      /\ Goto(w, "discard") /\ UNCHANGED <<rights, store, results>>
  BY DEF MarkCleanupPending, Still, AssetInv
<1>2. PICK x : Reaches(w, "discard", x)
  BY <1>1, GotoReaches DEF Still, AssetInv, Points
<1>3. Due
  BY <1>1 DEF WorkerInv, CopyKept
<1>4. /\ asset' \in AssetRow /\ asset'.class = asset.class /\ asset'.deletion = asset.deletion
      /\ asset'.status \in Unusable /\ asset'.reason = None
      /\ asset'.status = "DELETED" => asset.status = "DELETED"
  BY <1>1 DEF Still, AssetInv, TypeOK, AssetTable, AssetRow, Status, BeginRetentionCleanup, Unusable
<1>5. /\ objects' \in ObjectRows /\ objects'.version = objects.version
      /\ objects'.source = "DELETED" <=> objects.source = "DELETED"
      /\ objects'.controlled # "CONTROLLED"
      /\ objects'.controlled = "NONE" <=> objects.controlled = "NONE"
      /\ objects'.controlled = "DELETED" <=> objects.controlled = "DELETED"
      /\ objects.controlled \in {"NONE", "DELETE_PENDING", "DELETED"} => objects'.controlled = objects.controlled
  BY <1>1 DEF Still, AssetInv, TypeOK, ObjectRows, Pending
<1>6. Due'
  BY <1>3, <1>4 DEF Due, Still
<1>7. \A s \in StageNames : HasPassed(s)' <=> HasPassed(s)
  BY <1>1 DEF HasPassed
<1>8. WorkerInv(w)'
  BY <1>2, <1>5, <1>6 DEF Reaches, WorkerInv, StagesInOrder, SeenGone, CopyKept
<1>9. Forward
  BY <1>1, <1>5, <1>6, <1>7 DEF Forward
<1>10. RowsTyped'
  BY <1>1, <1>4, <1>5 DEF RowsTyped, AssetTable, Still, AssetInv, TypeOK, Unusable
<1>11. ~Usable'
  BY <1>4 DEF Usable, RightsBlocked, Unusable
<1>12. TargetsMarked'
  BY <1>5 DEF TargetsMarked, Still, AssetInv
<1>13. Facts'
  BY <1>1, <1>4, <1>5, <1>11, <1>12 DEF Facts, Still, AssetInv, VersionsIssued, RowsFollowStore, RightsFollowPromotion,
     ValidatedBeforeUse, ControlledContentKept, DeletedHasNoObjects, Unusable
<1> QED
  BY <1>2, <1>8, <1>9, <1>10, <1>13, ExecutorStep DEF Still, Reaches

\* A step of the cleanup in the storage: nothing is created, and the worker goes on.
LEMMA DiscardStep ==
  ASSUME NEW w \in Workers, Still(w), UNCHANGED <<asset, rights, objects, results>>,
         NEW x \in WorkerState, worker' = [worker EXCEPT ![w] = x], WorkerInv(w)',
         Due, objects.controlled # "CONTROLLED",
         store' \in ObjectStore, store'.fresh = store.fresh, store'.dest \subseteq store.dest,
         store'.source = "upload" => store.source = "upload"
  PROVE  AssetInv'
<1>1. (\A s \in StageNames : HasPassed(s)' <=> HasPassed(s)) /\ (Promoted' <=> Promoted) /\ (Usable' <=> Usable)
  BY DEF HasPassed, Promoted, Usable, RightsBlocked
<1>2. Due'
  BY DEF Due, Still
<1>3. Forward
  BY <1>1, <1>2 DEF Forward
<1>4. RowsTyped'
  BY DEF RowsTyped, AssetTable, Still, AssetInv, TypeOK
<1>5. Facts'
  BY <1>1 DEF Facts, Still, AssetInv, VersionsIssued, RowsFollowStore, TargetsMarked, RightsFollowPromotion,
     ValidatedBeforeUse, ControlledContentKept, DeletedHasNoObjects
<1> QED
  BY <1>3, <1>4, <1>5, ExecutorStep DEF Still

LEMMA DiscardDestinationKeeps ==
  ASSUME NEW w \in Workers, Still(w), DiscardDestination(w)
  PROVE  AssetInv'
<1>1. /\ worker[w].pc = "discard" /\ WorkerInv(w) /\ worker \in [Workers -> WorkerState] /\ store \in ObjectStore
      /\ Due /\ objects.controlled # "CONTROLLED"
      /\ UNCHANGED <<asset, rights, objects, results>>
  BY DEF DiscardDestination, Still, AssetInv, TypeOK, WorkerInv, CopyKept
<1>2. CASE DiscardFails(w)
  BY <1>1, <1>2, GoesFree DEF DiscardFails, Still, Outcomes
<1>3. CASE store.dest = {} /\ Goto(w, "discardSource") /\ UNCHANGED store
  <2>1. PICK x : Reaches(w, "discardSource", x)
    BY <1>3, GotoReaches DEF Still, AssetInv, Points
  <2>2. WorkerInv(w)'
    BY <1>1, <1>3, <2>1 DEF Reaches, WorkerInv, StagesInOrder, SeenGone, CopyKept, Due, Still
  <2> QED
    BY <1>1, <1>3, <2>1, <2>2, DiscardStep DEF Reaches
<1>4. ASSUME NEW v \in store.dest, store' = [store EXCEPT !.dest = @ \ {v}], UNCHANGED worker
      PROVE  AssetInv'
  <2>1. store' \in ObjectStore /\ store'.fresh = store.fresh /\ store'.dest \subseteq store.dest
        /\ store'.source = store.source
    BY <1>1, <1>4 DEF ObjectStore
  <2>2. PICK x \in WorkerState : x = worker[w]
    BY <1>1
  <2>3. worker' = [worker EXCEPT ![w] = x] /\ worker'[w].pc = "discard"
    BY <1>1, <1>4, <2>2
  <2>4. WorkerInv(w)'
    BY <1>1, <2>3 DEF WorkerInv, StagesInOrder, SeenGone, CopyKept, Due, Still
  <2> QED
    BY <1>1, <2>1, <2>3, <2>4, DiscardStep
<1> QED
  BY <1>2, <1>3, <1>4 DEF DiscardDestination

LEMMA DiscardSourceKeeps ==
  ASSUME NEW w \in Workers, Still(w), DiscardSource(w)
  PROVE  AssetInv'
<1>1. /\ worker[w].pc = "discardSource" /\ WorkerInv(w) /\ worker \in [Workers -> WorkerState] /\ store \in ObjectStore
      /\ Due /\ objects.controlled # "CONTROLLED" /\ objects.version \notin store.dest
      /\ UNCHANGED <<asset, rights, objects, results>>
  BY DEF DiscardSource, Still, AssetInv, TypeOK, WorkerInv, CopyKept, SeenGone
<1>2. CASE DiscardFails(w)
  BY <1>1, <1>2, GoesFree DEF DiscardFails, Still, Outcomes
<1>3. CASE store.source = "none" /\ Goto(w, "expired") /\ UNCHANGED store
  <2>1. PICK x : Reaches(w, "expired", x)
    BY <1>3, GotoReaches DEF Still, AssetInv, Points
  <2>2. WorkerInv(w)'
    BY <1>1, <1>3, <2>1 DEF Reaches, WorkerInv, StagesInOrder, SeenGone, CopyKept, Due, Still
  <2> QED
    BY <1>1, <1>3, <2>1, <2>2, DiscardStep DEF Reaches
<1>4. CASE store' = [store EXCEPT !.source = "none"] /\ UNCHANGED worker
  <2>1. store' \in ObjectStore /\ store'.fresh = store.fresh /\ store'.dest = store.dest /\ store'.source = "none"
    BY <1>1, <1>4 DEF ObjectStore
  <2>2. PICK x \in WorkerState : x = worker[w]
    BY <1>1
  <2>3. worker' = [worker EXCEPT ![w] = x] /\ worker'[w].pc = "discardSource"
    BY <1>1, <1>4, <2>2
  <2>4. WorkerInv(w)'
    BY <1>1, <2>1, <2>3 DEF WorkerInv, StagesInOrder, SeenGone, CopyKept, Due, Still
  <2> QED
    BY <1>1, <2>1, <2>3, <2>4, DiscardStep
<1> QED
  BY <1>2, <1>3, <1>4 DEF DiscardSource

LEMMA ExpireRetentionKeeps ==
  ASSUME NEW w \in Workers, Still(w), ExpireRetention(w)
  PROVE  AssetInv'
<1>1. /\ worker[w].pc = "expired" /\ WorkerInv(w) /\ asset' = Deleted(asset)
      /\ objects' = [objects EXCEPT !.source = Gone(@), !.controlled = Gone(@)]
      /\ Goto(w, "terminal") /\ UNCHANGED <<rights, store, results>>
  BY DEF ExpireRetention, Still, AssetInv
<1>2. PICK x : Reaches(w, "terminal", x)
  BY <1>1, GotoReaches DEF Still, AssetInv, Points, Outcomes
<1>3. WorkerInv(w)'
  BY <1>2, FreePoint DEF Reaches, Outcomes
<1>4. store.source # "upload" /\ objects.version \notin store.dest /\ Due
  BY <1>1 DEF WorkerInv, SeenGone, CopyKept
<1>5. /\ asset' \in AssetRow /\ asset'.class = asset.class /\ asset'.deletion = asset.deletion
      /\ asset'.status = "DELETED" /\ asset'.reason = None
  BY <1>1 DEF Still, AssetInv, TypeOK, AssetRow, Status, Deleted
<1>6. /\ objects' \in ObjectRows /\ objects'.version = objects.version /\ objects'.source = "DELETED"
      /\ objects'.controlled \in {"NONE", "DELETED"}
      /\ objects'.controlled = "NONE" <=> objects.controlled = "NONE"
  BY <1>1 DEF Still, AssetInv, TypeOK, ObjectRows, Gone
<1>7. \A s \in StageNames : HasPassed(s)' <=> HasPassed(s)
  BY <1>1 DEF HasPassed
<1>8. Forward
  BY <1>1, <1>4, <1>5, <1>6, <1>7 DEF Forward, Due, Still
<1>9. RowsTyped'
  BY <1>1, <1>5, <1>6 DEF RowsTyped, AssetTable, Still, AssetInv, TypeOK
<1>10. ~Usable'
  BY <1>5 DEF Usable, RightsBlocked
<1>11. TargetsMarked'
  BY <1>6 DEF TargetsMarked, Still, AssetInv
<1>12. Facts'
  BY <1>1, <1>4, <1>5, <1>6, <1>10, <1>11 DEF Facts, Still, AssetInv, VersionsIssued, RowsFollowStore, RightsFollowPromotion,
     ValidatedBeforeUse, ControlledContentKept, DeletedHasNoObjects
<1> QED
  BY <1>2, <1>3, <1>8, <1>9, <1>12, ExecutorStep DEF Still, Reaches

LEMMA ValidationStepKeeps ==
  ASSUME NEW w \in Workers, AssetInv, ValidationStep(w)
  PROVE  AssetInv'
<1>1. Still(w)
  BY DEF Still, ValidationStep
<1> QED
  BY <1>1, LoadKeeps, BeginValidationKeeps, DownloadKeeps, ReuseResultKeeps, RunStageKeeps, MarkPendingReviewKeeps,
     RejectKeeps, CleanupRejectedKeeps, StatDestinationKeeps, CopyIfAbsentKeeps, DeleteSourceKeeps,
     PersistVerifiedKeeps, ReconcileDestinationKeeps, MarkCleanupPendingKeeps, DiscardDestinationKeeps,
     DiscardSourceKeeps, ExpireRetentionKeeps DEF ValidationStep

-----------------------------------------------------------------------------
(* The operation around the executors *)

\* What the operation does to one worker, or to none, while no row changes.
LEMMA OperationMoves ==
  ASSUME AssetInv, UNCHANGED <<asset, rights, objects, store, results, cleanup, passed>>, Counted',
         \/ UNCHANGED worker
         \/ \E w \in Workers, x \in WorkerState : worker' = [worker EXCEPT ![w] = x] /\ WorkerInv(w)'
  PROVE  AssetInv'
<1>1. Forward /\ Facts' /\ RowsTyped'
  BY RowsUntouched
<1>2. worker' \in [Workers -> WorkerState] /\ \A v \in Workers : WorkerInv(v)'
  BY <1>1, OneWorkerMoves, WorkersWait DEF AssetInv
<1> QED
  BY <1>1, <1>2 DEF AssetInv, TypeOK, RowsTyped, Facts, Counted

\* A worker that takes the operation knows its attempt and nothing else.
LEMMA FreshWorker ==
  ASSUME worker \in [Workers -> WorkerState], NEW w \in Workers, NEW n \in 1..MaxAttempts,
         NEW pc \in {"load", "retry", "expire"}, pc = "expire" => Due',
         worker' = [worker EXCEPT ![w] = [Idle EXCEPT !.pc = pc, !.attempt = n]]
  PROVE  \E x \in WorkerState : worker' = [worker EXCEPT ![w] = x] /\ WorkerInv(w)'
<1>1. n \in 0..MaxAttempts /\ n > 0
  BY AssetAssumption DEF AssetAssumption
<1>2. PICK x \in WorkerState : x = [Idle EXCEPT !.pc = pc, !.attempt = n]
  BY <1>1, StageTypes DEF WorkerState, Points, Outcomes
<1>3. x.pc = pc /\ x.attempt = n /\ x.stage = 1
  BY <1>2 DEF Idle
<1>4. worker' = [worker EXCEPT ![w] = x] /\ worker'[w] = x
  BY <1>2
<1>5. WorkerInv(w)'
  BY <1>1, <1>3, <1>4 DEF WorkerInv, StagesInOrder, SeenGone, CopyKept
<1> QED
  BY <1>4, <1>5

LEMMA IdleWorker ==
  ASSUME worker \in [Workers -> WorkerState], NEW w \in Workers, worker' = [worker EXCEPT ![w] = Idle]
  PROVE  \E x \in WorkerState : worker' = [worker EXCEPT ![w] = x] /\ WorkerInv(w)'
<1>1. worker'[w].pc = "idle"
  BY DEF Idle
<1> QED
  BY <1>1, StageTypes, FreePoint

LEMMA ClaimKeeps ==
  ASSUME AssetInv, NEW w \in Workers, Claim(w)
  PROVE  AssetInv'
<1>1. op.status = "READY" /\ op.attempt \in 0..MaxAttempts /\ op.attempt < MaxAttempts
  BY DEF Claim, AssetInv, TypeOK, Operation, AttemptsInOrder
<1>2. PICK n : n = op.attempt + 1
  OBVIOUS
<1>3. n \in 1..MaxAttempts /\ n \in 0..MaxAttempts /\ n > 0
  BY <1>1, <1>2, AssetAssumption DEF AssetAssumption
<1>4. op' = [status |-> "EXECUTING", owner |-> w, attempt |-> n]
      /\ worker' = [worker EXCEPT ![w] = [Idle EXCEPT !.pc = "load", !.attempt = n]]
      /\ UNCHANGED <<asset, rights, objects, store, results, cleanup, passed, records, faults>>
  BY <1>2 DEF Claim
<1>5. Counted'
  BY <1>3, <1>4 DEF Counted, AttemptsInOrder, Operation, AssetInv, TypeOK
<1>6. \E x \in WorkerState : worker' = [worker EXCEPT ![w] = x] /\ WorkerInv(w)'
  BY <1>3, <1>4, FreshWorker DEF AssetInv, TypeOK
<1> QED
  BY <1>4, <1>5, <1>6, OperationMoves

LEMMA ReconcileKeeps ==
  ASSUME AssetInv, NEW w \in Workers, Reconcile(w)
  PROVE  AssetInv'
<1>1. op \in Operation /\ op.status = "UNKNOWN" /\ op.attempt > 0 /\ op.attempt \in 1..MaxAttempts
  <2>1. op \in Operation /\ op.status = "UNKNOWN" /\ op.attempt \in 0..MaxAttempts /\ op.attempt > 0
    BY DEF Reconcile, AssetInv, TypeOK, Operation, AttemptsInOrder
  <2> QED
    BY <2>1, AssetAssumption DEF AssetAssumption
<1>2. PICK pc \in {"load", "retry"} : worker' = [worker EXCEPT ![w] = [Idle EXCEPT !.attempt = op.attempt, !.pc = pc]]
  BY DEF Reconcile
<1>3. worker' = [worker EXCEPT ![w] = [Idle EXCEPT !.pc = pc, !.attempt = op.attempt]]
  BY <1>2 DEF Idle
<1>4. PICK status \in {"EXECUTING", "RECONCILING"} : op' = [op EXCEPT !.status = status, !.owner = w]
  BY DEF Reconcile
<1>5. UNCHANGED <<asset, rights, objects, store, results, cleanup, passed, records, faults>>
  BY DEF Reconcile
<1>6. Counted'
  BY <1>1, <1>4, <1>5 DEF Counted, AttemptsInOrder, Operation, AssetInv, TypeOK
<1>7. \E x \in WorkerState : worker' = [worker EXCEPT ![w] = x] /\ WorkerInv(w)'
  BY <1>1, <1>2, <1>3, FreshWorker DEF AssetInv, TypeOK
<1> QED
  BY <1>5, <1>6, <1>7, OperationMoves

LEMMA SettleKeeps ==
  ASSUME AssetInv, NEW w \in Workers, Settle(w)
  PROVE  AssetInv'
<1>1. /\ worker[w].pc \in Outcomes /\ worker' = [worker EXCEPT ![w] = Idle]
      /\ UNCHANGED <<asset, rights, objects, store, results, cleanup, passed, records, faults>>
  BY DEF Settle
<1>2. \E x \in WorkerState : worker' = [worker EXCEPT ![w] = x] /\ WorkerInv(w)'
  BY <1>1, IdleWorker DEF AssetInv, TypeOK
<1>3. CASE op' = op
  <2>1. Counted'
    BY <1>1, <1>3 DEF Counted, AttemptsInOrder, AssetInv, TypeOK
  <2> QED
    BY <1>1, <1>2, <2>1, OperationMoves
<1>4. CASE op.owner = w
  <2>1. PICK status \in {"CLOSED", "FAILED", "SUCCEEDED", "UNKNOWN"} \cup {Retried} :
          /\ op' = [op EXCEPT !.status = status, !.owner = None]
          /\ status = "READY" => status = Retried /\ op.status = "EXECUTING"
    BY <1>4 DEF Settle, Retried
  <2>2. op \in Operation /\ Retried \in {"READY", "FAILED"} /\ (Retried = "READY" => op.attempt < MaxAttempts)
    BY DEF AssetInv, TypeOK, Retried
  <2>3. op.status # "READY" => op.attempt > 0
    BY DEF AssetInv, AttemptsInOrder
  <2>4. op.status # "READY"
    BY <1>4, AssetAssumption DEF AssetInv, AttemptsInOrder, AssetAssumption
  <2>5. Counted'
    BY <1>1, <2>1, <2>2, <2>3, <2>4 DEF Counted, AttemptsInOrder, Operation, AssetInv, TypeOK
  <2> QED
    BY <1>1, <1>2, <2>5, OperationMoves
<1> QED
  BY <1>3, <1>4 DEF Settle

LEMMA CrashKeeps ==
  ASSUME AssetInv, NEW w \in Workers, Crash(w)
  PROVE  AssetInv'
<1>1. /\ worker' = [worker EXCEPT ![w] = Idle] /\ faults' = faults + 1 /\ faults < MaxFaults
      /\ UNCHANGED <<asset, rights, objects, store, results, cleanup, passed, records>>
  BY DEF Crash
<1>2. faults' \in 0..MaxFaults
  BY <1>1, AssetAssumption DEF AssetInv, TypeOK, AssetAssumption
<1>3. \E x \in WorkerState : worker' = [worker EXCEPT ![w] = x] /\ WorkerInv(w)'
  BY <1>1, IdleWorker DEF AssetInv, TypeOK
<1>4. CASE op.owner = w
  <2>1. op.status \notin {"READY", "CLOSED"}
    BY <1>4, AssetAssumption DEF AssetInv, AttemptsInOrder, AssetAssumption
  <2>2. PICK status \in {"FAILED", "UNKNOWN"} : op' = [op EXCEPT !.owner = None, !.status = status]
    BY <1>4 DEF Crash
  <2>3. Counted'
    BY <1>1, <1>2, <2>1, <2>2 DEF Counted, AttemptsInOrder, Operation, AssetInv, TypeOK
  <2> QED
    BY <1>1, <1>3, <2>3, OperationMoves
<1>5. CASE op.owner # w
  <2>1. op' = op
    BY <1>5 DEF Crash
  <2>2. Counted'
    BY <1>1, <1>2, <2>1 DEF Counted, AttemptsInOrder, AssetInv, TypeOK
  <2> QED
    BY <1>1, <1>3, <2>2, OperationMoves
<1> QED
  BY <1>4, <1>5

LEMMA LeaseExpiresKeeps ==
  ASSUME AssetInv, LeaseExpires
  PROVE  AssetInv'
<1>1. /\ op.status \in {"EXECUTING", "RECONCILING"} /\ op' = [op EXCEPT !.status = "UNKNOWN", !.owner = None]
      /\ faults' = faults + 1 /\ faults < MaxFaults
      /\ UNCHANGED <<asset, rights, objects, store, results, worker, cleanup, passed, records>>
  BY DEF LeaseExpires
<1>2. faults' \in 0..MaxFaults
  BY <1>1, AssetAssumption DEF AssetInv, TypeOK, AssetAssumption
<1>3. Counted'
  BY <1>1, <1>2 DEF Counted, AttemptsInOrder, Operation, AssetInv, TypeOK
<1> QED
  BY <1>1, <1>3, OperationMoves

LEMMA ReplayKeeps ==
  ASSUME AssetInv, Replay
  PROVE  AssetInv'
<1>1. /\ op.status = "CLOSED" /\ op.attempt < MaxAttempts /\ op' = [op EXCEPT !.status = "READY"]
      /\ UNCHANGED <<asset, rights, objects, store, results, worker, cleanup, passed, records, faults>>
  BY DEF Replay
<1>2. Counted'
  BY <1>1 DEF Counted, AttemptsInOrder, Operation, AssetInv, TypeOK
<1> QED
  BY <1>1, <1>2, OperationMoves

LEMMA TerminalFailureKeeps ==
  ASSUME AssetInv, NEW w \in Workers, TerminalFailure(w)
  PROVE  AssetInv'
<1>1. /\ op.status = "FAILED" /\ op.owner = None /\ op \in Operation /\ op.attempt > 0
      /\ UNCHANGED <<rights, objects, store, results, cleanup, passed, records, faults>>
  BY DEF TerminalFailure, AssetInv, TypeOK, AttemptsInOrder
<1>2. CASE /\ Due /\ op' = [op EXCEPT !.owner = w] /\ worker' = [worker EXCEPT ![w] = [Idle EXCEPT !.pc = "expire"]]
           /\ UNCHANGED asset
  <2>1. PICK x \in WorkerState : x = [Idle EXCEPT !.pc = "expire"]
    BY StageTypes DEF WorkerState, Points
  <2>2. worker' = [worker EXCEPT ![w] = x] /\ worker'[w].pc = "expire"
    BY <1>2, <2>1, StageTypes DEF AssetInv, TypeOK, WorkerState
  <2>3. Due'
    BY <1>1, <1>2 DEF Due
  <2>4. WorkerInv(w)'
    BY <2>2, <2>3, ExpirePoint
  <2>5. Counted'
    BY <1>1, <1>2 DEF Counted, AttemptsInOrder, Operation, AssetInv, TypeOK
  <2> QED
    BY <1>1, <1>2, <2>2, <2>4, <2>5, OperationMoves
<1>3. CASE /\ asset.status \notin {"AVAILABLE", "RIGHTS_EXPIRED"} /\ op' = [op EXCEPT !.status = "CLOSED"]
           /\ asset' = FailValidation(asset) /\ UNCHANGED worker
  <2>1. /\ asset' \in AssetRow /\ asset'.class = asset.class /\ asset'.reason = asset.reason
        /\ asset'.deletion = asset.deletion
        /\ asset'.status # asset.status => asset.status \in {"QUARANTINED", "VALIDATING"} /\ asset'.status = "FAILED"
    BY <1>3 DEF AssetInv, TypeOK, AssetRow, Status, FailValidation
  <2>2. (\A t \in StageNames : HasPassed(t)' <=> HasPassed(t)) /\ (Promoted' <=> Promoted)
    BY <1>1 DEF HasPassed, Promoted
  <2>3. Forward
    BY <1>1, <2>1, <2>2 DEF Forward, Due
  <2>4. RowsTyped'
    BY <1>1, <2>1 DEF RowsTyped, AssetTable, AssetInv, TypeOK
  <2>5. Usable' => Usable
    BY <2>1 DEF Usable, RightsBlocked
  <2>6. Facts'
    BY <1>1, <2>1, <2>2, <2>5 DEF Facts, AssetInv, VersionsIssued, RowsFollowStore, TargetsMarked, RightsFollowPromotion,
       ValidatedBeforeUse, ControlledContentKept, DeletedHasNoObjects
  <2>7. Counted'
    BY <1>1, <1>3 DEF Counted, AttemptsInOrder, Operation, AssetInv, TypeOK
  <2>8. worker' \in [Workers -> WorkerState] /\ \A v \in Workers : WorkerInv(v)'
    BY <1>3, <2>3, WorkersWait DEF AssetInv
  <2> QED
    BY <2>4, <2>6, <2>7, <2>8 DEF AssetInv, TypeOK, RowsTyped, Facts, Counted
<1> QED
  BY <1>1, <1>2, <1>3 DEF TerminalFailure

LEMMA OperationStepKeeps ==
  ASSUME AssetInv, OperationStep
  PROVE  AssetInv'
BY ClaimKeeps, ReconcileKeeps, SettleKeeps, CrashKeeps, TerminalFailureKeeps, LeaseExpiresKeeps, ReplayKeeps
   DEF OperationStep

-----------------------------------------------------------------------------
(* Rights *)

\* A step of rights or of scheduling: the objects and the executors are left alone,
\* and an asset becomes usable only when it was, or a grant says that it was promoted.
LEMMA RightsMove ==
  ASSUME AssetInv, UNCHANGED <<objects, store, results, op, worker, passed, faults>>,
         asset' \in AssetRow, AssetTable', asset'.class = asset.class, rights' \in RightsRecord, cleanup' \in Cleanup,
         cleanup'.pc = "idle" \/ UNCHANGED cleanup,
         records' \in 0..MaxRecords,
         Usable' => Promoted,
         RightsFollowPromotion',
         asset'.status = "DELETED" => asset.status = "DELETED"
  PROVE  AssetInv'
<1>1. (\A t \in StageNames : HasPassed(t)' <=> HasPassed(t)) /\ (Promoted' <=> Promoted)
  BY DEF HasPassed, Promoted
<1>2. Forward
  BY <1>1 DEF Forward, Due
<1>3. RowsTyped'
  BY DEF RowsTyped, AssetInv, TypeOK
<1>4. TargetsMarked' /\ VersionsIssued' /\ RowsFollowStore'
  BY DEF TargetsMarked, VersionsIssued, RowsFollowStore, AssetInv
<1>5. Facts'
  BY <1>1, <1>4 DEF Facts, AssetInv, ValidatedBeforeUse, ControlledContentKept, DeletedHasNoObjects
<1>6. Counted'
  BY DEF Counted, AttemptsInOrder, AssetInv, TypeOK
<1>7. worker' \in [Workers -> WorkerState] /\ \A v \in Workers : WorkerInv(v)'
  BY <1>2, WorkersWait DEF AssetInv
<1> QED
  BY <1>3, <1>5, <1>6, <1>7 DEF AssetInv, TypeOK, RowsTyped, Facts, Counted

\* What selecting a record does to the row: it stays, or it ends in one of four ways.
LEMMA RecordSelected ==
  ASSUME asset \in AssetRow, AssetTable,
         asset.status \in {"PENDING_RIGHTS", "AVAILABLE", "BLOCKED", "RIGHTS_EXPIRED"},
         NEW r \in Grants, Selectable(r), asset' = SelectRecord(r)
  PROVE  /\ asset' \in AssetRow /\ asset'.class = asset.class /\ asset'.deletion = asset.deletion
         /\ asset'.status = "BLOCKED" <=> asset'.reason # None
         /\ asset'.status \in {"PENDING_RIGHTS", "AVAILABLE", "BLOCKED", "RIGHTS_EXPIRED"}
         /\ asset' = asset \/ Usable
<1>1. asset.status = "BLOCKED" <=> asset.reason # None
  BY DEF AssetTable
<1>2. CASE asset' = asset
  BY <1>1, <1>2
<1>3. CASE /\ RightsBlocked \/ asset.status # "BLOCKED"
           /\ \E reason \in {"INACTIVE", "EMPTY"} : asset' = [asset EXCEPT !.status = "BLOCKED", !.reason = reason]
  BY <1>3, AssetAssumption DEF AssetRow, Status, Reasons, RightsBlockReasons, Usable, AssetAssumption
<1>4. CASE /\ RightsBlocked \/ asset.status # "BLOCKED"
           /\ asset' = [asset EXCEPT !.status = "RIGHTS_EXPIRED", !.reason = None]
  BY <1>4 DEF AssetRow, Status, Usable
<1>5. CASE /\ RightsBlocked \/ asset.status # "BLOCKED"
           /\ asset' = [asset EXCEPT !.status = "AVAILABLE", !.reason = None]
  BY <1>5 DEF AssetRow, Status, Usable
<1>6. r.phase \in {"FUTURE", "ACTIVE", "ENDED"} /\ r.empty \in BOOLEAN
  BY DEF Grants
<1>7. CASE r.phase = "ENDED"
  BY <1>7, <1>2, <1>4 DEF SelectRecord, SelectUnusableRights
<1>8. CASE r.phase = "FUTURE"
  BY <1>8, <1>2, <1>3 DEF SelectRecord, SelectUnusableRights
<1>9. CASE r.phase = "ACTIVE" /\ r.empty
  BY <1>9, <1>2, <1>3 DEF SelectRecord, SelectUnusableRights
<1>10. CASE r.phase = "ACTIVE" /\ ~r.empty
  <2>1. asset' = SelectAvailableRights(asset)
    BY <1>10 DEF SelectRecord
  <2>2. RightsBlocked \/ asset.status # "BLOCKED"
    BY <1>10 DEF Selectable
  <2> QED
    BY <2>1, <2>2, <1>5 DEF SelectAvailableRights
<1> QED
  BY <1>6, <1>7, <1>8, <1>9, <1>10

LEMMA GrantKeeps ==
  ASSUME AssetInv, NEW r \in Offers, Grant(r)
  PROVE  AssetInv'
<1>1. r \in Grants
  BY AssetAssumption DEF AssetAssumption
<1>2. /\ records < MaxRecords /\ records' = records + 1 /\ rights' = r
      /\ asset.status \in {"PENDING_RIGHTS", "AVAILABLE", "BLOCKED", "RIGHTS_EXPIRED"}
      /\ Selectable(r) /\ asset' = SelectRecord(r)
      /\ UNCHANGED <<objects, store, results, op, worker, cleanup, passed, faults>>
  BY DEF Grant
<1>3. records' \in 0..MaxRecords
  BY <1>2, AssetAssumption DEF AssetInv, TypeOK, AssetAssumption
<1>4. /\ asset' \in AssetRow /\ asset'.class = asset.class /\ asset'.deletion = asset.deletion
      /\ asset'.status = "BLOCKED" <=> asset'.reason # None
      /\ asset'.status \in {"PENDING_RIGHTS", "AVAILABLE", "BLOCKED", "RIGHTS_EXPIRED"}
      /\ asset' = asset \/ Usable
  BY <1>1, <1>2, RecordSelected DEF AssetInv, TypeOK
<1>5. AssetTable'
  BY <1>2, <1>4 DEF AssetTable, AssetInv, TypeOK
<1>6. Usable => Promoted
  BY DEF AssetInv, ValidatedBeforeUse
<1>7. Usable' => Usable
  BY <1>4 DEF Usable, RightsBlocked
<1>8. Promoted' <=> Promoted
  BY <1>2 DEF Promoted, HasPassed
<1>9. RightsFollowPromotion'
  BY <1>2, <1>4, <1>6, <1>8 DEF RightsFollowPromotion, Usable
<1>10. rights' \in RightsRecord
  BY <1>1, <1>2 DEF RightsRecord
<1>11. cleanup' \in Cleanup
  BY <1>2 DEF AssetInv, TypeOK
<1> QED
  BY <1>2, <1>3, <1>4, <1>5, <1>6, <1>7, <1>9, <1>10, <1>11, RightsMove

LEMMA RevokeKeeps ==
  ASSUME AssetInv, Revoke
  PROVE  AssetInv'
<1>1. /\ rights.decision = "GRANT" /\ asset.status \notin Unusable /\ asset' = SelectRevokedRights(asset)
      /\ rights' = [NoRecord EXCEPT !.decision = "REVOKE"]
      /\ UNCHANGED <<objects, store, results, op, worker, cleanup, passed, records, faults>>
  BY DEF Revoke
<1>2. rights' \in RightsRecord /\ rights'.decision = "REVOKE"
  BY <1>1 DEF RightsRecord, NoRecord
<1>3. Usable => Promoted
  BY DEF AssetInv, ValidatedBeforeUse
<1>4. asset.status # "BLOCKED" => Promoted
  BY <1>1 DEF AssetInv, RightsFollowPromotion, Unusable
<1>5. /\ asset' \in AssetRow /\ asset'.class = asset.class /\ asset'.deletion = asset.deletion
      /\ asset'.status = "BLOCKED" /\ asset'.reason # None
      /\ asset' = asset \/ asset.status # "BLOCKED" \/ RightsBlocked
  BY <1>1, AssetAssumption DEF SelectRevokedRights, Block, AssetInv, TypeOK, AssetTable, AssetRow, Status, Reasons,
     RightsBlockReasons, AssetAssumption
<1>6. AssetTable'
  BY <1>1, <1>5 DEF AssetTable, AssetInv, TypeOK
<1>7. Usable' => Promoted
  BY <1>3, <1>4, <1>5 DEF Usable, RightsBlocked
<1>8. RightsFollowPromotion'
  BY <1>2 DEF RightsFollowPromotion
<1>9. cleanup' \in Cleanup /\ records' \in 0..MaxRecords
  BY <1>1 DEF AssetInv, TypeOK
<1> QED
  BY <1>1, <1>2, <1>5, <1>6, <1>7, <1>8, <1>9, RightsMove

LEMMA AdministratorBlockKeeps ==
  ASSUME AssetInv, AdministratorBlock
  PROVE  AssetInv'
<1>1. /\ asset.status \in Blockable \/ RightsBlocked
      /\ asset' = [asset EXCEPT !.status = "BLOCKED", !.reason = "ADMIN"]
      /\ UNCHANGED <<rights, objects, store, results, op, worker, cleanup, passed, records, faults>>
  BY DEF AdministratorBlock, Block
<1>2. /\ asset' \in AssetRow /\ asset'.class = asset.class /\ asset'.deletion = asset.deletion
      /\ asset'.status = "BLOCKED" /\ asset'.reason = "ADMIN" /\ asset'.reason # None
  BY <1>1, AssetAssumption DEF AssetInv, TypeOK, AssetRow, Status, Reasons, AssetAssumption
<1>3. AssetTable'
  BY <1>1, <1>2 DEF AssetTable, AssetInv, TypeOK
<1>4. ~Usable'
  BY <1>2 DEF Usable, RightsBlocked, RightsBlockReasons
<1>5. RightsFollowPromotion'
  BY <1>2 DEF RightsFollowPromotion
<1>6. cleanup' \in Cleanup /\ records' \in 0..MaxRecords /\ rights' \in RightsRecord
  BY <1>1 DEF AssetInv, TypeOK
<1> QED
  BY <1>1, <1>2, <1>3, <1>4, <1>5, <1>6, RightsMove

LEMMA ActivateRightsKeeps ==
  ASSUME AssetInv, ActivateRights
  PROVE  AssetInv'
<1>1. /\ asset.status = "PENDING_RIGHTS" \/ (asset.status = "BLOCKED" /\ asset.reason = "INACTIVE")
      /\ rights.decision = "GRANT" /\ rights.phase = "ACTIVE" /\ ~rights.empty /\ asset' = SelectRecord(rights)
      /\ UNCHANGED <<rights, objects, store, results, op, worker, cleanup, passed, records, faults>>
  BY DEF ActivateRights, ClaimActivatableRights
<1>2. asset' = [asset EXCEPT !.status = "AVAILABLE", !.reason = None]
  BY <1>1 DEF SelectRecord, SelectAvailableRights
<1>3. Promoted
  BY <1>1 DEF AssetInv, ValidatedBeforeUse, Usable, RightsBlocked, RightsBlockReasons
<1>4. /\ asset' \in AssetRow /\ asset'.class = asset.class /\ asset'.deletion = asset.deletion
      /\ asset'.status = "AVAILABLE" /\ asset'.reason = None
  BY <1>2 DEF AssetInv, TypeOK, AssetRow, Status
<1>5. AssetTable'
  BY <1>1, <1>4 DEF AssetTable, AssetInv, TypeOK
<1>6. Promoted'
  BY <1>1, <1>3 DEF Promoted, HasPassed
<1>7. RightsFollowPromotion'
  BY <1>6 DEF RightsFollowPromotion
<1>8. cleanup' \in Cleanup /\ records' \in 0..MaxRecords /\ rights' \in RightsRecord
  BY <1>1 DEF AssetInv, TypeOK
<1> QED
  BY <1>1, <1>3, <1>4, <1>5, <1>7, <1>8, RightsMove

-----------------------------------------------------------------------------
(* Deletion *)

\* A deletion is scheduled from a row, once: the asset becomes DELETING, or keeps the
\* status of an expired one.
LEMMA Scheduled ==
  ASSUME AssetInv, UNCHANGED <<rights, objects, store, results, op, worker, passed, records, faults>>,
         NEW row \in AssetRow, row.class = asset.class,
         NEW reason \in {"ADMIN", "RIGHTS", "RETENTION"},
         reason = "RIGHTS" => row.status = "RIGHTS_EXPIRED" /\ Promoted,
         asset.deletion = None,
         asset' = RequestDeletion(row, reason),
         cleanup' = Ended("OPEN")
  PROVE  AssetInv'
<1>1. PICK status \in Status : asset' = [row EXCEPT !.deletion = reason, !.reason = None, !.status = status]
                               /\ status = IF reason = "RIGHTS" THEN row.status ELSE "DELETING"
  BY DEF RequestDeletion, Status, AssetRow
<1>2. /\ asset' \in AssetRow /\ asset'.class = asset.class /\ asset'.deletion = reason /\ asset'.reason = None
      /\ asset'.status = status
  BY <1>1 DEF AssetRow
<1>3. reason # None
  BY AssetAssumption DEF AssetAssumption
<1>4. AssetTable'
  BY <1>1, <1>2, <1>3 DEF AssetTable, Ended
<1>5. cleanup' \in Cleanup /\ cleanup'.pc = "idle"
  BY DEF Cleanup, Ended
<1>6. Usable' => Promoted
  BY <1>1, <1>2 DEF Usable, RightsBlocked
<1>7. Promoted' <=> Promoted
  BY DEF Promoted, HasPassed
<1>8. RightsFollowPromotion'
  BY <1>1, <1>2, <1>7 DEF RightsFollowPromotion
<1>9. records' \in 0..MaxRecords /\ rights' \in RightsRecord
  BY DEF AssetInv, TypeOK
<1> QED
  BY <1>1, <1>2, <1>4, <1>5, <1>6, <1>8, <1>9, RightsMove

LEMMA ExpireRightsKeeps ==
  ASSUME AssetInv, ExpireRights
  PROVE  AssetInv'
<1>1. /\ \/ asset.status \in {"AVAILABLE", "PENDING_RIGHTS"}
         \/ asset.status = "BLOCKED" /\ asset.reason \in {"INACTIVE", "EMPTY"}
      /\ UNCHANGED <<rights, objects, store, results, op, worker, passed, records, faults>>
  BY DEF ExpireRights, ClaimExpiredRights
<1>2. Promoted
  BY <1>1 DEF AssetInv, ValidatedBeforeUse, Usable, RightsBlocked, RightsBlockReasons
<1>3. PICK expired : expired = [asset EXCEPT !.status = "RIGHTS_EXPIRED", !.reason = None]
  OBVIOUS
<1>4. /\ expired \in AssetRow /\ expired.class = asset.class /\ expired.deletion = asset.deletion
      /\ expired.status = "RIGHTS_EXPIRED" /\ expired.reason = None
  BY <1>3 DEF AssetInv, TypeOK, AssetRow, Status
<1>5. CASE asset.class = "FOUNDATION" /\ asset.deletion = None
  <2>1. asset' = RequestDeletion(expired, "RIGHTS") /\ cleanup' = Ended("OPEN")
    BY <1>3, <1>5 DEF ExpireRights, ScheduleDeletion
  <2> QED
    BY <2>1, <1>1, <1>2, <1>4, <1>5, Scheduled
<1>6. CASE asset.class = "FOUNDATION" /\ asset.deletion # None
  <2>1. UNCHANGED <<asset, cleanup>>
    BY <1>6 DEF ExpireRights, ScheduleDeletion
  <2>2. AssetTable' /\ asset' \in AssetRow /\ cleanup' \in Cleanup /\ records' \in 0..MaxRecords /\ rights' \in RightsRecord
    BY <2>1, <1>1 DEF AssetInv, TypeOK, AssetTable
  <2>3. RightsFollowPromotion'
    BY <2>1, <1>1, <1>2 DEF RightsFollowPromotion, Promoted, HasPassed
  <2> QED
    BY <2>1, <2>2, <2>3, <1>1, <1>2, RightsMove
<1>7. CASE asset.class # "FOUNDATION"
  <2>1. asset' = expired /\ UNCHANGED cleanup
    BY <1>3, <1>7 DEF ExpireRights
  <2>2. AssetTable'
    BY <2>1, <1>4 DEF AssetInv, TypeOK, AssetTable
  <2>3. asset' \in AssetRow /\ cleanup' \in Cleanup /\ records' \in 0..MaxRecords /\ rights' \in RightsRecord
    BY <2>1, <1>1, <1>4 DEF AssetInv, TypeOK
  <2>4. RightsFollowPromotion'
    BY <1>1, <1>2 DEF RightsFollowPromotion, Promoted, HasPassed
  <2> QED
    BY <2>1, <2>2, <2>3, <2>4, <1>1, <1>2, <1>4, RightsMove
<1> QED
  BY <1>5, <1>6, <1>7

LEMMA RequestAdministratorDeletionKeeps ==
  ASSUME AssetInv, RequestAdministratorDeletion
  PROVE  AssetInv'
<1>1. /\ asset.deletion = None /\ ScheduleDeletion(asset, "ADMIN")
      /\ UNCHANGED <<rights, objects, store, results, op, worker, passed, records, faults>>
  BY DEF RequestAdministratorDeletion
<1>2. asset' = RequestDeletion(asset, "ADMIN") /\ cleanup' = Ended("OPEN")
  BY <1>1 DEF ScheduleDeletion
<1>3. asset \in AssetRow
  BY DEF AssetInv, TypeOK
<1> QED
  BY <1>1, <1>2, <1>3, Scheduled

LEMMA ExpireDueKeeps ==
  ASSUME AssetInv, ExpireDue
  PROVE  AssetInv'
<1>1. /\ asset.deletion = None /\ ScheduleDeletion(asset, "RETENTION")
      /\ UNCHANGED <<rights, objects, store, results, op, worker, passed, records, faults>>
  BY DEF ExpireDue, ClaimExpiredAssets
<1>2. asset' = RequestDeletion(asset, "RETENTION") /\ cleanup' = Ended("OPEN")
  BY <1>1 DEF ScheduleDeletion
<1>3. asset \in AssetRow
  BY DEF AssetInv, TypeOK
<1> QED
  BY <1>1, <1>2, <1>3, Scheduled

\* A step of the deletion executor, with what it has to show: no worker moves.
LEMMA DeletionMoves ==
  ASSUME AssetInv, UNCHANGED <<rights, results, op, worker, passed, records, faults>>,
         asset' \in AssetRow, asset'.class = asset.class, asset'.deletion = asset.deletion,
         asset'.status = "BLOCKED" <=> asset'.reason # None,
         objects' \in ObjectRows, store' \in ObjectStore,
         cleanup' \in Cleanup, cleanup'.status # "NONE", cleanup.status # "NONE",
         Forward, Facts'
  PROVE  AssetInv'
<1>1. AssetTable'
  BY DEF AssetTable, AssetInv, TypeOK
<1>2. RowsTyped'
  BY <1>1 DEF RowsTyped, AssetInv, TypeOK
<1>3. Counted'
  BY DEF Counted, AttemptsInOrder, AssetInv, TypeOK
<1>4. worker' \in [Workers -> WorkerState] /\ \A v \in Workers : WorkerInv(v)'
  BY WorkersWait DEF AssetInv
<1> QED
  BY <1>2, <1>3, <1>4 DEF AssetInv, TypeOK, RowsTyped, Facts, Counted

\* The deletion goes on with no change of a row or an object.
LEMMA DeletionGoesOn ==
  ASSUME AssetInv, UNCHANGED <<asset, rights, objects, store, results, op, worker, passed, records, faults>>,
         cleanup' \in Cleanup, cleanup'.status # "NONE", cleanup.status # "NONE", cleanup'.pc = "idle"
  PROVE  AssetInv'
<1>1. (\A s \in StageNames : HasPassed(s)' <=> HasPassed(s)) /\ (Promoted' <=> Promoted) /\ (Usable' <=> Usable)
  BY DEF HasPassed, Promoted, Usable, RightsBlocked
<1>2. Forward
  BY <1>1 DEF Forward, Due
<1>3. Facts'
  BY <1>1 DEF Facts, AssetInv, VersionsIssued, RowsFollowStore, TargetsMarked, RightsFollowPromotion,
     ValidatedBeforeUse, ControlledContentKept, DeletedHasNoObjects
<1>4. asset' \in AssetRow /\ (asset'.status = "BLOCKED" <=> asset'.reason # None)
  BY DEF AssetInv, TypeOK, AssetTable
<1>5. objects' \in ObjectRows /\ store' \in ObjectStore
  BY DEF AssetInv, TypeOK
<1> QED
  BY <1>2, <1>3, <1>4, <1>5, DeletionMoves

LEMMA PrepareDeletionKeeps ==
  ASSUME AssetInv, PrepareDeletion
  PROVE  AssetInv'
<1>1. /\ cleanup.status = "OPEN" /\ cleanup.pc = "idle" /\ cleanup \in Cleanup
      /\ UNCHANGED <<asset, rights, store, results, op, worker, passed, records, faults>>
  BY DEF PrepareDeletion, AssetInv, TypeOK
<1>2. CASE UNCHANGED objects /\ \E s \in {"FAILED", "DONE"} : cleanup' = Ended(s)
  <2>1. cleanup' \in Cleanup /\ cleanup'.status # "NONE" /\ cleanup'.pc = "idle"
    BY <1>2 DEF Cleanup, Ended
  <2> QED
    BY <2>1, <1>1, <1>2, DeletionGoesOn
<1>3. CASE /\ DeletionIdentity /\ asset.status # "DELETED"
           /\ objects' = [objects EXCEPT !.source = Pending(@), !.controlled = Pending(@)]
           /\ cleanup' = [cleanup EXCEPT !.pc = "prepared",
                 !.targets = {o \in {"source", "controlled"} : objects[o] \notin {"NONE", "DELETED"}}]
  <2>1. /\ cleanup' \in Cleanup /\ cleanup'.status = "OPEN" /\ cleanup'.pc = "prepared"
        /\ "controlled" \in cleanup'.targets => objects.controlled \notin {"NONE", "DELETED"}
    BY <1>1, <1>3 DEF Cleanup
  <2>2. /\ objects' \in ObjectRows /\ objects'.version = objects.version
        /\ objects'.source = "DELETED" <=> objects.source = "DELETED"
        /\ objects'.controlled # "CONTROLLED"
        /\ objects'.controlled = "NONE" <=> objects.controlled = "NONE"
        /\ objects.controlled \notin {"NONE", "DELETED"} => objects'.controlled = "DELETE_PENDING"
    BY <1>3 DEF AssetInv, TypeOK, ObjectRows, Pending
  <2>3. \A s \in StageNames : HasPassed(s)' <=> HasPassed(s)
    BY <1>1 DEF HasPassed
  <2>4. (Promoted' <=> Promoted) /\ (Usable' <=> Usable)
    BY <1>1, <2>2, <2>3 DEF Promoted, Usable, RightsBlocked
  <2>5. Forward
    BY <1>1, <2>2, <2>3 DEF Forward, Due
  <2>6. TargetsMarked'
    BY <2>1, <2>2 DEF TargetsMarked
  <2>7. VersionsIssued' /\ RowsFollowStore' /\ ControlledContentKept' /\ DeletedHasNoObjects'
    BY <1>1, <1>3, <2>1, <2>2 DEF VersionsIssued, RowsFollowStore, ControlledContentKept, DeletedHasNoObjects, AssetInv
  <2>8. Facts'
    BY <1>1, <2>4, <2>6, <2>7 DEF Facts, AssetInv, RightsFollowPromotion, ValidatedBeforeUse
  <2>9. asset' \in AssetRow /\ (asset'.status = "BLOCKED" <=> asset'.reason # None)
    BY <1>1 DEF AssetInv, TypeOK, AssetTable
  <2>10. store' \in ObjectStore
    BY <1>1 DEF AssetInv, TypeOK
  <2> QED
    BY <1>1, <2>1, <2>2, <2>5, <2>8, <2>9, <2>10, DeletionMoves
<1> QED
  BY <1>2, <1>3 DEF PrepareDeletion

\* The deletion of one of the two objects, in the storage.
LEMMA ObjectDeleted ==
  ASSUME AssetInv, cleanup.pc \in {"prepared", "halfway"},
         UNCHANGED <<asset, rights, objects, results, op, worker, passed, records, faults>>,
         NEW pc \in {"halfway", "deleted"}, cleanup' = [cleanup EXCEPT !.pc = pc],
         store' \in ObjectStore, store'.fresh = store.fresh, store'.dest \subseteq store.dest,
         store'.source = "upload" => store.source = "upload",
         "controlled" \notin cleanup.targets => store'.dest = store.dest,
         "source" \in cleanup.targets => store'.source # "upload",
         pc = "deleted" /\ "controlled" \in cleanup.targets => objects.version \notin store'.dest
  PROVE  AssetInv'
<1>1. /\ cleanup.status = "OPEN" /\ cleanup \in Cleanup
      /\ "controlled" \in cleanup.targets => objects.controlled \in {"DELETE_PENDING", "DELETED"}
  BY DEF AssetInv, TypeOK, TargetsMarked
<1>2. cleanup' \in Cleanup /\ cleanup'.status = "OPEN" /\ cleanup'.pc = pc /\ cleanup'.targets = cleanup.targets
  BY <1>1 DEF Cleanup
<1>3. \A s \in StageNames : HasPassed(s)' <=> HasPassed(s)
  BY DEF HasPassed
<1>4. (Promoted' <=> Promoted) /\ (Usable' <=> Usable)
  BY <1>3 DEF Promoted, Usable, RightsBlocked
<1>5. Forward
  BY <1>1, <1>3 DEF Forward, Due
<1>6. TargetsMarked'
  BY <1>1, <1>2 DEF TargetsMarked
<1>7. VersionsIssued' /\ RowsFollowStore' /\ ControlledContentKept' /\ DeletedHasNoObjects'
  BY <1>1, <1>2 DEF VersionsIssued, RowsFollowStore, ControlledContentKept, DeletedHasNoObjects, AssetInv
<1>8. Facts'
  BY <1>4, <1>6, <1>7 DEF Facts, AssetInv, RightsFollowPromotion, ValidatedBeforeUse
<1>9. asset' \in AssetRow /\ (asset'.status = "BLOCKED" <=> asset'.reason # None)
  BY DEF AssetInv, TypeOK, AssetTable
<1>10. objects' \in ObjectRows
  BY DEF AssetInv, TypeOK
<1> QED
  BY <1>1, <1>2, <1>5, <1>8, <1>9, <1>10, DeletionMoves

LEMMA DeleteQuarantinedKeeps ==
  ASSUME AssetInv, DeleteQuarantined
  PROVE  AssetInv'
<1>1. /\ cleanup.pc = "prepared" /\ cleanup' = [cleanup EXCEPT !.pc = "halfway"] /\ store \in ObjectStore
      /\ UNCHANGED <<asset, rights, objects, results, op, worker, passed, records, faults>>
  BY DEF DeleteQuarantined, AssetInv, TypeOK
<1>2. CASE "source" \in cleanup.targets
  <2>1. store' \in ObjectStore /\ store'.source # "upload" /\ store'.dest = store.dest /\ store'.fresh = store.fresh
    BY <1>1, <1>2, SourceDeleted DEF DeleteQuarantined
  <2> QED
    BY <1>1, <2>1, ObjectDeleted
<1>3. CASE "source" \notin cleanup.targets
  <2>1. UNCHANGED store
    BY <1>3 DEF DeleteQuarantined
  <2> QED
    BY <1>1, <1>3, <2>1, ObjectDeleted
<1> QED
  BY <1>2, <1>3

LEMMA DeleteControlledKeeps ==
  ASSUME AssetInv, DeleteControlled
  PROVE  AssetInv'
<1>1. /\ cleanup.pc = "halfway" /\ cleanup' = [cleanup EXCEPT !.pc = "deleted"] /\ store \in ObjectStore
      /\ store' = [store EXCEPT !.dest = IF "controlled" \in cleanup.targets THEN @ \ {objects.version} ELSE @]
      /\ "source" \in cleanup.targets => store.source # "upload"
      /\ UNCHANGED <<asset, rights, objects, results, op, worker, passed, records, faults>>
  BY DEF DeleteControlled, AssetInv, TypeOK, RowsFollowStore
<1>2. /\ store' \in ObjectStore /\ store'.source = store.source /\ store'.fresh = store.fresh
      /\ store'.dest = IF "controlled" \in cleanup.targets THEN store.dest \ {objects.version} ELSE store.dest
  BY <1>1 DEF ObjectStore
<1> QED
  BY <1>1, <1>2, ObjectDeleted

LEMMA DeletionFailsKeeps ==
  ASSUME AssetInv, DeletionFails
  PROVE  AssetInv'
<1>1. /\ cleanup.status = "OPEN" /\ cleanup' = Ended("OPEN")
      /\ UNCHANGED <<asset, rights, objects, store, results, op, worker, passed, records, faults>>
  BY DEF DeletionFails, AssetInv, TypeOK, TargetsMarked
<1>2. cleanup' \in Cleanup /\ cleanup'.status = "OPEN" /\ cleanup'.pc = "idle"
  BY <1>1 DEF Cleanup, Ended
<1> QED
  BY <1>1, <1>2, DeletionGoesOn

LEMMA CompleteDeletionKeeps ==
  ASSUME AssetInv, CompleteDeletion
  PROVE  AssetInv'
<1> DEFINE rows == [objects EXCEPT
                      !.source = IF "source" \in cleanup.targets THEN "DELETED" ELSE @,
                      !.controlled = IF "controlled" \in cleanup.targets THEN "DELETED" ELSE @]
           late == rows.source # "DELETED" \/ rows.controlled \notin {"NONE", "DELETED"}
<1>1. /\ cleanup.pc = "deleted" /\ cleanup.status = "OPEN" /\ cleanup \in Cleanup
      /\ UNCHANGED <<rights, store, results, op, worker, passed, records, faults>>
  BY DEF CompleteDeletion, AssetInv, TypeOK, TargetsMarked
<1>2. CASE UNCHANGED rowVars /\ \E s \in {"OPEN", "FAILED"} : cleanup' = Ended(s)
  <2>1. cleanup' \in Cleanup /\ cleanup'.status # "NONE" /\ cleanup'.pc = "idle"
    BY <1>2 DEF Cleanup, Ended
  <2> QED
    BY <2>1, <1>1, <1>2, DeletionGoesOn DEF rowVars
<1>3. CASE ~late /\ objects' = rows /\ asset' = Deleted(asset) /\ cleanup' = Ended("DONE")
  <2>1. cleanup' \in Cleanup /\ cleanup'.status = "DONE" /\ cleanup'.pc = "idle"
    BY <1>3 DEF Cleanup, Ended
  <2>2. /\ asset' \in AssetRow /\ asset'.class = asset.class /\ asset'.deletion = asset.deletion
        /\ asset'.status = "DELETED" /\ asset'.reason = None
    BY <1>3 DEF AssetInv, TypeOK, AssetRow, Status, Deleted
  <2>3. objects \in ObjectRows
    BY DEF AssetInv, TypeOK
  <2>4. /\ objects' \in ObjectRows /\ objects'.version = objects.version
        /\ objects'.source = "DELETED" /\ objects'.controlled \in {"NONE", "DELETED"}
        /\ objects'.controlled = "NONE" => objects.controlled = "NONE"
        /\ objects.controlled = "NONE" /\ "controlled" \notin cleanup.targets => objects'.controlled = "NONE"
        /\ objects.controlled # "NONE" => objects'.controlled # "NONE"
        /\ objects.source = "DELETED" \/ "source" \in cleanup.targets
    BY <1>3, <2>3 DEF ObjectRows
  <2>5. /\ store.source # "upload"
        /\ objects.controlled # "NONE" => objects.version \notin store.dest
        /\ objects.controlled = "NONE" => objects.version = None
    <3>1. objects.controlled # "NONE" => objects.controlled = "DELETED" \/ "controlled" \in cleanup.targets
      BY <1>3, <2>3 DEF ObjectRows
    <3> QED
      BY <3>1, <1>1, <2>4 DEF AssetInv, VersionsIssued, RowsFollowStore
  <2>12. objects.version \notin store.dest
    BY <2>5, AssetAssumption DEF AssetInv, TypeOK, ObjectStore, AssetAssumption
  <2>6. \A s \in StageNames : HasPassed(s)' <=> HasPassed(s)
    BY <1>1 DEF HasPassed
  <2>7. Forward
    BY <1>1, <2>2, <2>4, <2>6 DEF Forward, Due
  <2>8. ~Usable'
    BY <2>2 DEF Usable, RightsBlocked
  <2>9. VersionsIssued' /\ RowsFollowStore' /\ TargetsMarked' /\ ControlledContentKept' /\ DeletedHasNoObjects'
    BY <1>1, <2>1, <2>2, <2>4, <2>5, <2>12 DEF AssetInv, VersionsIssued, RowsFollowStore, TargetsMarked,
       ControlledContentKept, DeletedHasNoObjects
  <2>10. Facts'
    BY <2>2, <2>8, <2>9 DEF Facts, RightsFollowPromotion, ValidatedBeforeUse
  <2>11. store' \in ObjectStore
    BY <1>1 DEF AssetInv, TypeOK
  <2> QED
    BY <1>1, <2>1, <2>2, <2>4, <2>7, <2>10, <2>11, DeletionMoves
<1>4. \/ UNCHANGED rowVars /\ cleanup' \in {Ended("FAILED"), Ended("OPEN")}
      \/ ~late /\ objects' = rows /\ asset' = Deleted(asset) /\ cleanup' = Ended("DONE")
  BY DEF CompleteDeletion
<1> QED
  BY <1>2, <1>3, <1>4

-----------------------------------------------------------------------------
(* Time, and the whole system *)

\* Time moves: the deadline of a TASK asset passes, or a grant becomes active or ends.
LEMMA TimeKeeps ==
  ASSUME AssetInv, RetentionDeadlinePasses \/ RightsPhaseChanges
  PROVE  AssetInv'
<1>1. CASE RetentionDeadlinePasses
  <2>1. passed' = TRUE /\ UNCHANGED <<asset, rights, objects, store, results, op, worker, cleanup, records, faults>>
    BY <1>1 DEF RetentionDeadlinePasses
  <2>2. (\A s \in StageNames : HasPassed(s)' <=> HasPassed(s)) /\ (Promoted' <=> Promoted) /\ (Usable' <=> Usable)
    BY <2>1 DEF HasPassed, Promoted, Usable, RightsBlocked
  <2>3. Forward
    BY <2>1, <2>2 DEF Forward, Due
  <2>4. Facts'
    BY <2>1, <2>2 DEF Facts, AssetInv, VersionsIssued, RowsFollowStore, TargetsMarked, RightsFollowPromotion,
       ValidatedBeforeUse, ControlledContentKept, DeletedHasNoObjects
  <2>5. RowsTyped' /\ Counted'
    BY <2>1 DEF RowsTyped, Counted, AttemptsInOrder, AssetTable, AssetInv, TypeOK
  <2>6. worker' \in [Workers -> WorkerState] /\ \A v \in Workers : WorkerInv(v)'
    BY <2>1, <2>3, WorkersWait DEF AssetInv
  <2> QED
    BY <2>4, <2>5, <2>6 DEF AssetInv, TypeOK, RowsTyped, Facts, Counted
<1>2. CASE RightsPhaseChanges
  <2>1. /\ rights.decision = "GRANT"
        /\ rights' = [rights EXCEPT !.phase = IF @ = "FUTURE" THEN "ACTIVE" ELSE "ENDED"]
        /\ UNCHANGED <<asset, objects, store, results, op, worker, cleanup, passed, records, faults>>
    BY <1>2 DEF RightsPhaseChanges
  <2>2. rights \in Grants
    BY <2>1 DEF AssetInv, TypeOK, RightsRecord
  <2>3. rights' \in RightsRecord
    BY <2>1, <2>2 DEF RightsRecord, Grants
  <2>4. (Promoted' <=> Promoted) /\ (Usable' <=> Usable)
    BY <2>1 DEF HasPassed, Promoted, Usable, RightsBlocked
  <2>5. RightsFollowPromotion'
    BY <2>1, <2>4 DEF AssetInv, RightsFollowPromotion
  <2>6. AssetTable' /\ asset' \in AssetRow /\ cleanup' \in Cleanup /\ records' \in 0..MaxRecords
    BY <2>1 DEF AssetTable, AssetInv, TypeOK
  <2>7. Usable' => Promoted
    BY <2>4 DEF AssetInv, ValidatedBeforeUse
  <2> QED
    BY <2>1, <2>3, <2>5, <2>6, <2>7, RightsMove
<1> QED
  BY <1>1, <1>2

\* The holder of the URL puts the object again: no longer the validated upload.
LEMMA LatePutKeeps ==
  ASSUME AssetInv, LatePut
  PROVE  AssetInv'
<1>1. /\ store.source = "none" /\ store \in ObjectStore /\ store' = [store EXCEPT !.source = "late"]
      /\ UNCHANGED <<asset, rights, objects, results, op, worker, cleanup, passed, records, faults>>
  BY DEF LatePut, AssetInv, TypeOK
<1>2. store' \in ObjectStore /\ store'.source = "late" /\ store'.dest = store.dest /\ store'.fresh = store.fresh
  BY <1>1 DEF ObjectStore
<1>3. (\A s \in StageNames : HasPassed(s)' <=> HasPassed(s)) /\ (Promoted' <=> Promoted) /\ (Usable' <=> Usable)
  BY <1>1 DEF HasPassed, Promoted, Usable, RightsBlocked
<1>4. Forward
  BY <1>1, <1>2, <1>3 DEF Forward, Due
<1>5. Facts'
  BY <1>1, <1>2, <1>3 DEF Facts, AssetInv, VersionsIssued, RowsFollowStore, TargetsMarked, RightsFollowPromotion,
     ValidatedBeforeUse, ControlledContentKept, DeletedHasNoObjects
<1>6. RowsTyped' /\ Counted'
  BY <1>1, <1>2 DEF RowsTyped, Counted, AttemptsInOrder, AssetTable, AssetInv, TypeOK
<1>7. worker' \in [Workers -> WorkerState] /\ \A v \in Workers : WorkerInv(v)'
  BY <1>1, <1>4, WorkersWait DEF AssetInv
<1> QED
  BY <1>5, <1>6, <1>7 DEF AssetInv, TypeOK, RowsTyped, Facts, Counted

\* The initial state: nothing validated, nothing promoted, nobody at work.
LEMMA InitInvariant == Init => AssetInv
<1> SUFFICES ASSUME Init
             PROVE  AssetInv
  OBVIOUS
<1>1. asset \in AssetRow /\ asset.status = "QUARANTINED" /\ asset.reason = None /\ asset.deletion = None
  BY DEF Init, AssetRow, Status
<1>2. AssetTable
  BY <1>1 DEF Init, AssetTable, Ended
<1>3. rights = NoRecord /\ rights \in RightsRecord /\ rights.decision = "NONE"
  BY DEF Init, NoRecord, RightsRecord
<1>4. objects \in ObjectRows /\ objects.source = "QUARANTINED" /\ objects.controlled = "NONE" /\ objects.version = None
  BY DEF Init, ObjectRows
<1>5. store \in ObjectStore /\ store.dest = {} /\ store.fresh = Versions
  BY DEF Init, ObjectStore
<1>6. results \in [1..MaxAttempts -> ValidationResults]
  BY StageTypes DEF Init
<1>7. op \in Operation /\ AttemptsInOrder
  BY AssetAssumption DEF Init, Operation, AttemptsInOrder, AssetAssumption
<1>8. worker \in [Workers -> WorkerState] /\ \A w \in Workers : worker[w].pc = "idle"
  BY StageTypes DEF Init, Idle
<1>9. cleanup \in Cleanup /\ cleanup.pc = "idle" /\ cleanup.status = "NONE"
  BY DEF Init, Cleanup, Ended
<1>10. passed \in BOOLEAN /\ records \in 0..MaxRecords /\ faults \in 0..MaxFaults
  <2>1. MaxRecords \in Nat /\ MaxFaults \in Nat
    BY AssetAssumption DEF AssetAssumption
  <2>2. records = 0 /\ faults = 0
    BY DEF Init
  <2>3. records \in 0..MaxRecords /\ faults \in 0..MaxFaults
    BY <2>1, <2>2
  <2>4. passed \in BOOLEAN
    BY DEF Init
  <2> QED
    BY <2>3, <2>4
<1>11. TypeOK
  BY <1>1, <1>2, <1>3, <1>4, <1>5, <1>6, <1>7, <1>8, <1>9, <1>10 DEF TypeOK
<1>12. \A w \in Workers : WorkerInv(w)
  BY <1>8 DEF WorkerInv, StagesInOrder, SeenGone, CopyKept
<1>13. VersionsIssued /\ RowsFollowStore /\ TargetsMarked /\ ControlledContentKept
  BY <1>4, <1>5, <1>9, AssetAssumption DEF VersionsIssued, RowsFollowStore, TargetsMarked, ControlledContentKept, AssetAssumption
<1>14. RightsFollowPromotion /\ ValidatedBeforeUse /\ DeletedHasNoObjects
  BY <1>1, <1>3 DEF RightsFollowPromotion, ValidatedBeforeUse, DeletedHasNoObjects, Usable, RightsBlocked
<1> QED
  BY <1>7, <1>11, <1>12, <1>13, <1>14 DEF AssetInv

\* Every step of the system, and no step at all, keeps the invariant.
LEMMA InvariantStep == AssetInv /\ [Next]_vars => AssetInv'
<1> SUFFICES ASSUME AssetInv, [Next]_vars
             PROVE  AssetInv'
  OBVIOUS
<1>1. CASE OperationStep
  BY <1>1, OperationStepKeeps
<1>2. CASE \E w \in Workers : ValidationStep(w)
  BY <1>2, ValidationStepKeeps
<1>3. CASE RightsStep
  BY <1>3, GrantKeeps, RevokeKeeps, AdministratorBlockKeeps, ActivateRightsKeeps, ExpireRightsKeeps DEF RightsStep
<1>4. CASE DeletionStep
  BY <1>4, RequestAdministratorDeletionKeeps, ExpireDueKeeps, PrepareDeletionKeeps, DeleteQuarantinedKeeps,
     DeleteControlledKeeps, DeletionFailsKeeps, CompleteDeletionKeeps DEF DeletionStep
<1>5. CASE RetentionDeadlinePasses \/ RightsPhaseChanges \/ LatePut
  BY <1>5, TimeKeeps, LatePutKeeps
<1>6. CASE UNCHANGED vars
  <2>1. UNCHANGED <<asset, rights, objects, store, results, op, worker, cleanup, passed, records, faults>>
    BY <1>6 DEF vars
  <2>2. Forward /\ Facts' /\ RowsTyped'
    BY <2>1, RowsUntouched
  <2>3. Counted'
    BY <2>1 DEF Counted, AttemptsInOrder, AssetInv, TypeOK
  <2>4. worker' \in [Workers -> WorkerState] /\ \A v \in Workers : WorkerInv(v)'
    BY <2>1, <2>2, WorkersWait DEF AssetInv
  <2> QED
    BY <2>2, <2>3, <2>4 DEF AssetInv, TypeOK, RowsTyped, Facts, Counted
<1> QED
  BY <1>1, <1>2, <1>3, <1>4, <1>5, <1>6 DEF Next

-----------------------------------------------------------------------------
(* Theorems *)

\* The invariant holds of every behaviour: any number of workers, attempts, rights records
\* and faults, any order of the mandatory stages.
THEOREM AssetInvariant == Spec => []AssetInv
<1> QED
  BY InitInvariant, InvariantStep, PTL DEF Spec

\* The tables keep their types and constraints, and no attempt beyond the limit starts.
THEOREM AssetTypes == Spec => []TypeOK
<1>1. AssetInv => TypeOK
  BY DEF AssetInv
<1> QED
  BY <1>1, AssetInvariant, PTL

\* An asset that rights can make usable has passed every mandatory stage and was promoted,
\* whatever executors were overtaken, replayed or crashed on the way (_converge, _persist_verified).
THEOREM UsableIsValidated == Spec => []ValidatedBeforeUse
<1>1. AssetInv => ValidatedBeforeUse
  BY DEF AssetInv
<1> QED
  BY <1>1, AssetInvariant, PTL

\* The version that the row of a promoted asset names is in storage, however many promotions
\* raced for it (reconcile_concurrent_destination, the deletion of the targets).
THEOREM ContentIsKept == Spec => []ControlledContentKept
<1>1. AssetInv => ControlledContentKept
  BY DEF AssetInv
<1> QED
  BY <1>1, AssetInvariant, PTL

\* A DELETED asset has no object row left, its upload is gone and so is the version its row
\* names, whichever executor completed the deletion, after whatever part of it had failed and
\* whenever the holder of the URL put the object again (complete_deletion, expire_retention).
THEOREM DeletedIsGone == Spec => []DeletedHasNoObjects
<1>1. AssetInv => DeletedHasNoObjects
  BY DEF AssetInv
<1> QED
  BY <1>1, AssetInvariant, PTL
=============================================================================
