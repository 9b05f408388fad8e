------------------------- MODULE VisionAnalysisProofs -------------------------
(***************************************************************************)
(* Proofs about VisionAnalysis, for every number of workers, operations,   *)
(* attempts, repairs and faults.                                           *)
(*                                                                         *)
(* The argument: one worker executes an attempt.  A lease that ends is     *)
(* taken over by a reconciliation, after which the attempt never runs      *)
(* again, so the overtaken worker can neither submit nor publish: all it   *)
(* can do is to finish its bookkeeping at the keys of its own attempt.     *)
(* There it meets only recorded malformed answers, the call under way, and *)
(* nothing beyond it.  So the ledger of an attempt decides its operation   *)
(* the same whoever reads it.                                              *)
(***************************************************************************)
EXTENDS VisionAnalysis, SequenceTheorems, TLAPS

USE BriefAssumption, VisionAssumption

-----------------------------------------------------------------------------
(* Keys *)

LEMMA KeyParts ==
  ASSUME NEW k \in Keys
  PROVE  /\ k = <<k[1], k[2], k[3]>>
         /\ k[1] \in 1..MaxOperations /\ k[2] \in 1..(MaxAttempts + MaxReplays)
         /\ k[3] \in 0..MaxRepairs /\ k[1] \in Nat /\ k[2] \in Nat /\ k[3] \in Nat
  BY DEF Keys

LEMMA KeyMade ==
  ASSUME NEW o \in 1..MaxOperations, NEW n \in 1..(MaxAttempts + MaxReplays),
         NEW i \in 0..MaxRepairs
  PROVE  <<o, n, i>> \in Keys
  BY DEF Keys

LEMMA SameKey ==
  ASSUME NEW k \in Keys, NEW j \in Keys, k[1] = j[1], k[2] = j[2], k[3] = j[3]
  PROVE  k = j
  BY KeyParts

LEMMA WorkerFacts ==
  ASSUME VisionTypes, NEW w \in Workers
  PROVE  /\ worker[w] \in Executor /\ worker[w].calls \in Seq(CallStatus)
         /\ Len(worker[w].calls) \in Nat /\ worker[w].op \in Nat /\ worker[w].attempt \in Nat
         /\ DOMAIN worker[w].calls = 1..Len(worker[w].calls)
         /\ \A i \in 1..Len(worker[w].calls) : worker[w].calls[i] \in CallStatus
<1>1. worker[w] \in Executor
  BY DEF VisionTypes
<1>2. worker[w].calls \in Seq(CallStatus)
  BY <1>1 DEF Executor
<1> QED
  BY <1>1, <1>2, LenProperties, ElementOfSeq DEF Executor

LEMMA OperationFacts ==
  ASSUME VisionTypes
  PROVE  /\ operations \in Seq(AnalysisRow) /\ Len(operations) \in 0..MaxOperations
         /\ DOMAIN operations = 1..Len(operations)
         /\ \A o \in DOMAIN operations : operations[o] \in AnalysisRow
         /\ versions \in Seq(VersionRow) /\ Len(versions) \in Nat
         /\ DOMAIN versions = 1..Len(versions)
         /\ \A n \in DOMAIN versions : versions[n] \in VersionRow
<1>1. operations \in Seq(AnalysisRow) /\ versions \in Seq(VersionRow)
      /\ Len(operations) <= MaxOperations
  BY DEF VisionTypes, BriefTypes
<1> QED
  BY <1>1, LenProperties, ElementOfSeq

\* A worker works at keys of the ledger: the calls it has made, and the next.
LEMMA WorkerKey ==
  ASSUME VisionTypes, AttemptsBudgeted, NEW w \in Workers, Active(w), NEW i \in 0..MaxRepairs
  PROVE  /\ <<worker[w].op, worker[w].attempt, i>> \in KeysOf(w)
         /\ \A k \in KeysOf(w) : k[3] = i => k = <<worker[w].op, worker[w].attempt, i>>
<1> DEFINE o == worker[w].op
           n == worker[w].attempt
<1>1. o \in DOMAIN operations /\ n \in 1..operations[o].attempts
      /\ operations[o].attempts <= operations[o].budget
      /\ operations[o].budget <= MaxAttempts + MaxReplays
  BY DEF AttemptsBudgeted
<1>2. operations[o].attempts \in Nat /\ operations[o].budget \in Nat
  BY <1>1, OperationFacts DEF AnalysisRow
<1>3. o \in 1..MaxOperations /\ n \in 1..(MaxAttempts + MaxReplays)
  BY <1>1, <1>2, OperationFacts
<1> HIDE DEF o, n
<1>4. <<o, n, i>> \in Keys
  BY <1>3, KeyMade
<1>5. <<o, n, i>>[1] = o /\ <<o, n, i>>[2] = n /\ <<o, n, i>>[3] = i
  OBVIOUS
<1>6. KeysOf(w) = {k \in Keys : k[1] = o /\ k[2] = n}
  BY DEF KeysOf, o, n
<1>7. \A k \in KeysOf(w) : k[3] = i => k = <<o, n, i>>
  BY <1>4, <1>5, <1>6, SameKey
<1> QED
  BY <1>4, <1>5, <1>6, <1>7 DEF o, n

-----------------------------------------------------------------------------
(* What a step does to its worker *)

\* The worker goes on in its attempt.
Becomes(w, pc, kind, cs, result) ==
    /\ worker' \in [Workers -> Executor]
    /\ worker'[w].pc = pc /\ worker'[w].op = worker[w].op
    /\ worker'[w].attempt = worker[w].attempt /\ worker'[w].kind = kind
    /\ worker'[w].calls = cs /\ worker'[w].result = result
    /\ \A v \in Workers \ {w} : worker'[v] = worker[v]

LEMMA GotoBecomes ==
  ASSUME VisionTypes, NEW w \in Workers, NEW pc \in Executing \cup {"decide"}, Goto(w, pc)
  PROVE  Becomes(w, pc, worker[w].kind, worker[w].calls, worker[w].result)
  BY WorkerFacts DEF Goto, Becomes, VisionTypes, Executor, Executing

LEMMA FinishBecomes ==
  ASSUME VisionTypes, NEW w \in Workers,
         NEW result \in {"success", "wait", "unknown", "retry", "fail"}, Finish(w, result)
  PROVE  Becomes(w, "settle", worker[w].kind, worker[w].calls, result)
<1>1. worker' = [worker EXCEPT ![w] = [worker[w] EXCEPT !.pc = "settle", !.result = result]]
  BY DEF Finish, VisionTypes
<1>2. [worker[w] EXCEPT !.pc = "settle", !.result = result] \in Executor
  BY WorkerFacts DEF Executor
<1> QED
  BY <1>1, <1>2, WorkerFacts DEF Becomes, VisionTypes, Executor

LEMMA CalledBecomes ==
  ASSUME VisionTypes, NEW w \in Workers, NEW status \in CallStatus,
         NEW pc \in {"repair", "outcome"}, Called(w, status, pc)
  PROVE  Becomes(w, pc, worker[w].kind, Append(worker[w].calls, status), worker[w].result)
<1>1. Append(worker[w].calls, status) \in Seq(CallStatus)
  BY WorkerFacts, AppendProperties
<1>2. worker' = [worker EXCEPT ![w] = [worker[w] EXCEPT !.pc = pc,
                    !.calls = Append(worker[w].calls, status)]]
  BY DEF Called, VisionTypes
<1> DEFINE next == [worker[w] EXCEPT !.pc = pc, !.calls = Append(worker[w].calls, status)]
<1>3. next \in Executor /\ next.pc = pc /\ next.calls = Append(worker[w].calls, status)
      /\ next.op = worker[w].op /\ next.attempt = worker[w].attempt
      /\ next.kind = worker[w].kind /\ next.result = worker[w].result
  BY <1>1, WorkerFacts DEF Executor, Executing
<1> HIDE DEF next
<1> QED
  BY <1>2, <1>3 DEF Becomes, VisionTypes, next

LEMMA StoreBecomes ==
  ASSUME VisionTypes, NEW w \in Workers, NEW kind \in Kinds, Store(w, kind)
  PROVE  Becomes(w, "store", kind, worker[w].calls, worker[w].result)
<1>1. worker' = [worker EXCEPT ![w] = [worker[w] EXCEPT !.pc = "store", !.kind = kind]]
  BY DEF Store, VisionTypes
<1>2. [worker[w] EXCEPT !.pc = "store", !.kind = kind] \in Executor
  BY WorkerFacts DEF Executor, Executing
<1> QED
  BY <1>1, <1>2, WorkerFacts DEF Becomes, VisionTypes, Executor

LEMMA ResultBecomes ==
  ASSUME VisionTypes, NEW w \in Workers, NEW pc \in {"mark", "decide"},
         NEW result \in {"none", "written", "refused", "lost", "response", "intended"},
         worker' = [worker EXCEPT ![w].pc = pc, ![w].result = result]
  PROVE  Becomes(w, pc, worker[w].kind, worker[w].calls, result)
<1> DEFINE next == [worker[w] EXCEPT !.pc = pc, !.result = result]
<1>1. worker' = [worker EXCEPT ![w] = next]
  BY DEF VisionTypes
<1>2. next \in Executor /\ next.pc = pc /\ next.op = worker[w].op
      /\ next.attempt = worker[w].attempt /\ next.kind = worker[w].kind
      /\ next.calls = worker[w].calls /\ next.result = result
  BY WorkerFacts DEF Executor, Executing
<1> HIDE DEF next
<1> QED
  BY <1>1, <1>2 DEF Becomes, VisionTypes

-----------------------------------------------------------------------------
(* The call under way *)

\* The key of the call an executor is at.
Current(w) == <<worker[w].op, worker[w].attempt, Recorded(w)>>

LEMMA CurrentKey ==
  ASSUME VisionTypes, AttemptsBudgeted, NEW w \in Workers, Executes(w), Progress(w)
  PROVE  /\ Recorded(w) \in 0..MaxRepairs /\ Recorded(w) \in Nat
         /\ Current(w) \in KeysOf(w) /\ Current(w) \in Keys
         /\ \A k \in KeysOf(w) : k[3] = Recorded(w) => k = Current(w)
         /\ Current(w)[1] = worker[w].op /\ Current(w)[2] = worker[w].attempt
         /\ Current(w)[3] = Recorded(w)
<1> DEFINE cs == worker[w].calls
<1>1. Len(cs) \in Nat /\ cs \in Seq(CallStatus) /\ MaxRepairs \in Nat
  BY WorkerFacts
<1>2. CASE worker[w].pc \in {"repair", "outcome"}
  <2>1. Len(cs) # 0
    BY <1>1, <1>2, EmptySeq DEF Progress
  <2>2. Len(cs) <= MaxRepairs + 1 /\ Recorded(w) = Len(cs) - 1
    BY <1>1, <1>2 DEF Progress, Recorded
  <2>3. Recorded(w) \in 0..MaxRepairs
    BY <1>1, <2>1, <2>2
  <2> QED
    BY <2>3, WorkerKey DEF Current, Active, Executes, Executing, KeysOf
<1>3. CASE worker[w].pc \notin {"repair", "outcome"}
  <2>1. Len(cs) <= MaxRepairs /\ Recorded(w) = Len(cs)
    BY <1>1, <1>3 DEF Progress, Recorded
  <2>2. Recorded(w) \in 0..MaxRepairs
    BY <1>1, <2>1
  <2> QED
    BY <2>2, WorkerKey DEF Current, Active, Executes, Executing, KeysOf
<1> QED
  BY <1>2, <1>3

LEMMA KeyIsCurrent ==
  ASSUME VisionTypes, NEW w \in Workers, worker[w].pc \notin {"repair", "outcome"}
  PROVE  Key(w) = Current(w) /\ Recorded(w) = Len(worker[w].calls)
  BY DEF Key, Current, Recorded

LEMMA LastIsCurrent ==
  ASSUME VisionTypes, NEW w \in Workers, worker[w].pc \in {"repair", "outcome"}
  PROVE  CallKey(w, Len(worker[w].calls)) = Current(w)
  BY DEF CallKey, Current, Recorded

\* The outcome of the call under way is one of its own kinds.
LEMMA LastIsStatus ==
  ASSUME VisionTypes, NEW w \in Workers, worker[w].calls # << >>
  PROVE  /\ Last(w) \in CallStatus /\ Last(w) = worker[w].calls[Len(worker[w].calls)]
         /\ Len(worker[w].calls) \in DOMAIN worker[w].calls
         /\ Len(worker[w].calls) >= 1
<1>1. worker[w].calls \in Seq(CallStatus) /\ Len(worker[w].calls) \in Nat
  BY WorkerFacts
<1>2. Len(worker[w].calls) # 0
  BY <1>1, EmptySeq
<1> QED
  BY <1>1, <1>2, WorkerFacts DEF Last, Outcomes

\* Recording the calls writes the outcome of the call under way, nothing else.
LEMMA StoreCallsOnce ==
  ASSUME VisionTypes, AttemptsBudgeted, NEW w \in Workers,
         worker[w].pc \in {"repair", "outcome"}, Progress(w), StoreCalls(w)
  PROVE  calls' = [calls EXCEPT ![Current(w)] = Last(w)]
<1> DEFINE cs == worker[w].calls
           n == Len(cs)
<1>1. cs # << >> /\ n \in Nat /\ n >= 1 /\ Last(w) = cs[n] /\ DOMAIN cs = 1..n
  BY WorkerFacts, LastIsStatus DEF Progress
<1>2. Recorded(w) = n - 1
  BY DEF Recorded
<1>3. \A i \in 1..(n - 1) : cs[i] = "MALFORMED"
  BY <1>2 DEF Progress
<1>4. \A k \in KeysOf(w) : k[3] < n - 1 => calls[k] = "MALFORMED"
  BY <1>2 DEF Progress
<1>5. Executes(w)
  BY DEF Executes, Executing
<1>6. calls \in [Keys -> CallStatus \cup {"none"}]
  BY DEF VisionTypes
<1> HIDE DEF cs, n
<1>7. ASSUME NEW k \in Keys
      PROVE  calls'[k] = IF k = Current(w) THEN Last(w) ELSE calls[k]
  <2>1. calls'[k] = IF k \in KeysOf(w) /\ k[3] + 1 \in DOMAIN cs THEN cs[k[3] + 1] ELSE calls[k]
    BY DEF StoreCalls, Outcomes, cs
  <2>2. k[3] \in Nat
    BY KeyParts
  <2>3. CASE k = Current(w)
    <3>1. k \in KeysOf(w) /\ k[3] = n - 1
      BY <1>2, <1>5, <2>3, CurrentKey
    <3>2. k[3] + 1 = n
      BY <3>1, <1>1
    <3> QED
      BY <2>1, <2>3, <3>1, <3>2, <1>1
  <2>4. CASE k # Current(w) /\ k \in KeysOf(w) /\ k[3] + 1 \in DOMAIN cs
    <3>1. k[3] # n - 1
      BY <2>4, <1>2, <1>5, CurrentKey
    <3>2. k[3] < n - 1 /\ k[3] + 1 \in 1..(n - 1)
      BY <2>2, <2>4, <3>1, <1>1
    <3> QED
      BY <2>1, <2>4, <3>2, <1>3, <1>4
  <2>5. CASE k # Current(w) /\ ~(k \in KeysOf(w) /\ k[3] + 1 \in DOMAIN cs)
    BY <2>1, <2>5
  <2> QED
    BY <2>3, <2>4, <2>5
<1>8. calls' = [k \in Keys |-> calls'[k]]
  BY DEF StoreCalls
<1> QED
  BY <1>6, <1>7, <1>8

-----------------------------------------------------------------------------
(* What an executor does to the ledger *)

WritesArtifact(w) ==
    /\ worker[w].pc \in {"store", "mark"}
    /\ \E state \in ArtifactState :
          /\ artifact' = [artifact EXCEPT ![Key(w)][worker[w].kind] = state]
          /\ state = "STORED" => <<Key(w), worker[w].kind>> \in objects
    /\ UNCHANGED <<intents, calls, dropped, objects, submitted>>

WritesObject(w) ==
    /\ worker[w].pc = "write"
    /\ objects' \in {objects, objects \cup {<<Key(w), worker[w].kind>>}}
    /\ UNCHANGED <<intents, calls, artifact, dropped, submitted>>

RecordsIntent(w) ==
    /\ worker[w].pc = "submit" /\ ExecutionIdentity(w)
    /\ intents' = intents \cup {Key(w)}
    /\ UNCHANGED <<calls, artifact, dropped, objects, submitted>>

Submits(w) ==
    /\ worker[w].pc = "send"
    /\ submitted' \in {submitted, submitted \cup {Key(w)}}
    /\ UNCHANGED <<intents, calls, artifact, dropped, objects>>

RecordsCall(w) ==
    /\ worker[w].pc \in {"repair", "outcome"} /\ CallsBound(w)
    /\ calls' = [calls EXCEPT ![Current(w)] = Last(w)]
    /\ UNCHANGED <<intents, artifact, dropped, objects, submitted>>

GivesUp(w) ==
    /\ dropped' = dropped \cup {Current(w)}
    /\ UNCHANGED <<intents, calls, artifact, objects, submitted>>

LedgerMove(w) ==
    \/ UNCHANGED ledger
    \/ WritesArtifact(w) \/ WritesObject(w) \/ RecordsIntent(w) \/ Submits(w) \/ RecordsCall(w)
    \/ GivesUp(w)

LedgerTypes ==
    /\ intents \subseteq Keys /\ dropped \subseteq Keys /\ submitted \subseteq intents /\ objects \subseteq Keys \X Kinds
    /\ calls \in [Keys -> CallStatus \cup {"none"}]
    /\ artifact \in [Keys -> [Kinds -> ArtifactState]]

\* An executor touches nothing but the call it is at.
KeyKept(k) == (k \in intents' <=> k \in intents) /\ calls'[k] = calls[k] /\ artifact'[k] = artifact[k]
OwnCallOnly(w) ==
    /\ LedgerTypes'
    /\ \A k \in Keys \ {Current(w)} : KeyKept(k)
    /\ intents \subseteq intents' /\ dropped \subseteq dropped' /\ objects \subseteq objects'
    /\ intents' # intents => ExecutionIdentity(w) /\ worker[w].pc = "submit"
    /\ calls'[Current(w)] # "none" =>
          /\ calls'[Current(w)] = Last(w) /\ worker[w].pc \in {"repair", "outcome"}
          /\ CallsBound(w) /\ artifact' = artifact /\ intents' = intents
    /\ \A kind \in Kinds :
          artifact'[Current(w)][kind] = "STORED" => <<Current(w), kind>> \in objects'

LEMMA ExecutorsCall ==
  ASSUME VisionTypes, AttemptsBudgeted, NEW w \in Workers, Executes(w), Progress(w)
  PROVE  /\ calls[Current(w)] = "none"
         /\ \A k \in KeysOf(w) : k[3] < Recorded(w) => calls[k] = "MALFORMED"
         /\ \A k \in KeysOf(w) : k[3] > Recorded(w) => Blank(k)
         /\ worker[w].pc \in {"begin", "source"} => Blank(Current(w))
         /\ Awaiting(w) => Current(w) \in intents
         /\ ~Awaiting(w) /\ worker[w].pc \notin {"repair", "outcome"} => Current(w) \notin intents
         /\ Awaiting(w) \/ worker[w].pc \in {"submit", "repair", "outcome"} =>
               artifact[Current(w)]["REQUEST"] = "STORED"
<1>1. Current(w) \in KeysOf(w) /\ Current(w)[3] = Recorded(w) /\ Recorded(w) \in Nat
  BY CurrentKey
<1>2. Recorded(w) >= Recorded(w)
  BY <1>1
<1> QED
  BY <1>1, <1>2 DEF Progress

LEMMA MoveIsOwn ==
  ASSUME VisionTypes, AttemptsBudgeted, WrittenExists, LedgerSound,
         NEW w \in Workers, Executes(w), Progress(w), LedgerMove(w)
  PROVE  OwnCallOnly(w)
<1> DEFINE c == Current(w)
<1>1. c \in Keys /\ calls[c] = "none"
  BY CurrentKey, ExecutorsCall
<1>2. LedgerTypes
  BY DEF VisionTypes, LedgerTypes
<1>3. \A k \in Keys, kind \in Kinds : artifact[k][kind] = "STORED" => <<k, kind>> \in objects
  BY DEF LedgerSound
<1>4. worker[w].kind \in Kinds
  BY WorkerFacts DEF Executor
<1>5. worker[w].pc \notin {"repair", "outcome"} => Key(w) = c
  BY KeyIsCurrent
<1> HIDE DEF c
<1>6. CASE UNCHANGED ledger
  BY <1>1, <1>2, <1>3, <1>6 DEF ledger, OwnCallOnly, LedgerTypes, KeyKept, c
<1>7. CASE WritesArtifact(w)
  <2>1. PICK state \in ArtifactState :
            /\ artifact' = [artifact EXCEPT ![c][worker[w].kind] = state]
            /\ state = "STORED" => <<c, worker[w].kind>> \in objects
    BY <1>5, <1>7 DEF WritesArtifact
  <2>2. UNCHANGED <<intents, calls, dropped, objects, submitted>>
    BY <1>7 DEF WritesArtifact
  <2>3. artifact' \in [Keys -> [Kinds -> ArtifactState]]
    BY <1>1, <1>2, <1>4, <2>1 DEF LedgerTypes
  <2>4. \A k \in Keys \ {c} : artifact'[k] = artifact[k]
    BY <1>2, <2>1 DEF LedgerTypes
  <2>5. \A kind \in Kinds : artifact'[c][kind] = IF kind = worker[w].kind THEN state
                                                 ELSE artifact[c][kind]
    BY <1>1, <1>2, <2>1 DEF LedgerTypes
  <2>6. \A kind \in Kinds : artifact'[c][kind] = "STORED" => <<c, kind>> \in objects'
    BY <1>1, <1>3, <2>1, <2>2, <2>5
  <2> QED
    BY <1>1, <1>2, <2>2, <2>3, <2>4, <2>6 DEF OwnCallOnly, LedgerTypes, KeyKept, c
<1>8. CASE WritesObject(w)
  <2>1. objects' \in {objects, objects \cup {<<c, worker[w].kind>>}}
        /\ UNCHANGED <<intents, calls, artifact, dropped, submitted>>
    BY <1>5, <1>8 DEF WritesObject
  <2> QED
    BY <1>1, <1>2, <1>3, <1>4, <2>1 DEF OwnCallOnly, LedgerTypes, KeyKept, c
<1>9. CASE RecordsIntent(w)
  <2>1. intents' = intents \cup {c} /\ UNCHANGED <<calls, artifact, dropped, objects, submitted>>
        /\ ExecutionIdentity(w) /\ worker[w].pc = "submit"
    BY <1>5, <1>9 DEF RecordsIntent
  <2> QED
    BY <1>1, <1>2, <1>3, <2>1 DEF OwnCallOnly, LedgerTypes, KeyKept, c
<1>10. CASE Submits(w)
  <2>1. submitted' \in {submitted, submitted \cup {c}}
        /\ UNCHANGED <<intents, calls, artifact, dropped, objects>>
    BY <1>5, <1>10 DEF Submits
  <2>2. c \in intents
    BY <1>10, ExecutorsCall DEF Submits, Awaiting, c
  <2> QED
    BY <1>1, <1>2, <1>3, <2>1, <2>2 DEF OwnCallOnly, LedgerTypes, KeyKept, c
<1>11. CASE RecordsCall(w)
  <2>1. calls' = [calls EXCEPT ![c] = Last(w)] /\ UNCHANGED <<intents, artifact, dropped, objects, submitted>>
        /\ CallsBound(w) /\ worker[w].pc \in {"repair", "outcome"}
    BY <1>11 DEF RecordsCall, c
  <2>2. Last(w) \in CallStatus
    BY <2>1, LastIsStatus DEF Progress
  <2> QED
    BY <1>1, <1>2, <1>3, <2>1, <2>2 DEF OwnCallOnly, LedgerTypes, KeyKept, c
<1>12. CASE GivesUp(w)
  <2>1. dropped' = dropped \cup {c} /\ UNCHANGED <<intents, calls, artifact, objects, submitted>>
    BY <1>12 DEF GivesUp, c
  <2> QED
    BY <1>1, <1>2, <1>3, <2>1 DEF OwnCallOnly, LedgerTypes, KeyKept, c
<1> QED
  BY <1>6, <1>7, <1>8, <1>9, <1>10, <1>11, <1>12 DEF LedgerMove

\* The attempt of a worker stays, so do its keys.
Stays(w) ==
    /\ worker' \in [Workers -> Executor]
    /\ worker'[w].op = worker[w].op /\ worker'[w].attempt = worker[w].attempt
    /\ \A v \in Workers \ {w} : worker'[v] = worker[v]

LEMMA SameKeys ==
  ASSUME NEW w \in Workers, worker'[w].op = worker[w].op, worker'[w].attempt = worker[w].attempt
  PROVE  KeysOf(w)' = KeysOf(w)
  BY DEF KeysOf

\* The executor goes on with the same call.
LEMMA SameCall ==
  ASSUME VisionTypes, AttemptsBudgeted, NEW w \in Workers, Executes(w), Progress(w),
         OwnCallOnly(w), Stays(w), worker'[w].calls = worker[w].calls,
         worker[w].pc \notin {"repair", "outcome"},
         worker'[w].pc \in Executing \ {"begin", "repair", "outcome"},
         worker'[w].pc = "source" => worker[w].pc = "begin" /\ UNCHANGED ledger,
         Awaiting(w)' => Current(w) \in intents',
         ~Awaiting(w)' => Current(w) \notin intents',
         Awaiting(w)' \/ worker'[w].pc = "submit" => artifact'[Current(w)]["REQUEST"] = "STORED"
  PROVE  Progress(w)'
<1> DEFINE c == Current(w)
           r == Len(worker[w].calls)
           cs == worker[w].calls
<1>1. Recorded(w) = r /\ Recorded(w)' = r /\ r \in Nat
  BY WorkerFacts DEF Recorded
<1>2. KeysOf(w)' = KeysOf(w)
  BY SameKeys DEF Stays
<1>3. /\ r <= MaxRepairs /\ \A i \in 1..r : cs[i] = "MALFORMED"
      /\ worker[w].pc = "begin" => cs = << >>
  BY <1>1 DEF Progress
<1>4. calls'[c] = "none" /\ c[3] = r
  BY <1>1, CurrentKey DEF OwnCallOnly
<1>5. \A k \in KeysOf(w) : k[3] # r => k # c /\ k \in Keys
  BY <1>4 DEF KeysOf
<1>6. \A k \in KeysOf(w) : k[3] = r => k = c
  BY <1>1, CurrentKey
<1>7. \A k \in KeysOf(w) : k[3] # r => KeyKept(k)
  BY <1>5 DEF OwnCallOnly
<1>8. \A k \in KeysOf(w) : /\ k[3] < r => calls[k] = "MALFORMED"
                           /\ k[3] > r => Blank(k) /\ calls[k] = "none"
                           /\ k[3] \in Nat
  <2>1. \A k \in KeysOf(w) : k[3] \in Nat
    BY KeyParts DEF KeysOf
  <2>2. \A k \in Keys : Blank(k) => calls[k] = "none"
    BY DEF Blank
  <2>3. \A k \in KeysOf(w) : /\ k[3] < r => calls[k] = "MALFORMED"
                             /\ k[3] > r => Blank(k)
    BY <1>1, ExecutorsCall
  <2> QED
    BY <2>1, <2>2, <2>3 DEF KeysOf
<1>9. \A k \in KeysOf(w) : k[3] > r => Blank(k)'
  BY <1>7, <1>8, <1>1 DEF KeyKept, Blank
<1>10. worker'[w].pc = "source" => \A k \in KeysOf(w) : Blank(k)'
  <2>1. worker'[w].pc = "source" => \A k \in KeysOf(w) : Blank(k)
    BY DEF Progress
  <2> QED
    BY <2>1 DEF Blank, ledger
<1>11. ASSUME NEW k \in KeysOf(w)
       PROVE  /\ k[3] < r => calls'[k] = "MALFORMED"
              /\ k[3] >= r => calls'[k] = "none"
              /\ k[3] > r \/ worker'[w].pc \in {"begin", "source"} => Blank(k)'
  <2>1. CASE k[3] = r
    <3>1. ~(k[3] < r) /\ ~(k[3] > r) /\ calls'[k] = "none"
      BY <2>1, <1>1, <1>4, <1>6
    <3> QED
      BY <3>1, <1>10
  <2>2. CASE k[3] # r
    <3>1. /\ k[3] < r => calls'[k] = "MALFORMED"
          /\ k[3] >= r => calls'[k] = "none"
      BY <2>2, <1>1, <1>7, <1>8 DEF KeyKept
    <3> QED
      BY <3>1, <1>9, <1>10
  <2> QED
    BY <2>1, <2>2
<1>12. worker'[w].pc = "source" => cs = << >>
  BY <1>3
<1>13. /\ worker'[w].pc \notin {"repair", "outcome", "begin"}
       /\ worker'[w].calls = cs
  BY DEF Executing
<1> HIDE DEF r, c, cs
<1> QED
  BY <1>1, <1>2, <1>3, <1>6, <1>11, <1>12, <1>13 DEF Progress, c, r, cs

\* The outcome of the call is known and not recorded yet.
LEMMA CallKnown ==
  ASSUME VisionTypes, AttemptsBudgeted, NEW w \in Workers, Executes(w), Progress(w),
         OwnCallOnly(w), Stays(w), NEW status \in CallStatus,
         worker'[w].calls = Append(worker[w].calls, status),
         worker[w].pc \notin {"begin", "source", "repair", "outcome"},
         worker'[w].pc \in {"repair", "outcome"},
         worker'[w].pc = "repair" => status = "MALFORMED" /\ Len(worker[w].calls) < MaxRepairs,
         artifact'[Current(w)]["REQUEST"] = "STORED"
  PROVE  Progress(w)'
<1> DEFINE c == Current(w)
           r == Len(worker[w].calls)
           cs == worker[w].calls
           ds == worker'[w].calls
<1>1. cs \in Seq(CallStatus) /\ r \in Nat
  BY WorkerFacts
<1>2. /\ Len(ds) = r + 1 /\ \A i \in 1..r : ds[i] = cs[i]
      /\ ds[r + 1] = status /\ ds # << >>
  BY <1>1, AppendProperties, EmptySeq
<1>3. Recorded(w) = r /\ Recorded(w)' = r
  BY <1>1, <1>2 DEF Recorded
<1>4. KeysOf(w)' = KeysOf(w)
  BY SameKeys DEF Stays
<1>5. r <= MaxRepairs /\ \A i \in 1..r : cs[i] = "MALFORMED"
  BY <1>3 DEF Progress
<1>6. calls'[c] = "none" /\ c[3] = r
  BY <1>3, CurrentKey DEF OwnCallOnly
<1>7. \A k \in KeysOf(w) : k[3] = r => k = c
  BY <1>3, CurrentKey
<1>8. \A k \in KeysOf(w) : k[3] # r => KeyKept(k)
  BY <1>6 DEF OwnCallOnly, KeysOf
<1>9. \A k \in KeysOf(w) : /\ k[3] < r => calls[k] = "MALFORMED"
                           /\ k[3] > r => Blank(k) /\ calls[k] = "none"
                           /\ k[3] \in Nat
  <2>1. \A k \in KeysOf(w) : k[3] \in Nat
    BY KeyParts DEF KeysOf
  <2>2. \A k \in Keys : Blank(k) => calls[k] = "none"
    BY DEF Blank
  <2>3. \A k \in KeysOf(w) : /\ k[3] < r => calls[k] = "MALFORMED"
                             /\ k[3] > r => Blank(k)
    BY <1>3, ExecutorsCall
  <2> QED
    BY <2>1, <2>2, <2>3 DEF KeysOf
<1>10. \A k \in KeysOf(w) : k[3] > r => Blank(k)'
  BY <1>8, <1>9, <1>1 DEF KeyKept, Blank
<1>11. ASSUME NEW k \in KeysOf(w)
       PROVE  /\ k[3] < r => calls'[k] = "MALFORMED"
              /\ k[3] >= r => calls'[k] = "none"
              /\ k[3] > r => Blank(k)'
  <2>1. CASE k[3] = r
    BY <2>1, <1>1, <1>6, <1>7
  <2>2. CASE k[3] # r
    BY <2>2, <1>1, <1>8, <1>9, <1>10 DEF KeyKept
  <2> QED
    BY <2>1, <2>2
<1>12. Last(w)' = status
  BY <1>2 DEF Last, Outcomes
<1>13. ~Awaiting(w)'
  BY DEF Awaiting
<1>14. worker'[w].pc \notin {"begin", "source"}
  OBVIOUS
<1>15. Len(ds) <= IF worker'[w].pc = "outcome" THEN MaxRepairs + 1 ELSE MaxRepairs
  BY <1>1, <1>2, <1>5
<1>16. \A i \in 1..r : ds[i] = "MALFORMED"
  BY <1>2, <1>5
<1> HIDE DEF r, c, cs, ds
<1> QED
  BY <1>2, <1>3, <1>4, <1>7, <1>11, <1>12, <1>13, <1>14, <1>15, <1>16 DEF Progress, c, r, cs, ds

\* A malformed answer is recorded and its repair begins.
LEMMA RepairBegins ==
  ASSUME VisionTypes, AttemptsBudgeted, NEW w \in Workers, Executes(w), Progress(w),
         OwnCallOnly(w), Stays(w), RecordsCall(w), worker[w].pc = "repair",
         worker'[w].pc = "store", worker'[w].kind = "REQUEST",
         worker'[w].calls = worker[w].calls
  PROVE  Progress(w)'
<1> DEFINE c == Current(w)
           n == Len(worker[w].calls)
           cs == worker[w].calls
<1>1. n \in Nat /\ n >= 1 /\ Last(w) = cs[n] /\ Last(w) = "MALFORMED"
  BY WorkerFacts, LastIsStatus DEF Progress
<1>2. Recorded(w) = n - 1 /\ Recorded(w)' = n
  BY <1>1 DEF Recorded
<1>3. KeysOf(w)' = KeysOf(w)
  BY SameKeys DEF Stays
<1>4. n <= MaxRepairs /\ \A i \in 1..(n - 1) : cs[i] = "MALFORMED"
  BY <1>2 DEF Progress
<1>5. \A i \in 1..n : cs[i] = "MALFORMED"
  <2> SUFFICES ASSUME NEW i \in 1..n
               PROVE  cs[i] = "MALFORMED"
    OBVIOUS
  <2>1. CASE i = n
    BY <2>1, <1>1
  <2>2. CASE i # n
    BY <2>2, <1>1, <1>4
  <2> QED
    BY <2>1, <2>2
<1>6. calls'[c] = "MALFORMED" /\ c[3] = n - 1 /\ c \in Keys
  BY <1>1, <1>2, CurrentKey DEF RecordsCall, VisionTypes
<1>7. \A k \in KeysOf(w) : k[3] = n - 1 => k = c
  BY <1>2, CurrentKey
<1>8. \A k \in KeysOf(w) : k[3] # n - 1 => KeyKept(k)
  BY <1>6 DEF OwnCallOnly, KeysOf
<1>9. \A k \in KeysOf(w) : /\ k[3] < n - 1 => calls[k] = "MALFORMED"
                           /\ k[3] > n - 1 => Blank(k)
                           /\ k[3] \in Nat
  BY <1>2, ExecutorsCall, KeyParts DEF KeysOf
<1>10. \A k \in KeysOf(w) : k[3] >= n => Blank(k)' /\ k \notin intents' /\ calls'[k] = "none"
  BY <1>8, <1>9, <1>1 DEF KeyKept, Blank
<1>11. \A k \in KeysOf(w) : k[3] < n => calls'[k] = "MALFORMED"
  <2> SUFFICES ASSUME NEW k \in KeysOf(w), k[3] < n
               PROVE  calls'[k] = "MALFORMED"
    OBVIOUS
  <2>1. CASE k[3] = n - 1
    BY <2>1, <1>6, <1>7
  <2>2. CASE k[3] # n - 1
    BY <2>2, <1>1, <1>8, <1>9 DEF KeyKept
  <2> QED
    BY <2>1, <2>2
<1>12. ~Awaiting(w)' /\ worker'[w].calls = cs
  BY DEF Awaiting
<1>13. \A k \in KeysOf(w) : k[3] > n => k[3] >= n
  BY <1>1, <1>9
<1>14. \A k \in KeysOf(w) : k[3] = n => k[3] >= n
  BY <1>1, <1>9
<1> HIDE DEF n, c, cs
<1> QED
  BY <1>2, <1>3, <1>4, <1>5, <1>10, <1>11, <1>12, <1>13, <1>14 DEF Progress, c, n, cs

-----------------------------------------------------------------------------
(* The steps of an executor *)

\* Every submission of the worker's attempt has a known outcome or was given up.
AttemptResolved(w) ==
    \A k \in KeysOf(w) \cap intents : calls[k] \notin {"none", "UNKNOWN"} \/ k \in dropped

WrittenBy(w) ==
    worker[w].pc = "mark" /\ worker[w].result = "written" => <<Key(w), worker[w].kind>> \in objects

ExecutorMove(w) ==
    /\ Executes(w) /\ OwnCallOnly(w) /\ Stays(w) /\ operations' = operations
    /\ worker'[w].pc \in Executing \cup {"settle"}
    /\ Executes(w)' => Progress(w)'
    /\ WrittenBy(w)'
    /\ Executes(w)' /\ Uncertain(w)' => Uncertain(w) \/ ExecutionIdentity(w)
    /\ worker'[w].pc = "settle" /\ worker'[w].result = "retry" =>
          AttemptResolved(w)'

\* A step of an executor that publishes nothing.
PlainMove(w) ==
    /\ ExecutorMove(w)
    /\ UNCHANGED rows /\ faults' \in Nat
    /\ worker'[w].pc = "settle" => worker'[w].result \notin {"success", "wait"}

Basics == VisionTypes /\ AttemptsBudgeted /\ WrittenExists /\ LedgerSound /\ ExecutorsProgress

LEMMA FaultCounted ==
  ASSUME VisionTypes, NEW bad \in BOOLEAN, Unless(bad)
  PROVE  faults' \in Nat
  BY DEF VisionTypes, BriefTypes, Unless, Fault

LEMMA BecomesStays ==
  ASSUME NEW w \in Workers, NEW pc, NEW kind, NEW cs, NEW result, Becomes(w, pc, kind, cs, result)
  PROVE  /\ Stays(w) /\ worker'[w].pc = pc /\ worker'[w].kind = kind
         /\ worker'[w].calls = cs /\ worker'[w].result = result
  BY DEF Becomes, Stays

LEMMA FinishMove ==
  ASSUME Basics, NEW w \in Workers, Executes(w), LedgerMove(w), operations' = operations,
         NEW result \in {"success", "wait", "unknown", "retry", "fail"}, Finish(w, result),
         result = "retry" => AttemptResolved(w)'
  PROVE  ExecutorMove(w) /\ worker'[w].pc = "settle" /\ worker'[w].result = result
<1>1. Stays(w) /\ worker'[w].pc = "settle" /\ worker'[w].result = result
  BY FinishBecomes, BecomesStays DEF Basics
<1>2. OwnCallOnly(w)
  BY MoveIsOwn DEF Basics, ExecutorsProgress
<1>3. ~Executes(w)' /\ WrittenBy(w)'
  BY <1>1 DEF Executes, Executing, WrittenBy
<1> QED
  BY <1>1, <1>2, <1>3 DEF ExecutorMove

\* Nothing of the attempt was submitted without a recorded answer.
LEMMA NotAwaitingResolved ==
  ASSUME Basics, NEW w \in Workers, Executes(w), ~Awaiting(w),
         worker[w].pc \notin {"repair", "outcome"}
  PROVE  AttemptResolved(w)
<1>1. /\ Current(w) \notin intents /\ Progress(w)
      /\ \A k \in KeysOf(w) : k[3] < Recorded(w) => calls[k] = "MALFORMED"
      /\ \A k \in KeysOf(w) : k[3] > Recorded(w) => Blank(k)
      /\ \A k \in KeysOf(w) : k[3] = Recorded(w) => k = Current(w)
      /\ Recorded(w) \in Nat
  BY ExecutorsCall, CurrentKey DEF Basics, ExecutorsProgress
<1>2. \A k \in KeysOf(w) : k[3] \in Nat
  BY KeyParts DEF KeysOf
<1>3. \A k \in KeysOf(w) \cap intents : k[3] < Recorded(w)
  BY <1>1, <1>2 DEF Blank
<1> QED
  BY <1>1, <1>3 DEF AttemptResolved

LEMMA ResolvedKept ==
  ASSUME NEW w \in Workers, Stays(w), UNCHANGED <<intents, calls, dropped>>, AttemptResolved(w)
  PROVE  AttemptResolved(w)'
<1>1. KeysOf(w)' = KeysOf(w)
  BY SameKeys DEF Stays
<1> QED
  BY <1>1 DEF AttemptResolved

\* A worker that gives up the answer of its call leaves nothing else open.
LEMMA GivenUpResolved ==
  ASSUME Basics, NEW w \in Workers, Executes(w), GivesUp(w), Stays(w)
  PROVE  AttemptResolved(w)'
<1>1. /\ Progress(w) /\ Recorded(w) \in Nat
      /\ \A k \in KeysOf(w) : k[3] < Recorded(w) => calls[k] = "MALFORMED"
      /\ \A k \in KeysOf(w) : k[3] > Recorded(w) => Blank(k)
      /\ \A k \in KeysOf(w) : k[3] = Recorded(w) => k = Current(w)
  BY ExecutorsCall, CurrentKey DEF Basics, ExecutorsProgress
<1>2. \A k \in KeysOf(w) : k[3] \in Nat
  BY KeyParts DEF KeysOf
<1>3. KeysOf(w)' = KeysOf(w) /\ intents' = intents /\ calls' = calls
      /\ dropped' = dropped \cup {Current(w)}
  BY SameKeys DEF Stays, GivesUp
<1>4. \A k \in KeysOf(w) \cap intents : k[3] < Recorded(w) \/ k = Current(w)
  BY <1>1, <1>2 DEF Blank
<1> QED
  BY <1>1, <1>3, <1>4 DEF AttemptResolved

LEMMA FinishStays ==
  ASSUME VisionTypes, NEW w \in Workers,
         NEW result \in {"success", "wait", "unknown", "retry", "fail"}, Finish(w, result)
  PROVE  Stays(w)
  BY FinishBecomes, BecomesStays

\* A worker that gives up before anything of its call left.
LEMMA FinishUnsent ==
  ASSUME Basics, NEW w \in Workers, Executes(w), ~Awaiting(w),
         worker[w].pc \notin {"repair", "outcome"}, LedgerMove(w), UNCHANGED <<intents, calls, dropped>>,
         operations' = operations, NEW result \in {"unknown", "retry", "fail"}, Finish(w, result)
  PROVE  ExecutorMove(w) /\ worker'[w].pc = "settle" /\ worker'[w].result = result
<1>1. AttemptResolved(w)'
  BY NotAwaitingResolved, FinishStays, ResolvedKept DEF Basics
<1> QED
  BY <1>1, FinishMove

LEMMA BeginExecutionMove ==
  ASSUME Basics, NEW w \in Workers, BeginExecution(w)
  PROVE  PlainMove(w)
<1>1. /\ worker[w].pc = "begin" /\ UNCHANGED <<rows, ledger>> /\ faults' = faults
      /\ UNCHANGED operations
  BY DEF BeginExecution, briefVars, rows
<1>2. Executes(w) /\ ~Awaiting(w) /\ LedgerMove(w) /\ faults' \in Nat /\ Progress(w)
  BY <1>1 DEF Executes, Executing, Awaiting, LedgerMove, Basics, VisionTypes, BriefTypes,
      ExecutorsProgress
<1>3. CASE Goto(w, "source")
  <2>1. Becomes(w, "source", worker[w].kind, worker[w].calls, worker[w].result)
    BY <1>3, GotoBecomes DEF Basics, Executing
  <2>2. /\ Stays(w) /\ worker'[w].pc = "source" /\ worker'[w].calls = worker[w].calls
    BY <2>1, BecomesStays
  <2>3. OwnCallOnly(w)
    BY <1>2, MoveIsOwn DEF Basics
  <2>4. ~Awaiting(w)' /\ Current(w) \notin intents'
    BY <1>1, <1>2, <2>2, ExecutorsCall DEF Awaiting, ledger, Basics
  <2>5. Progress(w)'
    BY <1>1, <1>2, <2>2, <2>3, <2>4, SameCall DEF Basics, Executing
  <2>6. ~Uncertain(w)' /\ WrittenBy(w)'
    BY <2>2, <2>4 DEF Uncertain, WrittenBy
  <2> QED
    BY <1>1, <1>2, <2>2, <2>3, <2>5, <2>6 DEF PlainMove, ExecutorMove, Executing
<1>4. CASE Finish(w, "unknown")
  BY <1>1, <1>2, <1>4, FinishUnsent DEF PlainMove, ledger
<1>5. CASE Finish(w, "fail")
  BY <1>1, <1>2, <1>5, FinishUnsent DEF PlainMove, ledger
<1> QED
  BY <1>3, <1>4, <1>5 DEF BeginExecution

\* The executor goes on with its call.
LEMMA GoesOn ==
  ASSUME Basics, NEW w \in Workers, Executes(w), LedgerMove(w), operations' = operations,
         Stays(w), worker'[w].calls = worker[w].calls, worker[w].pc \notin {"repair", "outcome"},
         worker'[w].pc \in {"store", "write", "mark", "submit", "send", "received"},
         Awaiting(w)' => Current(w) \in intents' /\ (Awaiting(w) \/ ExecutionIdentity(w)),
         ~Awaiting(w)' => Current(w) \notin intents',
         Awaiting(w)' \/ worker'[w].pc = "submit" => artifact'[Current(w)]["REQUEST"] = "STORED",
         WrittenBy(w)'
  PROVE  ExecutorMove(w)
<1>1. OwnCallOnly(w) /\ Progress(w)
  BY MoveIsOwn DEF Basics, ExecutorsProgress
<1>2. Progress(w)'
  BY <1>1, SameCall DEF Basics, Executing
<1>3. Uncertain(w)' => Uncertain(w) \/ ExecutionIdentity(w)
  BY DEF Uncertain
<1> QED
  BY <1>1, <1>2, <1>3 DEF ExecutorMove, Executing

\* The outcome of the call is known to its executor.
LEMMA CallReturns ==
  ASSUME Basics, NEW w \in Workers, Executes(w), LedgerMove(w), operations' = operations,
         worker[w].pc \notin {"begin", "source", "repair", "outcome"},
         NEW status \in CallStatus, NEW pc \in {"repair", "outcome"}, Called(w, status, pc),
         pc = "repair" => status = "MALFORMED" /\ Len(worker[w].calls) < MaxRepairs,
         status = "UNKNOWN" => Awaiting(w),
         artifact'[Current(w)]["REQUEST"] = "STORED"
  PROVE  ExecutorMove(w) /\ worker'[w].pc \in {"repair", "outcome"}
<1>1. OwnCallOnly(w) /\ Progress(w)
  BY MoveIsOwn DEF Basics, ExecutorsProgress
<1>2. Becomes(w, pc, worker[w].kind, Append(worker[w].calls, status), worker[w].result)
  BY CalledBecomes DEF Basics
<1>3. Stays(w) /\ worker'[w].pc = pc /\ worker'[w].calls = Append(worker[w].calls, status)
  BY <1>2 DEF Becomes, Stays
<1>4. Progress(w)'
  BY <1>1, <1>3, CallKnown DEF Basics
<1>5. Last(w)' = status
  BY <1>3, WorkerFacts, AppendProperties DEF Last, Outcomes, Basics
<1>6. Uncertain(w)' => Uncertain(w)
  BY <1>3, <1>5 DEF Uncertain, Awaiting
<1>7. WrittenBy(w)'
  BY <1>3 DEF WrittenBy
<1> QED
  BY <1>1, <1>3, <1>4, <1>6, <1>7 DEF ExecutorMove, Executing

LEMMA ExecutingPc ==
  ASSUME NEW w \in Workers
  PROVE  worker[w].pc \in Executing => Executes(w) /\ Active(w)
  BY DEF Executes, Active, Executing

LEMMA AuthorizeImagesMove ==
  ASSUME Basics, NEW w \in Workers, AuthorizeImages(w)
  PROVE  PlainMove(w)
<1>1. worker[w].pc = "source" /\ UNCHANGED <<rows, ledger>> /\ UNCHANGED operations
  BY DEF AuthorizeImages, rows
<1>2. Executes(w) /\ ~Awaiting(w) /\ LedgerMove(w) /\ Progress(w) /\ faults' \in Nat
  BY <1>1, FaultCounted DEF AuthorizeImages, Executes, Executing, Awaiting, LedgerMove, Basics,
      ExecutorsProgress
<1>3. Current(w) \notin intents
  BY <1>1, <1>2, ExecutorsCall DEF Basics
<1>4. CASE Store(w, "REQUEST")
  <2>1. Becomes(w, "store", "REQUEST", worker[w].calls, worker[w].result)
    BY <1>4, StoreBecomes DEF Basics, Kinds
  <2>2. Stays(w) /\ worker'[w].pc = "store" /\ worker'[w].kind = "REQUEST"
        /\ worker'[w].calls = worker[w].calls
    BY <2>1, BecomesStays
  <2>3. ~Awaiting(w)' /\ WrittenBy(w)' /\ Current(w) \notin intents'
    BY <1>1, <1>3, <2>2 DEF Awaiting, WrittenBy, ledger
  <2>4. ExecutorMove(w)
    BY <1>1, <1>2, <2>2, <2>3, GoesOn
  <2> QED
    BY <1>1, <1>2, <2>2, <2>4 DEF PlainMove
<1>5. CASE Finish(w, "fail")
  BY <1>1, <1>2, <1>5, FinishUnsent DEF PlainMove, ledger
<1>6. CASE Finish(w, "retry")
  BY <1>1, <1>2, <1>6, FinishUnsent DEF PlainMove, ledger
<1> QED
  BY <1>4, <1>5, <1>6 DEF AuthorizeImages

LEMMA StoreIntentMove ==
  ASSUME Basics, NEW w \in Workers, StoreIntent(w)
  PROVE  PlainMove(w)
<1>1. worker[w].pc = "store" /\ UNCHANGED <<rows, intents, calls, objects, submitted>>
      /\ UNCHANGED operations
  BY DEF StoreIntent, rows
<1>2. Executes(w) /\ Progress(w) /\ faults' \in Nat
  BY <1>1, FaultCounted DEF StoreIntent, ShortLease, Executes, Executing, Basics, ExecutorsProgress
<1>3. PICK short \in BOOLEAN :
          /\ IF ExecutionIdentity(w) /\ ~short
             THEN artifact' = [artifact EXCEPT ![Key(w)][worker[w].kind] = "INTENDED"]
                  /\ Goto(w, "write")
             ELSE UNCHANGED artifact
                  /\ Finish(w, IF ExecutionIdentity(w) THEN "retry" ELSE "fail")
          /\ IF ExecutionIdentity(w) /\ short /\ worker[w].kind = "RESPONSE"
             THEN Drops(Key(w)) ELSE UNCHANGED dropped
  BY DEF StoreIntent
<1>4. worker[w].kind \in Kinds
  BY WorkerFacts DEF Executor, Basics
<1>5. CASE ExecutionIdentity(w) /\ ~short
  <2>1. artifact' = [artifact EXCEPT ![Key(w)][worker[w].kind] = "INTENDED"] /\ Goto(w, "write")
        /\ UNCHANGED dropped
    BY <1>3, <1>5
  <2>2. LedgerMove(w)
    BY <1>1, <2>1 DEF LedgerMove, WritesArtifact, ArtifactState
  <2>3. Becomes(w, "write", worker[w].kind, worker[w].calls, worker[w].result)
    BY <2>1, GotoBecomes DEF Basics, Executing
  <2>4. Stays(w) /\ worker'[w].pc = "write" /\ worker'[w].kind = worker[w].kind
        /\ worker'[w].calls = worker[w].calls
    BY <2>3, BecomesStays
  <2>5. (Awaiting(w)' <=> Awaiting(w)) /\ WrittenBy(w)'
    BY <1>1, <2>4 DEF Awaiting, WrittenBy
  <2>6. Awaiting(w) => Current(w) \in intents /\ artifact[Current(w)]["REQUEST"] = "STORED"
    BY <1>2, ExecutorsCall DEF Basics
  <2>7. ~Awaiting(w) => Current(w) \notin intents
    BY <1>1, <1>2, ExecutorsCall DEF Basics
  <2>8. Awaiting(w) => artifact'[Current(w)]["REQUEST"] = "STORED"
    <3>1. Awaiting(w) => worker[w].kind = "RESPONSE"
      BY <1>1 DEF Awaiting
    <3>2. Key(w) = Current(w)
      BY <1>1, KeyIsCurrent DEF Basics
    <3>3. artifact \in [Keys -> [Kinds -> ArtifactState]]
      BY DEF Basics, VisionTypes
    <3>4. Current(w) \in Keys
      BY <1>2, CurrentKey DEF Basics
    <3> QED
      BY <2>1, <2>6, <3>1, <3>2, <3>3, <3>4 DEF Kinds
  <2>9. ExecutorMove(w)
    BY <1>1, <1>2, <2>2, <2>4, <2>5, <2>6, <2>7, <2>8, GoesOn
  <2> QED
    BY <1>1, <1>2, <2>4, <2>9 DEF PlainMove
<1>6. CASE ~(ExecutionIdentity(w) /\ ~short)
  <2>1. UNCHANGED artifact /\ (Finish(w, "retry") \/ Finish(w, "fail"))
        /\ (~ExecutionIdentity(w) => Finish(w, "fail"))
    BY <1>3, <1>6
  <2>2. CASE ~ExecutionIdentity(w)
    <3>1. LedgerMove(w) /\ Finish(w, "fail")
      BY <1>1, <1>3, <2>1, <2>2 DEF LedgerMove, ledger
    <3>2. ExecutorMove(w) /\ worker'[w].pc = "settle" /\ worker'[w].result = "fail"
      BY <1>1, <1>2, <3>1, FinishMove
    <3> QED
      BY <1>1, <1>2, <3>2 DEF PlainMove
  <2>3. CASE ExecutionIdentity(w) /\ worker[w].kind = "RESPONSE"
    <3>1. Finish(w, "retry") /\ Key(w) = Current(w)
      BY <1>1, <1>3, <1>6, <2>3, KeyIsCurrent DEF Basics
    <3>2. GivesUp(w)
      BY <1>1, <1>3, <1>6, <2>1, <2>3, <3>1 DEF GivesUp, Drops
    <3>3. AttemptResolved(w)'
      BY <1>1, <1>2, <3>1, <3>2, GivenUpResolved, FinishStays DEF Basics
    <3>4. ExecutorMove(w) /\ worker'[w].pc = "settle" /\ worker'[w].result = "retry"
      BY <1>1, <1>2, <3>1, <3>2, <3>3, FinishMove DEF LedgerMove
    <3> QED
      BY <1>1, <1>2, <3>4 DEF PlainMove
  <2>4. CASE ExecutionIdentity(w) /\ worker[w].kind # "RESPONSE"
    <3>1. Finish(w, "retry") /\ ~Awaiting(w) /\ UNCHANGED <<intents, calls, dropped>>
      BY <1>1, <1>3, <1>6, <2>4 DEF Awaiting
    <3>2. LedgerMove(w)
      BY <1>1, <2>1, <3>1 DEF LedgerMove, ledger
    <3>3. ExecutorMove(w) /\ worker'[w].pc = "settle" /\ worker'[w].result = "retry"
      BY <1>1, <1>2, <3>1, <3>2, FinishUnsent
    <3> QED
      BY <1>1, <1>2, <3>3 DEF PlainMove
  <2> QED
    BY <2>2, <2>3, <2>4
<1> QED
  BY <1>5, <1>6

LEMMA WriteObjectMove ==
  ASSUME Basics, NEW w \in Workers, WriteObject(w)
  PROVE  PlainMove(w)
<1>1. worker[w].pc = "write" /\ UNCHANGED <<rows, intents, calls, artifact, dropped, submitted>>
      /\ UNCHANGED operations
  BY DEF WriteObject, rows
<1>2. PICK answer \in {"written", "refused", "lost"} :
          /\ worker' = [worker EXCEPT ![w].pc = "mark", ![w].result = answer]
          /\ Unless(answer # "written")
          /\ \/ answer # "refused" /\ objects' = objects \cup {<<Key(w), worker[w].kind>>}
             \/ answer # "written" /\ UNCHANGED objects
  BY DEF WriteObject
<1>3. Executes(w) /\ Progress(w) /\ faults' \in Nat
  BY <1>1, <1>2, FaultCounted DEF Executes, Executing, Basics, ExecutorsProgress
<1>4. LedgerMove(w)
  BY <1>1, <1>2 DEF LedgerMove, WritesObject
<1>5. Becomes(w, "mark", worker[w].kind, worker[w].calls, answer)
  BY <1>2, ResultBecomes DEF Basics
<1>6. Stays(w) /\ worker'[w].pc = "mark" /\ worker'[w].kind = worker[w].kind
      /\ worker'[w].calls = worker[w].calls /\ worker'[w].result = answer
  BY <1>5, BecomesStays
<1>7. Awaiting(w)' <=> Awaiting(w)
  BY <1>1, <1>6 DEF Awaiting
<1>8. /\ Awaiting(w) => Current(w) \in intents' /\ artifact'[Current(w)]["REQUEST"] = "STORED"
      /\ ~Awaiting(w) => Current(w) \notin intents'
  BY <1>1, <1>3, ExecutorsCall DEF Basics
<1>9. WrittenBy(w)'
  <2>1. Key(w)' = Key(w)
    BY <1>6 DEF Key, Stays
  <2> QED
    BY <1>2, <1>6, <2>1 DEF WrittenBy
<1>10. ExecutorMove(w)
  BY <1>1, <1>3, <1>4, <1>6, <1>7, <1>8, <1>9, GoesOn
<1> QED
  BY <1>1, <1>3, <1>6, <1>10 DEF PlainMove

LEMMA MarkArtifactMove ==
  ASSUME Basics, NEW w \in Workers, MarkArtifact(w)
  PROVE  PlainMove(w)
<1> DEFINE c == Current(w)
           kind == worker[w].kind
<1>1. worker[w].pc = "mark" /\ UNCHANGED <<rows, intents, calls, dropped, objects, submitted>>
      /\ faults' = faults /\ UNCHANGED operations
  BY DEF MarkArtifact, briefVars, rows
<1>2. Executes(w) /\ Progress(w) /\ faults' \in Nat /\ Key(w) = c
  BY <1>1, KeyIsCurrent DEF Executes, Executing, Basics, ExecutorsProgress, VisionTypes, BriefTypes
<1>3. /\ c \in Keys /\ kind \in Kinds /\ artifact \in [Keys -> [Kinds -> ArtifactState]]
      /\ (Awaiting(w) <=> kind = "RESPONSE")
      /\ Awaiting(w) => c \in intents /\ artifact[c]["REQUEST"] = "STORED"
      /\ ~Awaiting(w) => c \notin intents
  <2>1. kind \in Kinds /\ artifact \in [Keys -> [Kinds -> ArtifactState]]
    BY WorkerFacts DEF Basics, VisionTypes, Executor
  <2>2. c \in Keys
    BY <1>2, CurrentKey DEF Basics
  <2>3. /\ Awaiting(w) => c \in intents /\ artifact[c]["REQUEST"] = "STORED"
        /\ ~Awaiting(w) => c \notin intents
    BY <1>1, <1>2, ExecutorsCall DEF Basics
  <2>4. Awaiting(w) <=> kind = "RESPONSE"
    BY <1>1 DEF Awaiting
  <2> QED
    BY <2>1, <2>2, <2>3, <2>4
<1> HIDE DEF c, kind
<1>4. CASE worker[w].result = "written" /\ artifact[c][kind] \in {"INTENDED", "STORED"}
  <2>1. artifact' = [artifact EXCEPT ![c][kind] = "STORED"]
        /\ Goto(w, IF kind = "REQUEST" THEN "submit" ELSE "received")
    BY <1>2, <1>4 DEF MarkArtifact, kind
  <2>2. <<Key(w), worker[w].kind>> \in objects
    BY <1>1, <1>4 DEF Basics, WrittenExists
  <2>3. LedgerMove(w)
    BY <1>1, <1>2, <2>1, <2>2 DEF LedgerMove, WritesArtifact, ArtifactState, kind
  <2>4. Becomes(w, IF kind = "REQUEST" THEN "submit" ELSE "received", kind, worker[w].calls,
                worker[w].result)
    BY <2>1, GotoBecomes DEF Basics, Executing, kind
  <2>5. Stays(w) /\ worker'[w].pc = (IF kind = "REQUEST" THEN "submit" ELSE "received")
        /\ worker'[w].calls = worker[w].calls
    BY <2>4 DEF Becomes, Stays
  <2>6. (Awaiting(w)' <=> Awaiting(w)) /\ WrittenBy(w)'
    BY <1>3, <2>5 DEF Awaiting, WrittenBy, Kinds
  <2>7. artifact'[c]["REQUEST"] = "STORED"
    BY <1>3, <2>1 DEF Kinds
  <2>8. ExecutorMove(w)
    BY <1>1, <1>2, <1>3, <2>3, <2>5, <2>6, <2>7, GoesOn DEF c
  <2> QED
    BY <1>1, <1>2, <2>5, <2>8 DEF PlainMove
<1>5. CASE ~(worker[w].result = "written" /\ artifact[c][kind] \in {"INTENDED", "STORED"})
  <2>1. /\ artifact' = (IF worker[w].result = "lost" /\ artifact[c][kind] # "STORED"
                        THEN [artifact EXCEPT ![c][kind] = "UNKNOWN"] ELSE artifact)
        /\ ArtifactFailed(w)
    BY <1>2, <1>5 DEF MarkArtifact, kind
  <2>2. LedgerMove(w)
    <3>1. CASE worker[w].result = "lost" /\ artifact[c][kind] # "STORED"
      BY <1>1, <1>2, <2>1, <3>1 DEF LedgerMove, WritesArtifact, ArtifactState, kind
    <3>2. CASE ~(worker[w].result = "lost" /\ artifact[c][kind] # "STORED")
      BY <1>1, <2>1, <3>2 DEF LedgerMove, ledger
    <3> QED
      BY <3>1, <3>2
  <2>3. CASE kind = "RESPONSE"
    <3>1. Called(w, "UNKNOWN", "outcome")
      BY <2>1, <2>3 DEF ArtifactFailed, kind
    <3>2. artifact'[c]["REQUEST"] = "STORED"
      BY <1>3, <2>1, <2>3 DEF Kinds
    <3>3. ExecutorMove(w) /\ worker'[w].pc \in {"repair", "outcome"}
      BY <1>1, <1>2, <1>3, <2>2, <2>3, <3>1, <3>2, CallReturns DEF CallStatus, c
    <3> QED
      BY <1>1, <1>2, <3>3 DEF PlainMove
  <2>4. CASE kind # "RESPONSE"
    <3>1. Finish(w, "retry") \/ Finish(w, "unknown") \/ Finish(w, "fail")
      BY <2>1, <2>4 DEF ArtifactFailed, kind
    <3>2. ASSUME NEW result \in {"unknown", "retry", "fail"}, Finish(w, result)
          PROVE  PlainMove(w)
      <4>1. ExecutorMove(w) /\ worker'[w].pc = "settle" /\ worker'[w].result = result
        BY <1>1, <1>2, <1>3, <2>2, <2>4, <3>2, FinishUnsent
      <4> QED
        BY <1>1, <1>2, <4>1 DEF PlainMove
    <3> QED
      BY <3>1, <3>2
  <2> QED
    BY <2>3, <2>4
<1> QED
  BY <1>4, <1>5

LEMMA DeadlinePassesMove ==
  ASSUME Basics, NEW w \in Workers, DeadlinePasses(w)
  PROVE  PlainMove(w)
<1>1. worker[w].pc = "submit" /\ UNCHANGED <<rows, ledger>> /\ UNCHANGED operations
      /\ Called(w, "TIMEOUT", "outcome")
  BY DEF DeadlinePasses, rows
<1>2. Executes(w) /\ Progress(w) /\ faults' \in Nat /\ LedgerMove(w)
  BY <1>1 DEF DeadlinePasses, Executes, Executing, Basics, ExecutorsProgress, LedgerMove,
      VisionTypes, BriefTypes, Fault
<1>3. artifact'[Current(w)]["REQUEST"] = "STORED"
  BY <1>1, <1>2, ExecutorsCall DEF Basics, ledger
<1>4. ExecutorMove(w) /\ worker'[w].pc \in {"repair", "outcome"}
  BY <1>1, <1>2, <1>3, CallReturns DEF CallStatus, Retryable
<1> QED
  BY <1>1, <1>2, <1>4 DEF PlainMove

LEMMA RecordProviderAttemptMove ==
  ASSUME Basics, NEW w \in Workers, RecordProviderAttempt(w)
  PROVE  PlainMove(w)
<1>1. worker[w].pc = "submit" /\ UNCHANGED <<rows, calls, artifact, dropped, objects, submitted>>
      /\ UNCHANGED operations
  BY DEF RecordProviderAttempt, rows
<1>2. PICK short \in BOOLEAN :
          /\ Unless(short)
          /\ IF ExecutionIdentity(w) /\ ~short /\ Key(w) \notin intents
             THEN intents' = intents \cup {Key(w)} /\ Goto(w, "send")
             ELSE UNCHANGED intents
                  /\ Finish(w, IF ~ExecutionIdentity(w) THEN "fail"
                               ELSE IF short THEN "retry" ELSE "unknown")
  BY DEF RecordProviderAttempt, ShortLease
<1>3. Executes(w) /\ Progress(w) /\ faults' \in Nat /\ Key(w) = Current(w) /\ ~Awaiting(w)
  BY <1>1, <1>2, FaultCounted, KeyIsCurrent DEF Executes, Executing, Basics, ExecutorsProgress,
      Awaiting
<1>4. artifact'[Current(w)]["REQUEST"] = "STORED"
  BY <1>1, <1>3, ExecutorsCall DEF Basics
<1>5. CASE ExecutionIdentity(w) /\ ~short /\ Key(w) \notin intents
  <2>1. intents' = intents \cup {Key(w)} /\ Goto(w, "send")
    BY <1>2, <1>5
  <2>2. LedgerMove(w)
    BY <1>1, <1>5, <2>1 DEF LedgerMove, RecordsIntent
  <2>3. Becomes(w, "send", worker[w].kind, worker[w].calls, worker[w].result)
    BY <2>1, GotoBecomes DEF Basics, Executing
  <2>4. Stays(w) /\ worker'[w].pc = "send" /\ worker'[w].calls = worker[w].calls
    BY <2>3, BecomesStays
  <2>5. Awaiting(w)' /\ WrittenBy(w)' /\ Current(w) \in intents'
    BY <1>3, <2>1, <2>4 DEF Awaiting, WrittenBy
  <2>6. ExecutorMove(w)
    BY <1>1, <1>3, <1>4, <1>5, <2>2, <2>4, <2>5, GoesOn
  <2> QED
    BY <1>1, <1>3, <2>4, <2>6 DEF PlainMove
<1>6. CASE ~(ExecutionIdentity(w) /\ ~short /\ Key(w) \notin intents)
  <2>1. UNCHANGED intents /\ (Finish(w, "fail") \/ Finish(w, "retry") \/ Finish(w, "unknown"))
    BY <1>2, <1>6
  <2>2. LedgerMove(w)
    BY <1>1, <2>1 DEF LedgerMove, ledger
  <2>3. ASSUME NEW result \in {"unknown", "retry", "fail"}, Finish(w, result)
        PROVE  PlainMove(w)
    <3>1. ExecutorMove(w) /\ worker'[w].pc = "settle" /\ worker'[w].result = result
      BY <1>1, <1>3, <2>1, <2>2, <2>3, FinishUnsent
    <3> QED
      BY <1>1, <1>3, <3>1 DEF PlainMove
  <2> QED
    BY <2>1, <2>3
<1> QED
  BY <1>5, <1>6

LEMMA SendRequestMove ==
  ASSUME Basics, NEW w \in Workers, SendRequest(w)
  PROVE  PlainMove(w)
<1>1. worker[w].pc = "send" /\ UNCHANGED <<rows, intents, calls, artifact, dropped, objects>>
      /\ UNCHANGED operations
  BY DEF SendRequest, rows
<1>2. /\ submitted' \in {submitted, submitted \cup {Key(w)}} /\ faults' \in Nat
      /\ Store(w, "RESPONSE") \/ Called(w, "UNAVAILABLE", "outcome") \/ Called(w, "UNKNOWN", "outcome")
  BY DEF SendRequest, ProviderAnswers, ProviderNotReached, SubmissionLost, Fault, Basics,
      VisionTypes, BriefTypes
<1>3. Executes(w) /\ Progress(w) /\ Awaiting(w) /\ LedgerMove(w)
  BY <1>1, <1>2 DEF Executes, Executing, Basics, ExecutorsProgress, Awaiting, LedgerMove, Submits
<1>4. artifact'[Current(w)]["REQUEST"] = "STORED" /\ Current(w) \in intents'
  BY <1>1, <1>3, ExecutorsCall DEF Basics
<1>5. CASE Store(w, "RESPONSE")
  <2>1. Becomes(w, "store", "RESPONSE", worker[w].calls, worker[w].result)
    BY <1>5, StoreBecomes DEF Basics, Kinds
  <2>2. Stays(w) /\ worker'[w].pc = "store" /\ worker'[w].kind = "RESPONSE"
        /\ worker'[w].calls = worker[w].calls
    BY <2>1, BecomesStays
  <2>3. Awaiting(w)' /\ WrittenBy(w)'
    BY <2>2 DEF Awaiting, WrittenBy
  <2>4. ExecutorMove(w)
    BY <1>1, <1>3, <1>4, <2>2, <2>3, GoesOn
  <2> QED
    BY <1>1, <1>2, <2>2, <2>4 DEF PlainMove
<1>6. ASSUME NEW status \in CallStatus \ {"MALFORMED"}, Called(w, status, "outcome")
      PROVE  PlainMove(w)
  <2>1. ExecutorMove(w) /\ worker'[w].pc \in {"repair", "outcome"}
    BY <1>1, <1>3, <1>4, <1>6, CallReturns
  <2> QED
    BY <1>1, <1>2, <2>1 DEF PlainMove
<1> QED
  BY <1>2, <1>5, <1>6 DEF CallStatus, Retryable

LEMMA ReadAnswerMove ==
  ASSUME Basics, NEW w \in Workers, ReadAnswer(w)
  PROVE  PlainMove(w)
<1>1. worker[w].pc = "received" /\ UNCHANGED <<rows, ledger>> /\ UNCHANGED operations
  BY DEF ReadAnswer, rows
<1>2. PICK status \in HttpFailures \cup Contents \cup LateOrIncomplete :
          /\ Unless(status # "SUCCEEDED")
          /\ Called(w, status, IF status = "MALFORMED" /\ Len(Outcomes(w)) < MaxRepairs
                               THEN "repair" ELSE "outcome")
  BY DEF ReadAnswer
<1>3. Executes(w) /\ Progress(w) /\ Awaiting(w) /\ LedgerMove(w) /\ faults' \in Nat
  BY <1>1, <1>2, FaultCounted DEF Executes, Executing, Basics, ExecutorsProgress, Awaiting, LedgerMove
<1>4. artifact'[Current(w)]["REQUEST"] = "STORED"
  BY <1>1, <1>3, ExecutorsCall DEF Basics, ledger
<1>5. status \in CallStatus
  BY DEF HttpFailures, Contents, LateOrIncomplete, CallStatus, Retryable
<1>6. CASE status = "MALFORMED" /\ Len(worker[w].calls) < MaxRepairs
  <2>1. Called(w, status, "repair")
    BY <1>2, <1>6 DEF Outcomes
  <2>2. ExecutorMove(w) /\ worker'[w].pc \in {"repair", "outcome"}
    BY <1>1, <1>3, <1>4, <1>5, <1>6, <2>1, CallReturns
  <2> QED
    BY <1>1, <1>3, <2>2 DEF PlainMove
<1>7. CASE ~(status = "MALFORMED" /\ Len(worker[w].calls) < MaxRepairs)
  <2>1. Called(w, status, "outcome")
    BY <1>2, <1>7 DEF Outcomes
  <2>2. ExecutorMove(w) /\ worker'[w].pc \in {"repair", "outcome"}
    BY <1>1, <1>3, <1>4, <1>5, <2>1, CallReturns
  <2> QED
    BY <1>1, <1>3, <2>2 DEF PlainMove
<1> QED
  BY <1>6, <1>7

\* The call is recorded with a known outcome.
LEMMA RecordedResolved ==
  ASSUME Basics, NEW w \in Workers, Executes(w), Stays(w), RecordsCall(w), Last(w) # "UNKNOWN"
  PROVE  AttemptResolved(w)'
<1>1. Progress(w) /\ KeysOf(w)' = KeysOf(w) /\ intents' = intents
  BY SameKeys DEF Basics, ExecutorsProgress, Stays, RecordsCall
<1>2. /\ \A k \in KeysOf(w) : k[3] < Recorded(w) => calls[k] = "MALFORMED"
      /\ \A k \in KeysOf(w) : k[3] > Recorded(w) => Blank(k)
      /\ \A k \in KeysOf(w) : k[3] = Recorded(w) => k = Current(w)
      /\ Recorded(w) \in Nat /\ Current(w) \in Keys /\ Current(w)[3] = Recorded(w)
  BY <1>1, ExecutorsCall, CurrentKey DEF Basics
<1>3. \A k \in KeysOf(w) : k[3] \in Nat /\ k \in Keys
  BY KeyParts DEF KeysOf
<1>4. \A k \in KeysOf(w) \cap intents : k[3] < Recorded(w) \/ k = Current(w)
  BY <1>2, <1>3 DEF Blank
<1>5. /\ calls'[Current(w)] = Last(w)
      /\ \A k \in Keys : k # Current(w) => calls'[k] = calls[k]
  BY <1>2 DEF RecordsCall, Basics, VisionTypes
<1>6. Last(w) # "none"
  BY LastIsStatus DEF RecordsCall, Progress, Basics, ExecutorsProgress, CallStatus, Retryable
<1>7. \A k \in KeysOf(w) : k[3] < Recorded(w) => k # Current(w)
  BY <1>2
<1> QED
  BY <1>1, <1>2, <1>3, <1>4, <1>5, <1>6, <1>7 DEF AttemptResolved

LEMMA PersistCompletedCallMove ==
  ASSUME Basics, NEW w \in Workers, PersistCompletedCall(w)
  PROVE  PlainMove(w)
<1>1. worker[w].pc = "repair" /\ UNCHANGED <<rows, intents, artifact, objects, submitted>>
      /\ UNCHANGED operations
  BY DEF PersistCompletedCall, rows
<1>2. PICK short \in BOOLEAN :
          /\ Unless(short)
          /\ IF ExecutionIdentity(w) /\ ~short /\ CallsBound(w)
             THEN StoreCalls(w) /\ Store(w, "REQUEST")
             ELSE UNCHANGED calls
                  /\ Finish(w, IF ExecutionIdentity(w) /\ short THEN "retry" ELSE "fail")
          /\ IF ExecutionIdentity(w) /\ short
             THEN Drops(CallKey(w, Len(Outcomes(w)))) ELSE UNCHANGED dropped
  BY DEF PersistCompletedCall, ShortLease
<1>3. Executes(w) /\ Progress(w) /\ faults' \in Nat /\ short \in BOOLEAN
  BY <1>1, <1>2, FaultCounted DEF Executes, Executing, Basics, ExecutorsProgress
<1>4. CASE ExecutionIdentity(w) /\ ~short /\ CallsBound(w)
  <2>1. StoreCalls(w) /\ Store(w, "REQUEST") /\ UNCHANGED dropped
    BY <1>2, <1>4
  <2>2. RecordsCall(w)
    BY <1>1, <1>3, <1>4, <2>1, StoreCallsOnce DEF RecordsCall, Basics
  <2>3. Becomes(w, "store", "REQUEST", worker[w].calls, worker[w].result)
    BY <2>1, StoreBecomes DEF Basics, Kinds
  <2>4. Stays(w) /\ worker'[w].pc = "store" /\ worker'[w].kind = "REQUEST"
        /\ worker'[w].calls = worker[w].calls
    BY <2>3, BecomesStays
  <2>5. OwnCallOnly(w)
    BY <1>3, <2>2, MoveIsOwn DEF LedgerMove, Basics
  <2>6. Progress(w)'
    BY <1>1, <1>3, <2>2, <2>4, <2>5, RepairBegins DEF Basics
  <2>7. ~Uncertain(w)' /\ WrittenBy(w)'
    BY <2>4 DEF Uncertain, Awaiting, WrittenBy
  <2>8. ExecutorMove(w)
    BY <1>1, <1>3, <2>4, <2>5, <2>6, <2>7 DEF ExecutorMove, Executing
  <2> QED
    BY <1>1, <1>3, <2>4, <2>8 DEF PlainMove
<1>5. CASE ExecutionIdentity(w) /\ short
  <2>1. Finish(w, "retry") /\ UNCHANGED calls /\ dropped' = dropped \cup {CallKey(w, Len(Outcomes(w)))}
    BY <1>2, <1>5 DEF Drops
  <2>2. CallKey(w, Len(Outcomes(w))) = Current(w)
    BY <1>1 DEF CallKey, Outcomes, Current, Recorded
  <2>3. GivesUp(w)
    BY <1>1, <2>1, <2>2 DEF GivesUp
  <2>4. AttemptResolved(w)'
    BY <1>3, <2>1, <2>3, GivenUpResolved, FinishStays DEF Basics
  <2>5. ExecutorMove(w) /\ worker'[w].pc = "settle" /\ worker'[w].result = "retry"
    BY <1>1, <1>3, <2>1, <2>3, <2>4, FinishMove DEF LedgerMove
  <2> QED
    BY <1>1, <1>3, <2>5 DEF PlainMove
<1>6. CASE ~(ExecutionIdentity(w) /\ short) /\ ~(ExecutionIdentity(w) /\ ~short /\ CallsBound(w))
  <2>1. UNCHANGED <<calls, dropped>> /\ Finish(w, "fail")
    BY <1>2, <1>6
  <2>2. LedgerMove(w)
    BY <1>1, <2>1 DEF LedgerMove, ledger
  <2>3. ExecutorMove(w) /\ worker'[w].pc = "settle" /\ worker'[w].result = "fail"
    BY <1>1, <1>3, <2>1, <2>2, FinishMove
  <2> QED
    BY <1>1, <1>3, <2>3 DEF PlainMove
<1> QED
  BY <1>4, <1>5, <1>6

LEMMA PersistFailureMove ==
  ASSUME Basics, NEW w \in Workers, PersistFailure(w)
  PROVE  PlainMove(w)
<1>1. worker[w].pc = "outcome" /\ UNCHANGED <<rows, intents, artifact, dropped, objects, submitted>>
      /\ faults' = faults /\ UNCHANGED operations
  BY DEF PersistFailure, briefVars, rows
<1>2. Executes(w) /\ Progress(w) /\ faults' \in Nat
  BY <1>1 DEF Executes, Executing, Basics, ExecutorsProgress, VisionTypes, BriefTypes
<1>3. CASE retained /\ CallsBound(w)
  <2>1. StoreCalls(w) /\ Finish(w, IF Last(w) = "UNKNOWN" THEN "unknown"
                                   ELSE IF Last(w) \in Retryable THEN "retry" ELSE "fail")
    BY <1>3 DEF PersistFailure
  <2>2. RecordsCall(w) /\ LedgerMove(w)
    BY <1>1, <1>2, <1>3, <2>1, StoreCallsOnce DEF RecordsCall, LedgerMove, Basics
  <2>3. ASSUME NEW result \in {"unknown", "retry", "fail"}, Finish(w, result),
               result = "retry" => Last(w) # "UNKNOWN"
        PROVE  PlainMove(w)
    <3>1. result = "retry" => AttemptResolved(w)'
      BY <1>2, <2>2, <2>3, RecordedResolved, FinishStays DEF Basics
    <3>2. ExecutorMove(w) /\ worker'[w].pc = "settle" /\ worker'[w].result = result
      BY <1>1, <1>2, <2>2, <2>3, <3>1, FinishMove
    <3> QED
      BY <1>1, <1>2, <3>2 DEF PlainMove
  <2>4. CASE Last(w) = "UNKNOWN"
    BY <2>1, <2>3, <2>4
  <2>5. CASE Last(w) # "UNKNOWN" /\ Last(w) \in Retryable
    BY <2>1, <2>3, <2>5
  <2>6. CASE Last(w) # "UNKNOWN" /\ Last(w) \notin Retryable
    BY <2>1, <2>3, <2>6
  <2> QED
    BY <2>4, <2>5, <2>6
<1>4. CASE ~(retained /\ CallsBound(w))
  <2>1. Finish(w, "fail") /\ UNCHANGED calls
    BY <1>4 DEF PersistFailure
  <2>2. LedgerMove(w)
    BY <1>1, <2>1 DEF LedgerMove, ledger
  <2>3. ExecutorMove(w) /\ worker'[w].pc = "settle" /\ worker'[w].result = "fail"
    BY <1>1, <1>2, <2>1, <2>2, FinishMove
  <2> QED
    BY <1>1, <1>2, <2>3 DEF PlainMove
<1> QED
  BY <1>3, <1>4

-----------------------------------------------------------------------------
(* What the steps of a worker leave to the others *)

WorkersProceed ==
    \A v \in Workers : worker'[v].pc # "idle" =>
        /\ Active(v) /\ worker'[v].op = worker[v].op /\ worker'[v].attempt = worker[v].attempt
        /\ worker'[v].pc \in Executing => Executes(v)

OperationsProceed ==
    \A o \in DOMAIN operations :
        /\ o \in DOMAIN operations' /\ operations'[o].attempts = operations[o].attempts
        /\ operations'[o].state = "RUNNING" => operations[o].state = "RUNNING"

WorkersBudgeted ==
    \A w \in Workers : Active(w) =>
        /\ worker[w].op \in DOMAIN operations
        /\ worker[w].attempt \in 1..operations[worker[w].op].attempts

LEMMA WorkersStayBudgeted ==
  ASSUME AttemptsBudgeted, WorkersProceed, OperationsProceed
  PROVE  WorkersBudgeted'
  BY DEF AttemptsBudgeted, WorkersBudgeted, WorkersProceed, OperationsProceed, Active

LEMMA OneExecutorStays ==
  ASSUME OneExecutor, AttemptsBudgeted, WorkersProceed, OperationsProceed
  PROVE  OneExecutor'
<1> SUFFICES ASSUME NEW v \in Workers, NEW w \in Workers, v # w, Executes(v)', Active(w)',
                    SameAttempt(v, w)'
             PROVE  /\ ~Executes(w)'
                    /\ OperationOf(w)'.attempts = worker'[w].attempt =>
                          OperationOf(w)'.state # "RUNNING"
  BY DEF OneExecutor
<1>1. Active(v)'
  BY DEF Executes, Executing, Active
<1>2. /\ Executes(v) /\ Active(w) /\ worker'[w].op = worker[w].op
      /\ worker'[w].attempt = worker[w].attempt /\ (Executes(w)' => Executes(w))
      /\ worker'[v].op = worker[v].op /\ worker'[v].attempt = worker[v].attempt
  BY <1>1 DEF WorkersProceed, Executes, Active
<1>3. SameAttempt(v, w)
  BY <1>2 DEF SameAttempt
<1>4. /\ ~Executes(w)
      /\ OperationOf(w).attempts = worker[w].attempt => OperationOf(w).state # "RUNNING"
  BY <1>2, <1>3 DEF OneExecutor
<1>5. worker[w].op \in DOMAIN operations
  BY <1>2 DEF AttemptsBudgeted
<1> QED
  BY <1>2, <1>4, <1>5 DEF OperationsProceed, OperationOf

\* Blank keys stay blank when a step writes only to attempts that were begun.
LEMMA LedgerStaysBegun ==
  ASSUME LedgerBegun, VisionTypes, VisionTypes',
         \A o \in DOMAIN operations : /\ o \in DOMAIN operations'
                                      /\ operations'[o].attempts >= operations[o].attempts,
         \A k \in Keys : KeyKept(k) \/ (/\ k[1] \in DOMAIN operations
                                        /\ k[2] <= operations[k[1]].attempts)
  PROVE  LedgerBegun'
<1> SUFFICES ASSUME NEW k \in Keys,
                    k[1] \notin DOMAIN operations' \/ k[2] > operations'[k[1]].attempts
             PROVE  Blank(k)'
  BY DEF LedgerBegun
<1>1. k[2] \in Nat
  BY KeyParts
<1>2. \A o \in DOMAIN operations : operations[o].attempts \in Nat /\ operations'[o].attempts \in Nat
  <2>1. \A o \in DOMAIN operations : operations[o].attempts \in Nat
    BY OperationFacts DEF AnalysisRow
  <2>2. operations' \in Seq(AnalysisRow)
    BY DEF VisionTypes, BriefTypes
  <2>3. \A o \in DOMAIN operations' : operations'[o].attempts \in Nat
    <3>1. DOMAIN operations' = 1..Len(operations')
      BY <2>2, LenProperties
    <3>2. \A o \in DOMAIN operations' : operations'[o] \in AnalysisRow
      BY <2>2, <3>1, ElementOfSeq
    <3> QED
      BY <3>2 DEF AnalysisRow
  <2> QED
    BY <2>1, <2>3
<1>3. k[1] \notin DOMAIN operations \/ k[2] > operations[k[1]].attempts
  BY <1>1, <1>2
<1>4. Blank(k)
  BY <1>3 DEF LedgerBegun
<1>5. KeyKept(k)
  BY <1>1, <1>2, <1>3
<1> QED
  BY <1>4, <1>5 DEF Blank, KeyKept

\* What an executor knows of its attempt survives a step that does not write to
\* its calls and intents, nor to an artifact that is settled.
LEMMA ProgressKept ==
  ASSUME VisionTypes, VisionTypes', NEW v \in Workers, Progress(v), worker'[v] = worker[v],
         \A k \in KeysOf(v) :
             /\ k \in intents' <=> k \in intents
             /\ calls'[k] = calls[k]
             /\ \A kind \in Kinds : artifact[k][kind] \in {"none", "STORED"} =>
                                        artifact'[k][kind] = artifact[k][kind]
  PROVE  Progress(v)'
<1>1. KeysOf(v)' = KeysOf(v) /\ Recorded(v)' = Recorded(v) /\ (Awaiting(v)' <=> Awaiting(v))
      /\ Last(v)' = Last(v)
  BY DEF KeysOf, Recorded, Awaiting, Last, Outcomes
<1>2. \A k \in KeysOf(v) : Blank(k) => Blank(k)'
  BY DEF Blank
<1>3. \A k \in KeysOf(v) : artifact[k]["REQUEST"] = "STORED" => artifact'[k]["REQUEST"] = "STORED"
  BY DEF Kinds
<1> QED
  BY <1>1, <1>2, <1>3 DEF Progress

-----------------------------------------------------------------------------
(* A step of an executor keeps what the others know *)

LEMMA MoveProceeds ==
  ASSUME NEW w \in Workers, ExecutorMove(w)
  PROVE  WorkersProceed /\ OperationsProceed
<1>1. WorkersProceed
  <2> SUFFICES ASSUME NEW v \in Workers, worker'[v].pc # "idle"
               PROVE  /\ Active(v) /\ worker'[v].op = worker[v].op
                      /\ worker'[v].attempt = worker[v].attempt
                      /\ worker'[v].pc \in Executing => Executes(v)
    BY DEF WorkersProceed
  <2>1. CASE v = w
    BY <2>1 DEF ExecutorMove, Stays, Executes, Active, Executing
  <2>2. CASE v # w
    BY <2>2 DEF ExecutorMove, Stays, Executes, Active
  <2> QED
    BY <2>1, <2>2
<1>2. OperationsProceed
  BY DEF OperationsProceed, ExecutorMove
<1> QED
  BY <1>1, <1>2

\* What an executor's call is to the rest of the ledger.
LEMMA MoveFacts ==
  ASSUME Basics, NEW w \in Workers, ExecutorMove(w)
  PROVE  /\ Current(w) \in Keys /\ Current(w) \in KeysOf(w) /\ calls[Current(w)] = "none"
         /\ Progress(w) /\ Active(w) /\ Executes(w) /\ OwnCallOnly(w)
         /\ Current(w)[1] = worker[w].op /\ Current(w)[2] = worker[w].attempt
         /\ worker[w].op \in DOMAIN operations
         /\ worker[w].attempt \in 1..operations[worker[w].op].attempts
         /\ \A v \in Workers \ {w} : worker'[v] = worker[v]
  BY CurrentKey, ExecutorsCall
     DEF Basics, ExecutorsProgress, ExecutorMove, Stays, Executes, Executing, Active,
         AttemptsBudgeted

LEMMA MoveKeepsBegun ==
  ASSUME Basics, LedgerBegun, VisionTypes', NEW w \in Workers, ExecutorMove(w)
  PROVE  LedgerBegun'
<1>1. \A o \in DOMAIN operations : operations[o].attempts \in Nat
  BY OperationFacts DEF AnalysisRow, Basics
<1>2. \A o \in DOMAIN operations : /\ o \in DOMAIN operations'
                                   /\ operations'[o].attempts >= operations[o].attempts
  BY <1>1 DEF ExecutorMove
<1>3. worker[w].attempt <= operations[worker[w].op].attempts
  BY <1>1, MoveFacts
<1>4. \A k \in Keys : KeyKept(k) \/ k = Current(w)
  BY MoveFacts DEF OwnCallOnly
<1>5. \A k \in Keys : KeyKept(k) \/ (/\ k[1] \in DOMAIN operations
                                     /\ k[2] <= operations[k[1]].attempts)
  BY <1>3, <1>4, MoveFacts
<1> QED
  BY <1>2, <1>5, LedgerStaysBegun DEF Basics

LEMMA MoveKeepsProgress ==
  ASSUME Basics, OneExecutor, VisionTypes', NEW w \in Workers, ExecutorMove(w)
  PROVE  ExecutorsProgress'
<1> SUFFICES ASSUME NEW v \in Workers, Executes(v)'
             PROVE  Progress(v)'
  BY DEF ExecutorsProgress
<1>1. CASE v = w
  BY <1>1 DEF ExecutorMove
<1>2. CASE v # w
  <2>1. worker'[v] = worker[v] /\ Executes(v) /\ Progress(v)
    BY <1>2, MoveFacts DEF Executes, Basics, ExecutorsProgress
  <2>2. Current(w) \notin KeysOf(v)
    <3>1. ~SameAttempt(v, w)
      BY <1>2, <2>1, MoveFacts DEF OneExecutor
    <3> QED
      BY <3>1, MoveFacts DEF SameAttempt, KeysOf
  <2>3. \A k \in KeysOf(v) : KeyKept(k)
    BY <2>2, MoveFacts DEF OwnCallOnly, KeysOf
  <2> QED
    BY <2>1, <2>3, ProgressKept DEF KeyKept, Basics
<1> QED
  BY <1>1, <1>2

\* What the executor's attempt looks like in the ledger.
LEMMA AttemptLedger ==
  ASSUME Basics, NEW w \in Workers, Executes(w)
  PROVE  \A k \in Keys : k[1] = worker[w].op /\ k[2] = worker[w].attempt =>
             \/ k = Current(w)
             \/ k[3] < Current(w)[3] /\ calls[k] = "MALFORMED" /\ artifact[k]["REQUEST"] = "STORED"
             \/ k[3] > Current(w)[3] /\ Blank(k)
<1> SUFFICES ASSUME NEW k \in KeysOf(w), k # Current(w)
             PROVE  \/ /\ k[3] < Current(w)[3] /\ calls[k] = "MALFORMED"
                       /\ artifact[k]["REQUEST"] = "STORED"
                    \/ k[3] > Current(w)[3] /\ Blank(k)
  BY DEF KeysOf
<1>1. Progress(w) /\ k \in Keys /\ k[3] \in Nat /\ Recorded(w) \in Nat
      /\ Current(w)[3] = Recorded(w) /\ k[3] # Recorded(w)
  BY CurrentKey, KeyParts DEF Basics, ExecutorsProgress, KeysOf
<1>2. /\ k[3] < Recorded(w) => calls[k] = "MALFORMED"
      /\ k[3] > Recorded(w) => Blank(k)
  BY <1>1, ExecutorsCall DEF Basics
<1>3. calls[k] = "MALFORMED" => artifact[k]["REQUEST"] = "STORED"
  BY <1>1 DEF Basics, LedgerSound
<1> QED
  BY <1>1, <1>2, <1>3

LEMMA MoveKeepsPrefix ==
  ASSUME Basics, CallsArePrefix, NEW w \in Workers, ExecutorMove(w)
  PROVE  CallsArePrefix'
<1> DEFINE c == Current(w)
<1> SUFFICES ASSUME NEW k \in Keys, NEW other \in Keys, k[1] = other[1], k[2] = other[2]
             PROVE  /\ calls'[k] # "none" /\ other[3] < k[3] => calls'[other] = "MALFORMED"
                    /\ calls'[k] = "UNKNOWN" => artifact'[other]["REQUEST"] \in {"none", "STORED"}
  BY DEF CallsArePrefix, OfAttempt
<1>1. /\ calls[k] # "none" /\ other[3] < k[3] => calls[other] = "MALFORMED"
      /\ calls[k] = "UNKNOWN" => artifact[other]["REQUEST"] \in {"none", "STORED"}
  BY DEF CallsArePrefix, OfAttempt
<1>2. c \in Keys /\ c[1] = worker[w].op /\ c[2] = worker[w].attempt /\ Executes(w)
      /\ calls[c] = "none"
  BY MoveFacts
<1>3. \A j \in Keys : j = c \/ KeyKept(j)
  BY MoveFacts DEF OwnCallOnly
<1>4. k[3] \in Nat /\ other[3] \in Nat /\ c[3] \in Nat
  BY <1>2, KeyParts
<1>5. \A j \in Keys : j[1] = c[1] /\ j[2] = c[2] =>
          \/ j = c
          \/ j[3] < c[3] /\ calls[j] = "MALFORMED" /\ artifact[j]["REQUEST"] = "STORED"
          \/ j[3] > c[3] /\ Blank(j)
  BY <1>2, AttemptLedger
<1>6. \A kind \in Kinds : \A j \in Keys : Blank(j) => artifact[j][kind] = "none" /\ calls[j] = "none"
  BY DEF Blank
<1>7. calls'[c] # "none" => artifact'[c]["REQUEST"] = "STORED"
  BY MoveFacts, ExecutorsCall DEF OwnCallOnly, Basics
<1> HIDE DEF c
<1>8. CASE k # c /\ other # c
  BY <1>1, <1>3, <1>8 DEF KeyKept
<1>9. CASE k = c /\ other # c
  BY <1>3, <1>4, <1>5, <1>6, <1>9 DEF KeyKept, Kinds
<1>10. CASE k = c /\ other = c
  BY <1>4, <1>7, <1>10
<1>11. CASE k # c /\ other = c
  <2>1. KeyKept(k) /\ ~(calls[k] # "none" /\ other[3] < k[3]) /\ calls[k] # "UNKNOWN"
    BY <1>3, <1>4, <1>5, <1>6, <1>11 DEF Kinds
  <2> QED
    BY <2>1 DEF KeyKept
<1> QED
  BY <1>8, <1>9, <1>10, <1>11

LEMMA MoveKeepsWritten ==
  ASSUME WrittenExists, NEW w \in Workers, ExecutorMove(w)
  PROVE  WrittenExists'
<1> SUFFICES ASSUME NEW v \in Workers, worker'[v].pc = "mark", worker'[v].result = "written"
             PROVE  <<Key(v)', worker'[v].kind>> \in objects'
  BY DEF WrittenExists
<1>1. CASE v = w
  BY <1>1 DEF ExecutorMove, WrittenBy
<1>2. CASE v # w
  <2>1. worker'[v] = worker[v] /\ objects \subseteq objects'
    BY <1>2 DEF ExecutorMove, Stays, OwnCallOnly
  <2>2. Key(v)' = Key(v)
    BY <2>1 DEF Key
  <2> QED
    BY <2>1, <2>2 DEF WrittenExists
<1> QED
  BY <1>1, <1>2

\* The parts of LedgerSound.
ArtifactsExist ==
    \A k \in Keys : \A kind \in Kinds : artifact[k][kind] = "STORED" => <<k, kind>> \in objects
CallsStored ==
    \A k \in Keys : calls[k] # "none" =>
        /\ artifact[k]["REQUEST"] = "STORED"
        /\ calls[k] = "SUCCEEDED" => artifact[k]["RESPONSE"] = "STORED"
VersionsPaid ==
    \A n \in DOMAIN versions : versions[n].source = "MODEL" =>
        \E k \in Keys : k[1] = versions[n].operation /\ calls[k] = "SUCCEEDED"

LEMMA MoveKeepsStored ==
  ASSUME Basics, NEW w \in Workers, ExecutorMove(w)
  PROVE  ArtifactsExist' /\ CallsStored'
<1> DEFINE c == Current(w)
<1>1. c \in Keys /\ OwnCallOnly(w)
  BY MoveFacts
<1>2. \A j \in Keys : j = c \/ KeyKept(j)
  BY <1>1 DEF OwnCallOnly
<1>3. ArtifactsExist /\ CallsStored
  BY DEF Basics, LedgerSound, ArtifactsExist, CallsStored
<1>4. ArtifactsExist'
  BY <1>1, <1>2, <1>3 DEF ArtifactsExist, OwnCallOnly, KeyKept
<1>5. calls'[c] # "none" =>
          /\ artifact'[c]["REQUEST"] = "STORED"
          /\ calls'[c] = "SUCCEEDED" => artifact'[c]["RESPONSE"] = "STORED"
  <2> SUFFICES ASSUME calls'[c] # "none"
               PROVE  /\ artifact'[c]["REQUEST"] = "STORED"
                      /\ calls'[c] = "SUCCEEDED" => artifact'[c]["RESPONSE"] = "STORED"
    OBVIOUS
  <2>1. calls'[c] = Last(w) /\ CallsBound(w) /\ artifact' = artifact
        /\ worker[w].pc \in {"repair", "outcome"} /\ worker[w].calls # << >>
    BY MoveFacts DEF OwnCallOnly, Progress
  <2>2. Bound(CallKey(w, Len(worker[w].calls)), Last(w))
    BY <2>1, LastIsStatus DEF CallsBound, Outcomes, Basics
  <2>3. Bound(c, Last(w))
    BY <2>1, <2>2, LastIsCurrent DEF Basics
  <2> QED
    BY <2>1, <2>3 DEF Bound
<1> HIDE DEF c
<1>6. CallsStored'
  BY <1>2, <1>3, <1>5 DEF CallsStored, KeyKept
<1> QED
  BY <1>4, <1>6

LEMMA MoveKeepsIntended ==
  ASSUME Basics, OneExecutor, IntendedMeansUnsent, NEW w \in Workers, ExecutorMove(w)
  PROVE  IntendedMeansUnsent'
<1> SUFFICES ASSUME NEW v \in Workers, worker'[v].pc = "decide", worker'[v].result = "intended"
             PROVE  /\ \A k \in KeysOf(v)' : calls'[k] # "UNKNOWN"
                    /\ \A u \in Workers : Executes(u)' /\ SameAttempt(u, v)' => ~Uncertain(u)'
  BY DEF IntendedMeansUnsent
<1>1. v # w
  BY DEF ExecutorMove, Executing
<1>2. worker'[v] = worker[v] /\ KeysOf(v)' = KeysOf(v) /\ Active(v)
  BY <1>1, MoveFacts DEF KeysOf, Active
<1>3. /\ \A k \in KeysOf(v) : calls[k] # "UNKNOWN"
      /\ \A u \in Workers : Executes(u) /\ SameAttempt(u, v) => ~Uncertain(u)
  BY <1>2 DEF IntendedMeansUnsent
<1>4. SameAttempt(w, v) => ~Uncertain(w) /\ ~ExecutionIdentity(w)
  <2>1. SameAttempt(w, v) => ~Uncertain(w)
    BY <1>3, MoveFacts
  <2>2. ASSUME SameAttempt(w, v), ExecutionIdentity(w)
        PROVE  FALSE
    <3>1. OperationOf(v).attempts = worker[v].attempt /\ OperationOf(v).state = "RUNNING"
      BY <2>2 DEF SameAttempt, ExecutionIdentity, Holds, OperationOf
    <3> QED
      BY <1>1, <1>2, <2>2, <3>1, MoveFacts DEF OneExecutor
  <2> QED
    BY <2>1, <2>2
<1>5. ASSUME NEW k \in KeysOf(v)
      PROVE  calls'[k] # "UNKNOWN"
  <2>1. CASE k # Current(w)
    BY <1>3, <2>1, MoveFacts DEF OwnCallOnly, KeyKept, KeysOf
  <2>2. CASE k = Current(w)
    <3>1. ~Uncertain(w)
      BY <1>4, <2>2, MoveFacts DEF KeysOf, SameAttempt
    <3>2. calls'[Current(w)] # "none" =>
              calls'[Current(w)] = Last(w) /\ worker[w].pc \in {"repair", "outcome"}
      BY MoveFacts DEF OwnCallOnly
    <3>3. worker[w].pc = "repair" => Last(w) = "MALFORMED"
      BY MoveFacts DEF Progress
    <3> QED
      BY <2>2, <3>1, <3>2, <3>3 DEF Uncertain
  <2> QED
    BY <2>1, <2>2
<1>6. ASSUME NEW u \in Workers, Executes(u)', SameAttempt(u, v)'
      PROVE  ~Uncertain(u)'
  <2>1. CASE u = w
    <3>1. SameAttempt(w, v)
      BY <1>2, <1>6, <2>1 DEF SameAttempt, ExecutorMove, Stays
    <3> QED
      BY <1>4, <1>6, <2>1, <3>1 DEF ExecutorMove
  <2>2. CASE u # w
    <3>1. worker'[u] = worker[u]
      BY <2>2, MoveFacts
    <3>2. Executes(u) /\ SameAttempt(u, v) /\ (Uncertain(u)' => Uncertain(u))
      BY <1>2, <1>6, <3>1 DEF Executes, SameAttempt, Uncertain, Awaiting, Last, Outcomes
    <3> QED
      BY <1>3, <3>2
  <2> QED
    BY <2>1, <2>2
<1> QED
  BY <1>2, <1>5, <1>6

LEMMA MoveKeepsResolved ==
  ASSUME Basics, OneExecutor, RetriedWhenResolved, NEW w \in Workers, ExecutorMove(w)
  PROVE  RetriedWhenResolved'
<1> DEFINE c == Current(w)
<1>1. /\ \A o \in DOMAIN operations : \A n \in 1..operations[o].attempts :
            /\ n > operations[o].reviewed
            /\ n < operations[o].attempts \/ operations[o].state \in {"PENDING", "RETRY"}
            => Resolved(o, n)
      /\ \A v \in Workers : worker[v].pc = "settle" /\ worker[v].result = "retry" =>
            Resolved(worker[v].op, worker[v].attempt)
  BY DEF RetriedWhenResolved
<1>2. /\ c \in Keys /\ calls[c] = "none" /\ OwnCallOnly(w)
      /\ c[1] = worker[w].op /\ c[2] = worker[w].attempt
  BY MoveFacts
<1>3. intents' \subseteq Keys /\ intents \subseteq Keys /\ dropped \subseteq dropped'
  BY <1>2 DEF OwnCallOnly, LedgerTypes, Basics, VisionTypes
<1> HIDE DEF c
<1>4. ASSUME NEW o, NEW n, Resolved(o, n),
             c \in intents' \ intents => ~(c[1] = o /\ c[2] = n)
      PROVE  Resolved(o, n)'
  <2> SUFFICES ASSUME NEW k \in intents', k[1] = o, k[2] = n
               PROVE  calls'[k] \notin {"none", "UNKNOWN"} \/ k \in dropped'
    BY DEF Resolved
  <2>1. CASE k # c
    <3>1. k \in Keys /\ KeyKept(k)
      BY <1>2, <1>3, <2>1 DEF OwnCallOnly, c
    <3> QED
      BY <1>3, <1>4, <3>1 DEF KeyKept, Resolved
  <2>2. CASE k = c
    <3>1. k \in intents
      BY <1>4, <2>2
    <3>2. k \in dropped
      BY <1>2, <1>4, <2>2, <3>1 DEF Resolved
    <3> QED
      BY <1>3, <3>2
  <2> QED
    BY <2>1, <2>2
<1>5. c \in intents' \ intents => ExecutionIdentity(w)
  BY <1>2 DEF OwnCallOnly
<1>6. ASSUME NEW o \in DOMAIN operations', NEW n \in 1..operations'[o].attempts,
             n > operations'[o].reviewed,
             n < operations'[o].attempts \/ operations'[o].state \in {"PENDING", "RETRY"}
      PROVE  Resolved(o, n)'
  <2>1. operations' = operations
    BY DEF ExecutorMove
  <2>2. Resolved(o, n)
    BY <1>1, <1>6, <2>1
  <2>3. operations[o].attempts \in Nat
    BY <2>1, OperationFacts DEF Basics, AnalysisRow
  <2>4. ExecutionIdentity(w) => ~(c[1] = o /\ c[2] = n)
    BY <1>2, <1>6, <2>1, <2>3 DEF ExecutionIdentity, Holds, OperationOf
  <2> QED
    BY <1>4, <1>5, <2>2, <2>4
<1>7. ASSUME NEW v \in Workers, worker'[v].pc = "settle", worker'[v].result = "retry"
      PROVE  Resolved(worker[v].op, worker[v].attempt)'
  <2>1. CASE v = w
    <3>1. AttemptResolved(w)'
      BY <1>7, <2>1 DEF ExecutorMove
    <3>2. \A k \in intents' : k[1] = worker'[w].op /\ k[2] = worker'[w].attempt =>
              calls'[k] \notin {"none", "UNKNOWN"} \/ k \in dropped'
      BY <1>3, <3>1 DEF AttemptResolved, KeysOf
    <3> QED
      BY <2>1, <3>2 DEF Resolved
  <2>2. CASE v # w
    <3>1. worker'[v] = worker[v] /\ Active(v)
      BY <1>7, <2>2, MoveFacts DEF Active
    <3>2. Resolved(worker[v].op, worker[v].attempt)
      BY <1>1, <1>7, <3>1
    <3>3. ExecutionIdentity(w) => ~SameAttempt(w, v)
      <4> SUFFICES ASSUME ExecutionIdentity(w), SameAttempt(w, v)
                   PROVE  FALSE
        OBVIOUS
      <4>1. OperationOf(v).attempts = worker[v].attempt /\ OperationOf(v).state = "RUNNING"
        BY DEF SameAttempt, ExecutionIdentity, Holds, OperationOf
      <4> QED
        BY <2>2, <3>1, <4>1, MoveFacts DEF OneExecutor
    <3>4. c \in intents' \ intents => ~(c[1] = worker[v].op /\ c[2] = worker[v].attempt)
      BY <1>2, <1>5, <3>3 DEF SameAttempt
    <3>5. Resolved(worker[v].op, worker[v].attempt)'
      <4> DEFINE o == worker[v].op
                 n == worker[v].attempt
      <4>1. \A k \in intents' : k[1] = o /\ k[2] = n =>
                calls'[k] \notin {"none", "UNKNOWN"} \/ k \in dropped'
        <5> SUFFICES ASSUME NEW k \in intents', k[1] = o, k[2] = n
                     PROVE  calls'[k] \notin {"none", "UNKNOWN"} \/ k \in dropped'
          OBVIOUS
        <5>1. CASE k # c
          <6>1. k \in Keys /\ KeyKept(k)
            BY <1>2, <1>3, <5>1 DEF OwnCallOnly, c
          <6> QED
            BY <1>3, <3>2, <6>1 DEF KeyKept, Resolved
        <5>2. CASE k = c
          <6>1. k \in intents
            BY <3>4, <5>2
          <6>2. k \in dropped
            BY <1>2, <3>2, <5>2, <6>1 DEF Resolved
          <6> QED
            BY <1>3, <6>2
        <5> QED
          BY <5>1, <5>2
      <4> QED
        BY <3>1, <4>1 DEF Resolved
    <3> QED
      BY <3>1, <3>5
  <2> QED
    BY <2>1, <2>2
<1> QED
  BY <1>6, <1>7 DEF RetriedWhenResolved

-----------------------------------------------------------------------------
(* The parts of the invariant *)

OperationsBudgeted ==
    \A o \in DOMAIN operations :
        LET op == operations[o] IN
        /\ op.attempts <= op.budget /\ op.budget <= MaxAttempts + MaxReplays
        /\ op.state \in {"PENDING", "RETRY"} => op.attempts < op.budget
        /\ op.attempts = 0 => op.state = "PENDING"

\* What concerns the ledger and the workers, and what concerns the rows.
LedgerInv ==
    /\ LedgerBegun /\ OneExecutor /\ ExecutorsProgress /\ CallsArePrefix /\ WrittenExists
    /\ ArtifactsExist /\ CallsStored /\ IntendedMeansUnsent /\ RetriedWhenResolved
RowsInv ==
    /\ VersionsPaid /\ SubmissionKeepsWorkflow /\ SubmissionKeepsBrief /\ StatesAgree
    /\ OutputIsFinal /\ HolderKnowsOutput

LEMMA InvariantParts ==
  VisionInv <=> VisionTypes /\ OperationsBudgeted /\ WorkersBudgeted /\ LedgerInv /\ RowsInv
  BY DEF VisionInv, AttemptsBudgeted, OperationsBudgeted, WorkersBudgeted, LedgerInv, RowsInv,
         LedgerSound, ArtifactsExist, CallsStored, VersionsPaid

LEMMA InvariantBasics == ASSUME VisionInv PROVE Basics
  BY DEF VisionInv, Basics

LEMMA PartsGiveInvariant ==
  ASSUME VisionTypes', OperationsBudgeted', WorkersBudgeted', LedgerInv', RowsInv'
  PROVE  VisionInv'
  BY DEF VisionInv, AttemptsBudgeted, OperationsBudgeted, WorkersBudgeted, LedgerInv, RowsInv,
         LedgerSound, ArtifactsExist, CallsStored, VersionsPaid

LEMMA BudgetsParts ==
  AttemptsBudgeted <=> OperationsBudgeted /\ WorkersBudgeted
  BY DEF AttemptsBudgeted, OperationsBudgeted, WorkersBudgeted

LEMMA MoveKeepsLedger ==
  ASSUME VisionInv, VisionTypes', NEW w \in Workers, ExecutorMove(w)
  PROVE  OperationsBudgeted' /\ WorkersBudgeted' /\ LedgerInv'
<1>1. Basics /\ LedgerBegun /\ OneExecutor /\ CallsArePrefix /\ WrittenExists
      /\ IntendedMeansUnsent /\ RetriedWhenResolved /\ AttemptsBudgeted
  BY DEF VisionInv, Basics
<1>2. WorkersProceed /\ OperationsProceed /\ operations' = operations
  BY MoveProceeds DEF ExecutorMove
<1>3. OperationsBudgeted'
  BY <1>1, <1>2 DEF AttemptsBudgeted, OperationsBudgeted
<1>4. LedgerInv'
  BY <1>1, <1>2, MoveKeepsBegun, OneExecutorStays, MoveKeepsProgress, MoveKeepsPrefix,
     MoveKeepsWritten, MoveKeepsStored, MoveKeepsIntended, MoveKeepsResolved DEF LedgerInv
<1> QED
  BY <1>1, <1>2, <1>3, <1>4, WorkersStayBudgeted

-----------------------------------------------------------------------------
(* A step that publishes nothing *)

LEMMA PlainKeepsTypes ==
  ASSUME VisionTypes, NEW w \in Workers, PlainMove(w)
  PROVE  VisionTypes'
<1>1. UNCHANGED <<workflow, retained, brief, versions, operations, confirmations, usable>>
      /\ faults' \in Nat
  BY DEF PlainMove, rows
<1>2. LedgerTypes' /\ worker' \in [Workers -> Executor]
  BY DEF PlainMove, ExecutorMove, OwnCallOnly, Stays
<1> QED
  BY <1>1, <1>2 DEF VisionTypes, BriefTypes, LedgerTypes, ConfirmationRows

\* An intent without a call was there before, or is the one being recorded.
LEMMA MovePending ==
  ASSUME Basics, NEW w \in Workers, ExecutorMove(w), NEW k \in intents', calls'[k] = "none"
  PROVE  \/ k \in intents /\ calls[k] = "none"
         \/ k = Current(w) /\ ExecutionIdentity(w)
<1>1. OwnCallOnly(w) /\ k \in Keys /\ calls[Current(w)] = "none"
  BY MoveFacts DEF OwnCallOnly, LedgerTypes
<1>2. CASE k # Current(w)
  BY <1>1, <1>2 DEF OwnCallOnly, KeyKept
<1>3. CASE k = Current(w)
  BY <1>1, <1>3 DEF OwnCallOnly
<1> QED
  BY <1>2, <1>3

LEMMA PaidStays ==
  ASSUME Basics, NEW w \in Workers, ExecutorMove(w), NEW k \in Keys, calls[k] = "SUCCEEDED"
  PROVE  calls'[k] = "SUCCEEDED"
<1>1. k # Current(w)
  BY MoveFacts
<1> QED
  BY <1>1, MoveFacts DEF OwnCallOnly, KeyKept

LEMMA PlainKeepsRows ==
  ASSUME VisionInv, NEW w \in Workers, PlainMove(w)
  PROVE  RowsInv'
<1>1. UNCHANGED <<workflow, brief, versions, operations, confirmations>> /\ ExecutorMove(w)
  BY DEF PlainMove, rows
<1>2. Basics
  BY InvariantBasics
<1>3. VersionsPaid'
  BY <1>1, <1>2, PaidStays DEF VersionsPaid, VisionInv, LedgerSound
<1>4. ASSUME NEW k \in intents', calls'[k] = "none", k[2] = operations[k[1]].attempts,
             operations[k[1]].state = "RUNNING"
      PROVE  /\ workflow.status = "UNDERSTANDING"
             /\ workflow.version = operations[k[1]].expected
             /\ brief.state = "DRAFT" /\ brief.operation = k[1]
  <2>1. CASE k \in intents /\ calls[k] = "none"
    BY <1>4, <2>1 DEF VisionInv, SubmissionKeepsWorkflow, SubmissionKeepsBrief
  <2>2. CASE k = Current(w) /\ ExecutionIdentity(w)
    <3>1. k[1] = worker[w].op
      BY <1>1, <1>2, <2>2, MoveFacts
    <3> QED
      BY <2>2, <3>1 DEF ExecutionIdentity, OperationOf
  <2> QED
    BY <1>1, <1>2, <1>4, <2>1, <2>2, MovePending
<1>5. SubmissionKeepsWorkflow' /\ SubmissionKeepsBrief'
  BY <1>1, <1>4 DEF SubmissionKeepsWorkflow, SubmissionKeepsBrief
<1>6. StatesAgree'
  BY <1>1 DEF StatesAgree, OutputOf, VisionInv
<1>7. OutputIsFinal'
  <2> SUFFICES ASSUME NEW o \in DOMAIN operations, OutputOf(o) # {}
               PROVE  /\ \A k \in Keys : k[1] = o /\ k[2] = operations[o].attempts =>
                            \A kind \in Kinds : artifact'[k][kind] \in {"none", "STORED"}
                      /\ \A v \in Workers : Executes(v)' /\ worker'[v].op = o =>
                            worker'[v].attempt # operations[o].attempts
    BY <1>1 DEF OutputIsFinal, OutputOf, VisionInv
  <2>1. /\ \A k \in Keys : k[1] = o /\ k[2] = operations[o].attempts =>
              \A kind \in Kinds : artifact[k][kind] \in {"none", "STORED"}
        /\ \A v \in Workers : Executes(v) /\ worker[v].op = o =>
              worker[v].attempt # operations[o].attempts
    BY DEF VisionInv, OutputIsFinal
  <2>2. \A k \in Keys : k[1] = o /\ k[2] = operations[o].attempts => KeyKept(k)
    BY <1>1, <1>2, <2>1, MoveFacts DEF OwnCallOnly
  <2>3. WorkersProceed
    BY <1>1, MoveProceeds
  <2> QED
    BY <2>1, <2>2, <2>3 DEF KeyKept, WorkersProceed, Executes, Executing
<1>8. HolderKnowsOutput'
  <2> SUFFICES ASSUME NEW v \in Workers, Active(v)', Holds(v)'
               PROVE  /\ worker'[v].pc = "decide" /\ OutputOf(worker'[v].op) # {} =>
                            worker'[v].result = "none"
                      /\ worker'[v].pc = "settle" =>
                            IF worker'[v].result \in {"success", "wait"}
                            THEN \E n \in DOMAIN versions : versions[n].operation = worker'[v].op
                            ELSE OutputOf(worker'[v].op) = {}
    BY <1>1 DEF HolderKnowsOutput, OutputOf
  <2>1. CASE v # w
    <3>1. worker'[v] = worker[v]
      BY <1>1, <1>2, <2>1, MoveFacts
    <3>2. Active(v) /\ Holds(v)
      BY <1>1, <3>1 DEF Active, Holds, OperationOf
    <3> QED
      BY <3>1, <3>2 DEF VisionInv, HolderKnowsOutput
  <2>2. CASE v = w
    <3>1. worker'[w].op = worker[w].op /\ worker'[w].attempt = worker[w].attempt
          /\ worker'[w].pc # "decide"
          /\ (worker'[w].pc = "settle" => worker'[w].result \notin {"success", "wait"})
      BY <1>1 DEF PlainMove, ExecutorMove, Stays, Executing
    <3>2. worker[w].attempt = operations[worker[w].op].attempts
      BY <1>1, <2>2, <3>1 DEF Holds, OperationOf
    <3>3. OutputOf(worker[w].op) = {}
      BY <1>1, <1>2, <3>2, MoveFacts DEF VisionInv, OutputIsFinal
    <3> QED
      BY <2>2, <3>1, <3>3
  <2> QED
    BY <2>1, <2>2
<1> QED
  BY <1>3, <1>5, <1>6, <1>7, <1>8 DEF RowsInv

LEMMA PlainMoveKeeps ==
  ASSUME VisionInv, NEW w \in Workers, PlainMove(w)
  PROVE  VisionInv'
<1>1. VisionTypes'
  BY PlainKeepsTypes DEF VisionInv
<1>2. OperationsBudgeted' /\ WorkersBudgeted' /\ LedgerInv'
  BY <1>1, MoveKeepsLedger DEF PlainMove
<1> QED
  BY <1>1, <1>2, PlainKeepsRows, PartsGiveInvariant

-----------------------------------------------------------------------------
(* The step that publishes a version *)

Published(w, v) ==
    /\ versions' = Append(versions, v)
    /\ brief' = PublishVersion(brief, v)
    /\ workflow' = IF v.required THEN Moved("AWAITING_PRODUCT_CONFIRMATION", "confirm_product_brief")
                   ELSE Moved("RETRIEVING", "retrieve_references")
    /\ worker'[w].pc = "settle"
    /\ worker'[w].result = IF v.required THEN "wait" ELSE "success"

Publishes(w) ==
    /\ ExecutorMove(w) /\ RecordsCall(w) /\ worker[w].pc = "outcome" /\ Last(w) = "SUCCEEDED"
    /\ ExecutionIdentity(w)
    /\ UNCHANGED <<retained, operations, confirmations, usable>> /\ faults' \in Nat
    /\ \E review \in BOOLEAN : Published(w, NewVersion("MODEL", worker[w].op, review))

LEMMA PersistSuccessMove ==
  ASSUME Basics, NEW w \in Workers, PersistSuccess(w)
  PROVE  PlainMove(w) \/ Publishes(w)
<1>1. worker[w].pc = "outcome" /\ Last(w) = "SUCCEEDED"
      /\ UNCHANGED <<retained, operations, confirmations, usable, intents, artifact, dropped, objects,
                     submitted>>
  BY DEF PersistSuccess
<1>2. PICK grounded \in BOOLEAN, review \in BOOLEAN :
       LET v == NewVersion("MODEL", worker[w].op, review) IN
       /\ Unless(~grounded)
       /\ IF grounded /\ ExecutionIdentity(w) /\ CallsBound(w)
          THEN /\ StoreCalls(w)
               /\ versions' = Append(versions, v)
               /\ brief' = PublishVersion(brief, v)
               /\ workflow' = IF v.required
                              THEN Moved("AWAITING_PRODUCT_CONFIRMATION", "confirm_product_brief")
                              ELSE Moved("RETRIEVING", "retrieve_references")
               /\ Finish(w, IF v.required THEN "wait" ELSE "success")
          ELSE Finish(w, "fail") /\ UNCHANGED <<calls, versions, brief, workflow, continuations>>
  BY DEF PersistSuccess
<1>3. Executes(w) /\ Progress(w) /\ faults' \in Nat
  BY <1>1, <1>2, FaultCounted DEF Executes, Executing, Basics, ExecutorsProgress
<1>4. CASE grounded /\ ExecutionIdentity(w) /\ CallsBound(w)
  <2> DEFINE v == NewVersion("MODEL", worker[w].op, review)
  <2>1. /\ StoreCalls(w) /\ versions' = Append(versions, v) /\ brief' = PublishVersion(brief, v)
        /\ workflow' = IF v.required
                       THEN Moved("AWAITING_PRODUCT_CONFIRMATION", "confirm_product_brief")
                       ELSE Moved("RETRIEVING", "retrieve_references")
        /\ Finish(w, IF v.required THEN "wait" ELSE "success")
    BY <1>2, <1>4
  <2> HIDE DEF v
  <2>2. RecordsCall(w) /\ LedgerMove(w)
    BY <1>1, <1>3, <1>4, <2>1, StoreCallsOnce DEF RecordsCall, LedgerMove, Basics
  <2>3. ASSUME NEW result \in {"success", "wait"}, Finish(w, result)
        PROVE  ExecutorMove(w) /\ worker'[w].pc = "settle" /\ worker'[w].result = result
    BY <1>1, <1>3, <2>2, <2>3, FinishMove
  <2>4. /\ ExecutorMove(w) /\ worker'[w].pc = "settle"
        /\ worker'[w].result = IF v.required THEN "wait" ELSE "success"
    <3>1. CASE v.required
      BY <2>1, <2>3, <3>1
    <3>2. CASE ~v.required
      BY <2>1, <2>3, <3>2
    <3> QED
      BY <3>1, <3>2
  <2>5. Published(w, v)
    BY <2>1, <2>4 DEF Published
  <2> QED
    BY <1>1, <1>3, <1>4, <2>2, <2>4, <2>5 DEF Publishes, v
<1>5. CASE ~(grounded /\ ExecutionIdentity(w) /\ CallsBound(w))
  <2>1. Finish(w, "fail") /\ UNCHANGED <<calls, versions, brief, workflow, continuations>>
    BY <1>2, <1>5
  <2>2. LedgerMove(w)
    BY <1>1, <2>1 DEF LedgerMove, ledger
  <2>3. ExecutorMove(w) /\ worker'[w].pc = "settle" /\ worker'[w].result = "fail"
    BY <1>1, <1>3, <2>1, <2>2, FinishMove
  <2> QED
    BY <1>1, <1>3, <2>1, <2>3 DEF PlainMove, rows
<1> QED
  BY <1>4, <1>5

\* A version is added to the end, and every earlier one stays.
LEMMA VersionAdded ==
  ASSUME VisionTypes, NEW v \in VersionRow, versions' = Append(versions, v)
  PROVE  /\ versions' \in Seq(VersionRow) /\ NextVersionNumber \in DOMAIN versions'
         /\ versions'[NextVersionNumber] = v /\ NextVersionNumber \in Nat
         /\ DOMAIN versions' = DOMAIN versions \cup {NextVersionNumber}
         /\ NextVersionNumber \notin DOMAIN versions
         /\ \A n \in DOMAIN versions : versions'[n] = versions[n]
<1>1. versions \in Seq(VersionRow) /\ Len(versions) \in Nat /\ DOMAIN versions = 1..Len(versions)
  BY OperationFacts
<1>2. /\ versions' \in Seq(VersionRow) /\ Len(versions') = Len(versions) + 1
      /\ \A n \in 1..Len(versions) : versions'[n] = versions[n]
      /\ versions'[Len(versions) + 1] = v
  BY <1>1, AppendProperties
<1>3. DOMAIN versions' = 1..(Len(versions) + 1)
  BY <1>2, LenProperties
<1> QED
  BY <1>1, <1>2, <1>3 DEF NextVersionNumber

LEMMA ModelVersion ==
  ASSUME VisionTypes, NEW o \in Nat, NEW review \in BOOLEAN
  PROVE  /\ NewVersion("MODEL", o, review) \in VersionRow
         /\ NewVersion("MODEL", o, review).source = "MODEL"
         /\ NewVersion("MODEL", o, review).operation = o
         /\ NewVersion("MODEL", o, review).required \in BOOLEAN
  BY DEF NewVersion, VersionRow, ConfirmationRequired

\* The brief and the workflow after a publication.
LEMMA BriefPublished ==
  ASSUME VisionTypes, NEW v \in VersionRow
  PROVE  LET b == PublishVersion(brief, v) IN
         /\ b \in BriefRow /\ b.operation = brief.operation /\ b.current = NextVersionNumber
         /\ v.required => b.state = "AWAITING_CONFIRMATION"
         /\ ~v.required => b.state = "CONFIRMED" /\ b.confirmed = NextVersionNumber
<1>1. brief \in BriefRow /\ NextVersionNumber \in Nat /\ v.required \in BOOLEAN
  BY OperationFacts DEF VisionTypes, BriefTypes, NextVersionNumber, VersionRow
<1>2. brief.version + 1 \in Nat
  BY <1>1 DEF BriefRow
<1>3. CASE v.required
  BY <1>1, <1>2, <1>3 DEF PublishVersion, BriefRow
<1>4. CASE ~v.required
  BY <1>1, <1>2, <1>4 DEF PublishVersion, BriefRow
<1> QED
  BY <1>1, <1>3, <1>4

LEMMA WorkflowMoved ==
  ASSUME VisionTypes,
         NEW status \in {"UNDERSTANDING", "AWAITING_PRODUCT_CONFIRMATION", "RETRIEVING", "CANCELLED"},
         NEW node \in {"understand_product", "confirm_product_brief", "retrieve_references"}
  PROVE  Moved(status, node) \in WorkflowRow /\ Moved(status, node).status = status
<1>1. workflow \in WorkflowRow
  BY DEF VisionTypes
<1>2. workflow.version + 1 \in Nat
  BY <1>1 DEF WorkflowRow
<1> QED
  BY <1>1, <1>2 DEF Moved, WorkflowRow

LEMMA PublishKeepsTypes ==
  ASSUME VisionTypes, NEW w \in Workers, Publishes(w)
  PROVE  VisionTypes'
<1>1. PICK review \in BOOLEAN : Published(w, NewVersion("MODEL", worker[w].op, review))
  BY DEF Publishes
<1> DEFINE v == NewVersion("MODEL", worker[w].op, review)
<1>2. v \in VersionRow /\ v.required \in BOOLEAN
  BY ModelVersion, WorkerFacts
<1> HIDE DEF v
<1>3. versions' = Append(versions, v) /\ brief' = PublishVersion(brief, v)
      /\ workflow' = IF v.required THEN Moved("AWAITING_PRODUCT_CONFIRMATION", "confirm_product_brief")
                     ELSE Moved("RETRIEVING", "retrieve_references")
  BY <1>1 DEF Published, v
<1>4. versions' \in Seq(VersionRow) /\ DOMAIN versions \subseteq DOMAIN versions'
  BY <1>2, <1>3, VersionAdded
<1>5. brief' \in BriefRow
  BY <1>2, <1>3, BriefPublished
<1>6. workflow' \in WorkflowRow
  <2>1. CASE v.required
    BY <1>3, <2>1, WorkflowMoved
  <2>2. CASE ~v.required
    BY <1>3, <2>2, WorkflowMoved
  <2> QED
    BY <2>1, <2>2
<1>7. UNCHANGED <<retained, operations, confirmations, usable>> /\ faults' \in Nat
  BY DEF Publishes
<1>8. LedgerTypes' /\ worker' \in [Workers -> Executor]
  BY DEF Publishes, ExecutorMove, OwnCallOnly, Stays
<1>9. BriefTypes'
  BY <1>4, <1>5, <1>7 DEF BriefTypes, VisionTypes, ConfirmationRows
<1> QED
  BY <1>6, <1>8, <1>9 DEF VisionTypes, LedgerTypes

\* The attempt of a successful call is complete in the ledger: requests and
\* responses are stored, and there is nothing else.
LEMMA SuccessIsComplete ==
  ASSUME Basics, NEW w \in Workers, Executes(w), worker[w].pc = "outcome",
         Last(w) = "SUCCEEDED", CallsBound(w),
         NEW k \in Keys, k[1] = worker[w].op, k[2] = worker[w].attempt, NEW kind \in Kinds
  PROVE  artifact[k][kind] \in {"none", "STORED"}
<1>1. /\ Progress(w) /\ Current(w)[3] = Len(worker[w].calls) - 1 /\ worker[w].calls # << >>
      /\ k[3] \in Nat /\ Len(worker[w].calls) \in Nat
      /\ DOMAIN worker[w].calls = 1..Len(worker[w].calls)
  BY CurrentKey, KeyParts, WorkerFacts DEF Basics, ExecutorsProgress, Progress, Recorded
<1>2. Len(worker[w].calls) \in DOMAIN worker[w].calls /\ Len(worker[w].calls) >= 1
      /\ Last(w) = worker[w].calls[Len(worker[w].calls)]
  BY <1>1, LastIsStatus DEF Basics
<1>3. kind = "REQUEST" \/ kind = "RESPONSE"
  BY DEF Kinds
<1>4. CASE k[3] < Current(w)[3]
  <2>1. k[3] + 1 \in 1..Recorded(w) /\ k[3] + 1 \in DOMAIN worker[w].calls
    BY <1>1, <1>4 DEF Recorded
  <2>2. worker[w].calls[k[3] + 1] = "MALFORMED"
    BY <1>1, <2>1 DEF Progress
  <2>3. Bound(CallKey(w, k[3] + 1), "MALFORMED")
    BY <2>1, <2>2 DEF CallsBound, Outcomes
  <2>4. CallKey(w, k[3] + 1) = k
    <3>1. k[3] + 1 - 1 = k[3]
      BY <1>1
    <3> QED
      BY <3>1, KeyParts DEF CallKey
  <2> QED
    BY <1>3, <2>3, <2>4 DEF Bound
<1>5. CASE k = Current(w)
  <2>1. Bound(CallKey(w, Len(worker[w].calls)), "SUCCEEDED")
    BY <1>2 DEF CallsBound, Outcomes
  <2>2. Bound(k, "SUCCEEDED")
    BY <1>5, <2>1, LastIsCurrent DEF Basics
  <2> QED
    BY <1>3, <2>2 DEF Bound
<1>6. CASE Blank(k)
  BY <1>6 DEF Blank
<1> QED
  BY <1>4, <1>5, <1>6, AttemptLedger

LEMMA PublishKeepsRows ==
  ASSUME VisionInv, NEW w \in Workers, Publishes(w)
  PROVE  RowsInv'
<1>0. PICK o : o = worker[w].op
  OBVIOUS
<1> DEFINE number == NextVersionNumber
<1>1. /\ ExecutorMove(w) /\ Executes(w) /\ worker[w].pc = "outcome" /\ Last(w) = "SUCCEEDED"
      /\ CallsBound(w) /\ ExecutionIdentity(w)
      /\ UNCHANGED <<operations, confirmations, intents, artifact, dropped, objects>>
      /\ calls' = [calls EXCEPT ![Current(w)] = Last(w)]
  BY DEF Publishes, RecordsCall, ExecutorMove
<1>2. PICK review \in BOOLEAN : Published(w, NewVersion("MODEL", o, review))
  BY <1>0 DEF Publishes
<1> DEFINE v == NewVersion("MODEL", o, review)
<1>3. v \in VersionRow /\ v.source = "MODEL" /\ v.operation = o /\ v.required \in BOOLEAN
  BY <1>0, ModelVersion, WorkerFacts DEF VisionInv
<1> HIDE DEF v
<1>4. /\ versions' = Append(versions, v) /\ brief' = PublishVersion(brief, v)
      /\ workflow' = IF v.required
                     THEN Moved("AWAITING_PRODUCT_CONFIRMATION", "confirm_product_brief")
                     ELSE Moved("RETRIEVING", "retrieve_references")
      /\ worker'[w].pc = "settle"
      /\ worker'[w].result = IF v.required THEN "wait" ELSE "success"
  BY <1>2 DEF Published, v
<1>5. /\ operations[o].state = "RUNNING" /\ operations[o].holder = w
      /\ operations[o].attempts = worker[w].attempt
      /\ brief.state = "DRAFT" /\ brief.operation = o
  BY <1>0, <1>1 DEF ExecutionIdentity, Holds, OperationOf
<1>6. /\ number \in DOMAIN versions' /\ versions'[number] = v
      /\ DOMAIN versions' = DOMAIN versions \cup {number} /\ number \notin DOMAIN versions
      /\ \A n \in DOMAIN versions : versions'[n] = versions[n]
  BY <1>3, <1>4, VersionAdded DEF VisionInv
<1>7. /\ brief'.operation = o /\ brief'.current = number
      /\ v.required => brief'.state = "AWAITING_CONFIRMATION"
      /\ ~v.required => brief'.state = "CONFIRMED" /\ brief'.confirmed = number
  BY <1>3, <1>4, <1>5, BriefPublished DEF VisionInv
<1>8. /\ v.required => workflow'.status = "AWAITING_PRODUCT_CONFIRMATION"
      /\ ~v.required => workflow'.status = "RETRIEVING"
  BY <1>4, WorkflowMoved DEF VisionInv
<1>9. /\ Basics /\ Current(w) \in Keys /\ Current(w)[1] = o
      /\ Current(w)[2] = worker[w].attempt /\ o \in DOMAIN operations
      /\ calls[Current(w)] = "none"
  BY <1>0, <1>1, MoveFacts, InvariantBasics
<1>10. \A p : p # o => OutputOf(p)' = OutputOf(p)
  BY <1>3, <1>6 DEF OutputOf
<1> HIDE DEF number
<1>11. VersionsPaid'
  <2>1. calls'[Current(w)] = "SUCCEEDED"
    BY <1>1, <1>9 DEF Basics, VisionTypes
  <2>2. ASSUME NEW n \in DOMAIN versions, versions[n].source = "MODEL"
        PROVE  \E k \in Keys : k[1] = versions[n].operation /\ calls'[k] = "SUCCEEDED"
    <3>1. PICK k \in Keys : k[1] = versions[n].operation /\ calls[k] = "SUCCEEDED"
      BY <2>2 DEF VisionInv, LedgerSound
    <3> QED
      BY <1>1, <1>9, <3>1, PaidStays
  <2> QED
    BY <1>3, <1>6, <1>9, <2>1, <2>2 DEF VersionsPaid
<1>12. \A k \in intents' : ~(/\ calls'[k] = "none" /\ k[2] = operations[k[1]].attempts
                             /\ operations[k[1]].state = "RUNNING")
  <2> SUFFICES ASSUME NEW k \in intents, calls'[k] = "none", k[2] = operations[k[1]].attempts,
                      operations[k[1]].state = "RUNNING"
               PROVE  FALSE
    BY <1>1
  <2>1. k \in Keys /\ calls \in [Keys -> CallStatus \cup {"none"}]
    BY <1>9 DEF Basics, VisionTypes
  <2>2. k # Current(w) /\ calls[k] = "none"
    BY <1>1, <1>9, <2>1
  <2>3. k[1] = o
    BY <1>5, <2>2 DEF VisionInv, SubmissionKeepsBrief
  <2>4. k[2] = worker[w].attempt
    BY <1>5, <2>3
  <2> QED
    BY <1>0, <1>1, <1>9, <2>1, <2>2, <2>3, <2>4, AttemptLedger DEF Blank
<1>13. SubmissionKeepsWorkflow' /\ SubmissionKeepsBrief'
  BY <1>1, <1>12 DEF SubmissionKeepsWorkflow, SubmissionKeepsBrief
<1>14. StatesAgree'
  <2>1. workflow'.status = "AWAITING_PRODUCT_CONFIRMATION" => brief'.state = "AWAITING_CONFIRMATION"
    BY <1>3, <1>7, <1>8
  <2>2. workflow'.status = "RETRIEVING" =>
            /\ brief'.state = "CONFIRMED" /\ brief'.confirmed = brief'.current
            /\ versions'[brief'.current].required => brief'.current \in confirmations'
    BY <1>3, <1>6, <1>7, <1>8
  <2>3. workflow'.status # "UNDERSTANDING"
    BY <1>3, <1>8
  <2>4. ASSUME NEW p \in DOMAIN operations
        PROVE  /\ operations[p].state \in {"WAITING_HUMAN", "SUCCEEDED"} =>
                     \E n \in DOMAIN versions' : versions'[n].operation = p
               /\ operations[p].state = "FAILED" => OutputOf(p)' = {}
    BY <1>5, <1>6, <1>10 DEF VisionInv, StatesAgree
  <2> QED
    BY <1>1, <2>1, <2>2, <2>3, <2>4 DEF StatesAgree
<1>15. OutputIsFinal'
  <2>1. \A n \in DOMAIN versions' : versions'[n].operation \in DOMAIN operations
    BY <1>3, <1>6, <1>9 DEF VisionInv, OutputIsFinal
  <2>2. brief'.operation \in DOMAIN operations /\ brief'.current \in DOMAIN versions'
    BY <1>6, <1>7, <1>9
  <2>3. WorkersProceed
    BY <1>1, MoveProceeds
  <2>4. ASSUME NEW p \in DOMAIN operations, OutputOf(p)' # {}
        PROVE  /\ operations[p].state \in {"RUNNING", "RECONCILING", "WAITING_HUMAN", "SUCCEEDED"}
               /\ \A k \in Keys : k[1] = p /\ k[2] = operations[p].attempts =>
                     \A kind \in Kinds : artifact'[k][kind] \in {"none", "STORED"}
               /\ \A u \in Workers : Executes(u)' /\ worker'[u].op = p =>
                     worker'[u].attempt # operations[p].attempts
    <3>1. CASE p = o
      <4>1. \A k \in Keys : k[1] = p /\ k[2] = operations[p].attempts =>
                \A kind \in Kinds : artifact'[k][kind] \in {"none", "STORED"}
        BY <1>0, <1>1, <1>5, <1>9, <3>1, SuccessIsComplete
      <4>2. ASSUME NEW u \in Workers, Executes(u)', worker'[u].op = p,
                   worker'[u].attempt = operations[p].attempts
            PROVE  FALSE
        <5>1. u # w
          BY <1>4, <4>2 DEF Executes, Executing
        <5>2. Executes(u) /\ SameAttempt(u, w)
          BY <1>0, <1>5, <2>3, <3>1, <4>2 DEF WorkersProceed, Executes, Executing, SameAttempt
        <5> QED
          BY <1>1, <5>1, <5>2, MoveFacts, InvariantBasics DEF VisionInv, OneExecutor
      <4> QED
        BY <1>5, <3>1, <4>1, <4>2
    <3>2. CASE p # o
      <4>1. OutputOf(p) # {}
        BY <1>10, <2>4, <3>2
      <4>2. /\ operations[p].state \in {"RUNNING", "RECONCILING", "WAITING_HUMAN", "SUCCEEDED"}
            /\ \A k \in Keys : k[1] = p /\ k[2] = operations[p].attempts =>
                  \A kind \in Kinds : artifact[k][kind] \in {"none", "STORED"}
            /\ \A u \in Workers : Executes(u) /\ worker[u].op = p =>
                  worker[u].attempt # operations[p].attempts
        BY <4>1 DEF VisionInv, OutputIsFinal
      <4> QED
        BY <1>1, <2>3, <4>2 DEF WorkersProceed, Executes, Executing
    <3> QED
      BY <3>1, <3>2
  <2> QED
    BY <1>1, <2>1, <2>2, <2>4 DEF OutputIsFinal
<1>16. HolderKnowsOutput'
  <2> SUFFICES ASSUME NEW u \in Workers, Active(u)', Holds(u)'
               PROVE  /\ worker'[u].pc = "decide" /\ OutputOf(worker[u].op)' # {} =>
                            worker'[u].result = "none"
                      /\ worker'[u].pc = "settle" =>
                            IF worker'[u].result \in {"success", "wait"}
                            THEN \E n \in DOMAIN versions' : versions'[n].operation = worker'[u].op
                            ELSE OutputOf(worker[u].op)' = {}
    BY DEF HolderKnowsOutput
  <2>1. CASE u = w
    <3>1. worker'[w].op = o
      BY <1>0, <1>1 DEF ExecutorMove, Stays
    <3> QED
      BY <1>3, <1>4, <1>6, <2>1, <3>1
  <2>2. CASE u # w
    <3>1. worker'[u] = worker[u]
      BY <1>1, <1>9, <2>2, MoveFacts
    <3>2. Active(u) /\ Holds(u)
      BY <1>1, <3>1 DEF Active, Holds, OperationOf
    <3>3. worker[u].op # o
      BY <1>5, <2>2, <3>2 DEF Holds, OperationOf
    <3>4. OutputOf(worker[u].op)' = OutputOf(worker[u].op)
      BY <1>10, <3>1, <3>3 DEF OutputOf
    <3> QED
      BY <1>6, <3>1, <3>2, <3>4 DEF VisionInv, HolderKnowsOutput
  <2> QED
    BY <2>1, <2>2
<1> QED
  BY <1>11, <1>13, <1>14, <1>15, <1>16 DEF RowsInv

LEMMA PublishKeeps ==
  ASSUME VisionInv, NEW w \in Workers, Publishes(w)
  PROVE  VisionInv'
<1>1. VisionTypes'
  BY PublishKeepsTypes DEF VisionInv
<1>2. OperationsBudgeted' /\ WorkersBudgeted' /\ LedgerInv'
  BY <1>1, MoveKeepsLedger DEF Publishes
<1> QED
  BY <1>1, <1>2, PublishKeepsRows, PartsGiveInvariant

-----------------------------------------------------------------------------
(* A reconciliation reads the ledger *)

LEMMA InspectedArtifact ==
  ASSUME VisionTypes, ArtifactsExist, NEW k \in Keys, NEW kind \in Kinds, NEW intact \in BOOLEAN
  PROVE  /\ Inspected(k, kind, intact) \in ArtifactState
         /\ artifact[k][kind] \in {"none", "STORED"} =>
               Inspected(k, kind, intact) = artifact[k][kind]
         /\ Inspected(k, kind, intact) = "STORED" => <<k, kind>> \in objects
<1>1. artifact[k][kind] \in ArtifactState
  BY DEF VisionTypes
<1>2. CASE artifact[k][kind] \in {"none", "STORED"}
  BY <1>1, <1>2 DEF Inspected, ArtifactsExist
<1>3. CASE artifact[k][kind] \notin {"none", "STORED"}
  BY <1>1, <1>3 DEF Inspected, ArtifactState
<1> QED
  BY <1>2, <1>3

LEMMA UnresolvedFacts ==
  ASSUME NEW w \in Workers, NEW state
  PROVE  /\ Unresolved(w, state) \in {"none", "lost", "response", "intended"}
         /\ (\A k \in KeysOf(w) : \A kind \in Kinds : state[k][kind] \in {"none", "STORED"})
               => Unresolved(w, state) = "none"
         /\ Unresolved(w, state) = "intended" =>
               \E k \in KeysOf(w) : state[k]["REQUEST"] \notin {"none", "STORED"}
  BY DEF Unresolved, Kinds

\* What an inspection leaves.
Inspection(w) ==
    /\ worker[w].pc = "inspect" /\ UNCHANGED <<rows, intents, calls, dropped, objects, submitted>>
    /\ faults' \in Nat /\ artifact' \in [Keys -> [Kinds -> ArtifactState]]
    /\ \A k \in Keys, kind \in Kinds :
          /\ artifact[k][kind] \in {"none", "STORED"} => artifact'[k][kind] = artifact[k][kind]
          /\ artifact'[k][kind] = "STORED" => <<k, kind>> \in objects
    /\ Stays(w) /\ worker'[w].pc = "decide"
    /\ (\A k \in KeysOf(w) : \A kind \in Kinds : artifact'[k][kind] \in {"none", "STORED"})
          => worker'[w].result = "none"
    /\ worker'[w].result = "intended" =>
          \E k \in KeysOf(w) : artifact'[k]["REQUEST"] \notin {"none", "STORED"}

LEMMA InspectArtifactsMove ==
  ASSUME VisionInv, NEW w \in Workers, InspectArtifacts(w)
  PROVE  Inspection(w)
<1>1. PICK intact \in BOOLEAN :
          /\ Unless(~intact)
          /\ artifact' = [k \in Keys |-> [kind \in Kinds |->
                IF k \in KeysOf(w) THEN Inspected(k, kind, intact) ELSE artifact[k][kind]]]
          /\ worker' = [worker EXCEPT ![w].pc = "decide", ![w].result = Unresolved(w, artifact')]
  BY DEF InspectArtifacts
<1>2. VisionTypes /\ ArtifactsExist
  BY InvariantParts DEF LedgerInv
<1>3. \A k \in Keys, kind \in Kinds :
          /\ artifact'[k][kind] \in ArtifactState
          /\ artifact[k][kind] \in {"none", "STORED"} => artifact'[k][kind] = artifact[k][kind]
          /\ artifact'[k][kind] = "STORED" => <<k, kind>> \in objects
  <2> SUFFICES ASSUME NEW k \in Keys, NEW kind \in Kinds
               PROVE  /\ artifact'[k][kind] \in ArtifactState
                      /\ artifact[k][kind] \in {"none", "STORED"} =>
                            artifact'[k][kind] = artifact[k][kind]
                      /\ artifact'[k][kind] = "STORED" => <<k, kind>> \in objects
    OBVIOUS
  <2>1. artifact'[k][kind] = IF k \in KeysOf(w) THEN Inspected(k, kind, intact)
                             ELSE artifact[k][kind]
    BY <1>1
  <2>2. artifact[k][kind] \in ArtifactState
        /\ (artifact[k][kind] = "STORED" => <<k, kind>> \in objects)
    BY <1>2 DEF VisionTypes, ArtifactsExist
  <2> QED
    BY <1>2, <2>1, <2>2, InspectedArtifact
<1>4. artifact' \in [Keys -> [Kinds -> ArtifactState]]
  BY <1>1, <1>3
<1>5. Unresolved(w, artifact') \in {"none", "lost", "response", "intended"}
  BY UnresolvedFacts
<1>6. Becomes(w, "decide", worker[w].kind, worker[w].calls, Unresolved(w, artifact'))
  BY <1>1, <1>2, <1>5, ResultBecomes
<1>7. Stays(w) /\ worker'[w].pc = "decide" /\ worker'[w].result = Unresolved(w, artifact')
  BY <1>6 DEF Becomes, Stays
<1>8. faults' \in Nat
  BY <1>1, <1>2, FaultCounted
<1>9. worker[w].pc = "inspect" /\ UNCHANGED <<rows, intents, calls, dropped, objects, submitted>>
  BY DEF InspectArtifacts
<1>10. /\ (\A k \in KeysOf(w) : \A kind \in Kinds : artifact'[k][kind] \in {"none", "STORED"})
             => worker'[w].result = "none"
       /\ worker'[w].result = "intended" =>
             \E k \in KeysOf(w) : artifact'[k]["REQUEST"] \notin {"none", "STORED"}
  BY <1>7, UnresolvedFacts
<1> QED
  BY <1>3, <1>4, <1>7, <1>8, <1>9, <1>10 DEF Inspection

\* An executor that cannot tell the outcome of its request has stored every one.
LEMMA UncertainStored ==
  ASSUME Basics, NEW v \in Workers, Executes(v), Uncertain(v), NEW k \in KeysOf(v)
  PROVE  artifact[k]["REQUEST"] \in {"none", "STORED"}
<1>1. artifact[Current(v)]["REQUEST"] = "STORED"
  BY ExecutorsCall DEF Basics, ExecutorsProgress, Uncertain
<1> QED
  BY <1>1, AttemptLedger DEF KeysOf, Blank, Kinds

LEMMA InspectionKeepsLedger ==
  ASSUME VisionInv, VisionTypes', NEW w \in Workers, Inspection(w)
  PROVE  OperationsBudgeted' /\ WorkersBudgeted' /\ LedgerInv'
<1>1. /\ worker[w].pc = "inspect" /\ worker'[w].pc = "decide" /\ Stays(w)
      /\ UNCHANGED <<operations, intents, calls, dropped, objects, submitted>>
      /\ worker'[w].op = worker[w].op /\ worker'[w].attempt = worker[w].attempt
      /\ \A v \in Workers : v # w => worker'[v] = worker[v]
  BY DEF Inspection, rows, Stays
<1>2. \A k \in Keys, kind \in Kinds :
          /\ artifact[k][kind] \in {"none", "STORED"} => artifact'[k][kind] = artifact[k][kind]
          /\ artifact'[k][kind] = "STORED" => <<k, kind>> \in objects
  BY DEF Inspection
<1>3. Basics /\ OperationsBudgeted /\ WorkersBudgeted /\ LedgerInv /\ AttemptsBudgeted /\ VisionTypes
  BY InvariantBasics, InvariantParts, BudgetsParts
<1>4. WorkersProceed
  <2> SUFFICES ASSUME NEW v \in Workers, worker'[v].pc # "idle"
               PROVE  /\ Active(v) /\ worker'[v].op = worker[v].op
                      /\ worker'[v].attempt = worker[v].attempt
                      /\ worker'[v].pc \in Executing => Executes(v)
    BY DEF WorkersProceed
  <2>1. CASE v = w
    BY <1>1, <2>1 DEF Active, Executing
  <2>2. CASE v # w
    BY <1>1, <2>2 DEF Active, Executes
  <2> QED
    BY <2>1, <2>2
<1>5. OperationsProceed /\ OperationsBudgeted'
  BY <1>1, <1>3 DEF OperationsProceed, OperationsBudgeted
<1>6. WorkersBudgeted' /\ OneExecutor'
  BY <1>3, <1>4, <1>5, WorkersStayBudgeted, OneExecutorStays DEF LedgerInv
<1>7. LedgerBegun'
  <2>1. \A k \in Keys : Blank(k) => Blank(k)'
    BY <1>1, <1>2 DEF Blank
  <2> QED
    BY <1>1, <1>3, <2>1 DEF LedgerInv, LedgerBegun
<1>8. ExecutorsProgress'
  <2> SUFFICES ASSUME NEW v \in Workers, Executes(v)'
               PROVE  Progress(v)'
    BY DEF ExecutorsProgress
  <2>1. worker'[v] = worker[v]
    BY <1>1 DEF Executes, Executing
  <2>2. Progress(v)
    BY <1>3, <2>1 DEF LedgerInv, ExecutorsProgress, Executes
  <2> QED
    BY <1>1, <1>2, <1>3, <2>1, <2>2, ProgressKept DEF KeysOf
<1>9. CallsArePrefix'
  <2>1. \A k \in Keys : artifact[k]["REQUEST"] \in {"none", "STORED"} =>
            artifact'[k]["REQUEST"] = artifact[k]["REQUEST"]
    BY <1>2 DEF Kinds
  <2> QED
    BY <1>1, <1>3, <2>1 DEF LedgerInv, CallsArePrefix
<1>10. WrittenExists'
  <2> SUFFICES ASSUME NEW v \in Workers, worker'[v].pc = "mark", worker'[v].result = "written"
               PROVE  <<Key(v)', worker'[v].kind>> \in objects'
    BY DEF WrittenExists
  <2>1. worker'[v] = worker[v] /\ Key(v)' = Key(v)
    BY <1>1 DEF Key
  <2> QED
    BY <1>1, <1>3, <2>1 DEF LedgerInv, WrittenExists
<1>11. ArtifactsExist' /\ CallsStored'
  <2>1. \A k \in Keys, kind \in Kinds : artifact[k][kind] = "STORED" => artifact'[k][kind] = "STORED"
    BY <1>2
  <2>2. CallsStored'
    BY <1>1, <1>3, <2>1 DEF LedgerInv, CallsStored, Kinds
  <2> QED
    BY <1>1, <1>2, <2>2 DEF ArtifactsExist
<1>12. IntendedMeansUnsent'
  <2> SUFFICES ASSUME NEW v \in Workers, worker'[v].pc = "decide", worker'[v].result = "intended"
               PROVE  /\ \A k \in KeysOf(v)' : calls'[k] # "UNKNOWN"
                      /\ \A u \in Workers : Executes(u)' /\ SameAttempt(u, v)' => ~Uncertain(u)'
    BY DEF IntendedMeansUnsent
  <2>1. KeysOf(v)' = KeysOf(v) /\ worker'[v].op = worker[v].op
        /\ worker'[v].attempt = worker[v].attempt
    BY <1>1 DEF KeysOf
  <2>2. \A u \in Workers : Executes(u)' =>
            /\ worker'[u] = worker[u] /\ Executes(u)
            /\ (Uncertain(u)' => Uncertain(u)) /\ (SameAttempt(u, v)' => SameAttempt(u, v))
    <3> SUFFICES ASSUME NEW u \in Workers, Executes(u)'
                 PROVE  /\ worker'[u] = worker[u] /\ Executes(u)
                        /\ (Uncertain(u)' => Uncertain(u)) /\ (SameAttempt(u, v)' => SameAttempt(u, v))
      OBVIOUS
    <3>1. worker'[u] = worker[u]
      BY <1>1 DEF Executes, Executing
    <3> QED
      BY <2>1, <3>1 DEF Executes, Uncertain, SameAttempt, Awaiting, Last, Outcomes
  <2>3. CASE v # w
    <3>1. worker[v].pc = "decide" /\ worker[v].result = "intended"
      BY <1>1, <2>3
    <3>2. /\ \A k \in KeysOf(v) : calls[k] # "UNKNOWN"
          /\ \A u \in Workers : Executes(u) /\ SameAttempt(u, v) => ~Uncertain(u)
      BY <1>3, <3>1 DEF LedgerInv, IntendedMeansUnsent
    <3> QED
      BY <1>1, <2>1, <2>2, <3>2
  <2>4. CASE v = w
    <3>1. PICK j \in KeysOf(w) : artifact'[j]["REQUEST"] \notin {"none", "STORED"}
      BY <2>4 DEF Inspection
    <3>2. j \in Keys /\ artifact[j]["REQUEST"] \notin {"none", "STORED"}
          /\ j[1] = worker[w].op /\ j[2] = worker[w].attempt
      BY <1>2, <3>1 DEF KeysOf, Kinds
    <3>3. \A k \in KeysOf(w) : calls[k] # "UNKNOWN"
      BY <1>3, <3>2 DEF LedgerInv, CallsArePrefix, OfAttempt, KeysOf
    <3>4. \A u \in Workers : Executes(u) /\ SameAttempt(u, w) => j \in KeysOf(u)
      BY <3>2 DEF SameAttempt, KeysOf
    <3>5. \A u \in Workers : Executes(u) /\ SameAttempt(u, w) => ~Uncertain(u)
      BY <1>3, <3>2, <3>4, UncertainStored
    <3> QED
      BY <1>1, <2>1, <2>2, <2>4, <3>3, <3>5
  <2> QED
    BY <2>3, <2>4
<1>13. RetriedWhenResolved'
  <2>1. \A o, n : Resolved(o, n) => Resolved(o, n)'
    BY <1>1 DEF Resolved
  <2>2. ASSUME NEW v \in Workers, worker'[v].pc = "settle", worker'[v].result = "retry"
        PROVE  Resolved(worker[v].op, worker[v].attempt)'
    <3>1. worker'[v] = worker[v]
      BY <1>1, <2>2
    <3>2. Resolved(worker[v].op, worker[v].attempt)
      BY <1>3, <2>2, <3>1 DEF LedgerInv, RetriedWhenResolved
    <3> QED
      BY <1>1, <3>1, <3>2 DEF Resolved
  <2> QED
    BY <1>1, <1>3, <2>1, <2>2 DEF LedgerInv, RetriedWhenResolved
<1> QED
  BY <1>5, <1>6, <1>7, <1>8, <1>9, <1>10, <1>11, <1>12, <1>13 DEF LedgerInv

LEMMA InspectionKeepsRows ==
  ASSUME VisionInv, NEW w \in Workers, Inspection(w)
  PROVE  RowsInv'
<1>1. /\ UNCHANGED <<workflow, brief, versions, operations, confirmations, intents, calls>>
      /\ worker'[w].pc = "decide" /\ worker[w].pc = "inspect"
      /\ worker'[w].op = worker[w].op /\ worker'[w].attempt = worker[w].attempt
      /\ \A v \in Workers : v # w => worker'[v] = worker[v]
  BY DEF Inspection, rows, Stays
<1>2. RowsInv
  BY InvariantParts
<1>3. VersionsPaid' /\ SubmissionKeepsWorkflow' /\ SubmissionKeepsBrief' /\ StatesAgree'
  BY <1>1, <1>2 DEF RowsInv, VersionsPaid, SubmissionKeepsWorkflow, SubmissionKeepsBrief,
                    StatesAgree, OutputOf
<1>4. ASSUME NEW o \in DOMAIN operations, OutputOf(o) # {}
      PROVE  /\ \A k \in Keys : k[1] = o /\ k[2] = operations[o].attempts =>
                   \A kind \in Kinds : artifact'[k][kind] \in {"none", "STORED"}
             /\ \A v \in Workers : Executes(v)' /\ worker'[v].op = o =>
                   worker'[v].attempt # operations[o].attempts
  <2>1. /\ \A k \in Keys : k[1] = o /\ k[2] = operations[o].attempts =>
              \A kind \in Kinds : artifact[k][kind] \in {"none", "STORED"}
        /\ \A v \in Workers : Executes(v) /\ worker[v].op = o =>
              worker[v].attempt # operations[o].attempts
    BY <1>2, <1>4 DEF RowsInv, OutputIsFinal
  <2>2. \A v \in Workers : Executes(v)' => worker'[v] = worker[v] /\ Executes(v)
    BY <1>1 DEF Executes, Executing
  <2>3. \A k \in Keys, kind \in Kinds :
            artifact[k][kind] \in {"none", "STORED"} => artifact'[k][kind] = artifact[k][kind]
    BY DEF Inspection
  <2>4. \A k \in Keys : k[1] = o /\ k[2] = operations[o].attempts =>
            \A kind \in Kinds : artifact'[k][kind] \in {"none", "STORED"}
    BY <2>1, <2>3
  <2> QED
    BY <2>1, <2>2, <2>4
<1>5. OutputIsFinal'
  BY <1>1, <1>2, <1>4 DEF RowsInv, OutputIsFinal, OutputOf
<1>6. HolderKnowsOutput'
  <2> SUFFICES ASSUME NEW v \in Workers, Active(v)', Holds(v)'
               PROVE  /\ worker'[v].pc = "decide" /\ OutputOf(worker'[v].op) # {} =>
                            worker'[v].result = "none"
                      /\ worker'[v].pc = "settle" =>
                            IF worker'[v].result \in {"success", "wait"}
                            THEN \E n \in DOMAIN versions : versions[n].operation = worker'[v].op
                            ELSE OutputOf(worker'[v].op) = {}
    BY <1>1 DEF HolderKnowsOutput, OutputOf
  <2>1. CASE v # w
    BY <1>1, <1>2, <2>1 DEF RowsInv, HolderKnowsOutput, Active, Holds, OperationOf
  <2>2. CASE v = w
    <3>1. worker[w].attempt = operations[worker[w].op].attempts
      BY <1>1, <2>2 DEF Holds, OperationOf
    <3>2. worker[w].op \in DOMAIN operations
      BY <1>1, InvariantParts DEF WorkersBudgeted, Active
    <3>3. OutputOf(worker[w].op) # {} => worker'[w].result = "none"
      BY <1>4, <3>1, <3>2 DEF Inspection, KeysOf
    <3> QED
      BY <1>1, <2>2, <3>3
  <2> QED
    BY <2>1, <2>2
<1> QED
  BY <1>3, <1>5, <1>6 DEF RowsInv

LEMMA InspectArtifactsKeeps ==
  ASSUME VisionInv, NEW w \in Workers, InspectArtifacts(w)
  PROVE  VisionInv'
<1>1. Inspection(w) /\ VisionTypes
  BY InspectArtifactsMove DEF VisionInv
<1>2. VisionTypes'
  <2>1. worker' \in [Workers -> Executor]
    BY <1>1 DEF Inspection, Stays
  <2>2. BriefTypes'
    BY <1>1 DEF Inspection, rows, VisionTypes, BriefTypes, ConfirmationRows
  <2> QED
    BY <1>1, <2>1, <2>2 DEF Inspection, rows, VisionTypes
<1> QED
  BY <1>1, <1>2, InspectionKeepsLedger, InspectionKeepsRows, PartsGiveInvariant

-----------------------------------------------------------------------------
(* Steps that leave the ledger alone *)

\* Workers stop or end, operations proceed, and one that is to be attempted
\* again has its submissions resolved or reviewed.
Quiet ==
    /\ UNCHANGED ledger /\ WorkersProceed /\ OperationsProceed
    /\ \A v \in Workers :
          \/ worker'[v] = worker[v]
          \/ worker'[v].pc = "idle"
          \/ /\ worker'[v].pc = "settle"
             /\ worker'[v].result = "retry" =>
                   Resolved(worker[v].op, worker[v].attempt)
    /\ \A o \in DOMAIN operations :
          /\ operations'[o].reviewed >= operations[o].reviewed
          /\ operations'[o].state \in {"PENDING", "RETRY"} =>
                \/ operations[o].state \in {"PENDING", "RETRY"}
                \/ operations'[o].reviewed = operations[o].attempts
                \/ Resolved(o, operations[o].attempts)
    /\ \A o \in DOMAIN operations' \ DOMAIN operations :
          \/ operations'[o].attempts = 0
          \/ operations'[o].attempts = 1 /\ operations'[o].state \notin {"PENDING", "RETRY"}

LEMMA OperationNumbers ==
  ASSUME VisionTypes
  PROVE  \A o \in DOMAIN operations :
             /\ operations[o].attempts \in Nat /\ operations[o].budget \in Nat
             /\ operations[o].reviewed \in Nat /\ operations[o].expected \in Nat
  BY OperationFacts DEF AnalysisRow

\* The same of the state a step leads to.
LEMMA NextOperationNumbers ==
  ASSUME VisionTypes'
  PROVE  \A o \in DOMAIN operations' :
             /\ operations'[o].attempts \in Nat /\ operations'[o].budget \in Nat
             /\ operations'[o].reviewed \in Nat
<1>1. operations' \in Seq(AnalysisRow)
  BY DEF VisionTypes, BriefTypes
<1>2. DOMAIN operations' = 1..Len(operations')
  BY <1>1, LenProperties
<1>3. \A o \in DOMAIN operations' : operations'[o] \in AnalysisRow
  BY <1>1, <1>2, ElementOfSeq
<1> QED
  BY <1>3 DEF AnalysisRow

LEMMA QuietKeepsLedger ==
  ASSUME VisionInv, VisionTypes', Quiet
  PROVE  WorkersBudgeted' /\ LedgerInv'
<1>1. UNCHANGED <<intents, calls, artifact, dropped, objects, submitted>> /\ WorkersProceed
      /\ OperationsProceed
  BY DEF Quiet, ledger
<1>2. /\ Basics /\ LedgerInv /\ AttemptsBudgeted /\ VisionTypes
      /\ \A o \in DOMAIN operations : operations[o].attempts \in Nat /\ operations[o].reviewed \in Nat
      /\ \A o \in DOMAIN operations' : operations'[o].attempts \in Nat /\ operations'[o].reviewed \in Nat
  BY InvariantBasics, InvariantParts, BudgetsParts, OperationNumbers, NextOperationNumbers
<1>3. \A v \in Workers : worker'[v].pc \notin {"idle", "settle"} => worker'[v] = worker[v]
  BY DEF Quiet
<1>4. WorkersBudgeted' /\ OneExecutor'
  BY <1>1, <1>2, WorkersStayBudgeted, OneExecutorStays DEF LedgerInv
<1>5. LedgerBegun'
  <2>1. \A o \in DOMAIN operations : /\ o \in DOMAIN operations'
                                     /\ operations'[o].attempts >= operations[o].attempts
    BY <1>1, <1>2 DEF OperationsProceed
  <2>2. \A k \in Keys : KeyKept(k)
    BY <1>1 DEF KeyKept
  <2> QED
    BY <1>2, <2>1, <2>2, LedgerStaysBegun DEF LedgerInv
<1>6. ExecutorsProgress'
  <2> SUFFICES ASSUME NEW v \in Workers, Executes(v)'
               PROVE  Progress(v)'
    BY DEF ExecutorsProgress
  <2>1. worker'[v] = worker[v]
    BY <1>3 DEF Executes, Executing
  <2>2. Progress(v)
    BY <1>2, <2>1 DEF LedgerInv, ExecutorsProgress, Executes
  <2> QED
    BY <1>1, <1>2, <2>1, <2>2, ProgressKept
<1>7. CallsArePrefix' /\ ArtifactsExist' /\ CallsStored'
  BY <1>1, <1>2 DEF LedgerInv, CallsArePrefix, ArtifactsExist, CallsStored
<1>8. WrittenExists'
  <2> SUFFICES ASSUME NEW v \in Workers, worker'[v].pc = "mark", worker'[v].result = "written"
               PROVE  <<Key(v)', worker'[v].kind>> \in objects'
    BY DEF WrittenExists
  <2>1. worker'[v] = worker[v] /\ Key(v)' = Key(v)
    BY <1>3 DEF Key
  <2> QED
    BY <1>1, <1>2, <2>1 DEF LedgerInv, WrittenExists
<1>9. IntendedMeansUnsent'
  <2> SUFFICES ASSUME NEW v \in Workers, worker'[v].pc = "decide", worker'[v].result = "intended"
               PROVE  /\ \A k \in KeysOf(v)' : calls'[k] # "UNKNOWN"
                      /\ \A u \in Workers : Executes(u)' /\ SameAttempt(u, v)' => ~Uncertain(u)'
    BY DEF IntendedMeansUnsent
  <2>1. worker'[v] = worker[v] /\ KeysOf(v)' = KeysOf(v)
    BY <1>3 DEF KeysOf
  <2>2. /\ \A k \in KeysOf(v) : calls[k] # "UNKNOWN"
        /\ \A u \in Workers : Executes(u) /\ SameAttempt(u, v) => ~Uncertain(u)
    BY <1>2, <2>1 DEF LedgerInv, IntendedMeansUnsent
  <2>3. ASSUME NEW u \in Workers, Executes(u)', SameAttempt(u, v)'
        PROVE  ~Uncertain(u)'
    <3>1. worker'[u] = worker[u]
      BY <1>3, <2>3 DEF Executes, Executing
    <3>2. Executes(u) /\ SameAttempt(u, v) /\ (Uncertain(u)' => Uncertain(u))
      BY <2>1, <2>3, <3>1 DEF Executes, SameAttempt, Uncertain, Awaiting, Last, Outcomes
    <3> QED
      BY <2>2, <3>2
  <2> QED
    BY <1>1, <2>1, <2>2, <2>3
<1>10. RetriedWhenResolved'
  <2>1. \A o, n : Resolved(o, n) => Resolved(o, n)'
    BY <1>1 DEF Resolved
  <2>2. /\ \A o \in DOMAIN operations : \A n \in 1..operations[o].attempts :
              /\ n > operations[o].reviewed
              /\ n < operations[o].attempts \/ operations[o].state \in {"PENDING", "RETRY"}
              => Resolved(o, n)
        /\ \A v \in Workers : worker[v].pc = "settle" /\ worker[v].result = "retry" =>
              Resolved(worker[v].op, worker[v].attempt)
    BY <1>2 DEF LedgerInv, RetriedWhenResolved
  <2>3. ASSUME NEW o \in DOMAIN operations', NEW n \in 1..operations'[o].attempts,
               n > operations'[o].reviewed,
               n < operations'[o].attempts \/ operations'[o].state \in {"PENDING", "RETRY"}
        PROVE  Resolved(o, n)'
    <3>1. CASE o \in DOMAIN operations
      <4>1. operations'[o].attempts = operations[o].attempts
            /\ operations'[o].reviewed >= operations[o].reviewed
        BY <1>1, <3>1 DEF Quiet, OperationsProceed
      <4>2. n \in 1..operations[o].attempts /\ n > operations[o].reviewed /\ n \in Nat
        BY <1>2, <2>3, <3>1, <4>1
      <4>3. CASE n < operations[o].attempts
        BY <2>1, <2>2, <3>1, <4>2, <4>3
      <4>4. CASE ~(n < operations[o].attempts)
        <5>1. n = operations[o].attempts /\ operations'[o].state \in {"PENDING", "RETRY"}
          BY <1>2, <2>3, <3>1, <4>1, <4>2, <4>4
        <5>2. \/ operations[o].state \in {"PENDING", "RETRY"}
              \/ operations'[o].reviewed = operations[o].attempts
              \/ Resolved(o, operations[o].attempts)
          BY <3>1, <5>1 DEF Quiet
        <5>3. operations'[o].reviewed # operations[o].attempts
          BY <1>2, <2>3, <5>1
        <5> QED
          BY <2>1, <2>2, <3>1, <4>2, <5>1, <5>2, <5>3
      <4> QED
        BY <4>3, <4>4
    <3>2. CASE o \notin DOMAIN operations
      BY <1>2, <2>3, <3>2 DEF Quiet
    <3> QED
      BY <3>1, <3>2
  <2>4. ASSUME NEW v \in Workers, worker'[v].pc = "settle", worker'[v].result = "retry"
        PROVE  Resolved(worker[v].op, worker[v].attempt)'
    <3>1. worker'[v].op = worker[v].op /\ worker'[v].attempt = worker[v].attempt
      BY <1>1, <2>4 DEF WorkersProceed
    <3>2. Resolved(worker[v].op, worker[v].attempt)
      BY <2>2, <2>4 DEF Quiet
    <3> QED
      BY <1>1, <3>1, <3>2 DEF Resolved
  <2> QED
    BY <2>3, <2>4 DEF RetriedWhenResolved
<1> QED
  BY <1>4, <1>5, <1>6, <1>7, <1>8, <1>9, <1>10 DEF LedgerInv

\* The submission under way of a running attempt was so before.
LEMMA QuietPending ==
  ASSUME VisionInv, Quiet, NEW k \in intents', calls'[k] = "none",
         k[2] = operations'[k[1]].attempts, operations'[k[1]].state = "RUNNING"
  PROVE  /\ k \in intents /\ calls[k] = "none" /\ k[1] \in DOMAIN operations
         /\ k[2] = operations[k[1]].attempts /\ operations[k[1]].state = "RUNNING"
         /\ workflow.status = "UNDERSTANDING" /\ workflow.version = operations[k[1]].expected
         /\ brief.state = "DRAFT" /\ brief.operation = k[1]
<1>1. k \in intents /\ calls[k] = "none" /\ k \in Keys
  BY DEF Quiet, ledger, VisionInv, VisionTypes
<1>2. k[1] \in DOMAIN operations
  BY <1>1 DEF VisionInv, LedgerBegun, Blank
<1>3. k[2] = operations[k[1]].attempts /\ operations[k[1]].state = "RUNNING"
  BY <1>2 DEF Quiet, OperationsProceed
<1> QED
  BY <1>1, <1>2, <1>3 DEF VisionInv, SubmissionKeepsWorkflow, SubmissionKeepsBrief

\* The versions a step adds, if any, are those of a human.
VersionsKept ==
    /\ \A n \in DOMAIN versions : n \in DOMAIN versions' /\ versions'[n] = versions[n]
    /\ \A n \in DOMAIN versions' \ DOMAIN versions :
          versions'[n].source = "HUMAN" /\ versions'[n].operation \in DOMAIN operations'

\* A state an operation goes to fits the versions it has.
StatesFit ==
    \A o \in DOMAIN operations' :
        \/ o \in DOMAIN operations /\ operations'[o].state = operations[o].state
        \/ /\ operations'[o].state \in {"WAITING_HUMAN", "SUCCEEDED"} =>
                 \E n \in DOMAIN versions' : versions'[n].operation = o
           /\ operations'[o].state \notin {"RUNNING", "RECONCILING", "WAITING_HUMAN", "SUCCEEDED"} =>
                 OutputOf(o) = {}

\* No worker gets a lease, and one that ends knows the output.
HoldersKept ==
    \A v \in Workers :
        \/ worker'[v].pc = "idle"
        \/ /\ worker'[v] = worker[v]
           /\ operations'[worker[v].op].holder = v => operations[worker[v].op].holder = v
        \/ /\ worker'[v].pc = "settle" /\ operations' = operations
           /\ Holds(v) => IF worker'[v].result \in {"success", "wait"}
                          THEN \E n \in DOMAIN versions : versions[n].operation = worker[v].op
                          ELSE OutputOf(worker[v].op) = {}

BriefFits ==
    /\ brief.state # "NONE" => brief.operation \in DOMAIN operations
    /\ brief.state \in {"AWAITING_CONFIRMATION", "CONFIRMED"} => brief.current \in DOMAIN versions

WorkflowAgrees ==
    /\ workflow.status = "AWAITING_PRODUCT_CONFIRMATION" => brief.state = "AWAITING_CONFIRMATION"
    /\ workflow.status = "RETRIEVING" =>
          /\ brief.state = "CONFIRMED" /\ brief.confirmed = brief.current
          /\ versions[brief.current].required => brief.current \in confirmations
    /\ workflow.status = "UNDERSTANDING" => brief.state \in {"NONE", "DRAFT"}

LEMMA OutputKept ==
  ASSUME VersionsKept, NEW o
  PROVE  OutputOf(o)' = OutputOf(o)
  BY DEF VersionsKept, OutputOf

LEMMA QuietKeepsRows ==
  ASSUME VisionInv, VisionTypes', Quiet, VersionsKept, StatesFit, HoldersKept, BriefFits',
         WorkflowAgrees', SubmissionKeepsWorkflow', SubmissionKeepsBrief'
  PROVE  RowsInv'
<1>1. UNCHANGED <<intents, calls, artifact, dropped, objects, submitted>> /\ WorkersProceed
      /\ OperationsProceed
  BY DEF Quiet, ledger
<1>2. VersionsPaid /\ StatesAgree /\ OutputIsFinal /\ HolderKnowsOutput /\ WorkersBudgeted
  BY DEF VisionInv, LedgerSound, VersionsPaid, AttemptsBudgeted, WorkersBudgeted
<1>3. /\ \A n \in DOMAIN versions : n \in DOMAIN versions' /\ versions'[n] = versions[n]
      /\ \A n \in DOMAIN versions' \ DOMAIN versions :
            versions'[n].source = "HUMAN" /\ versions'[n].operation \in DOMAIN operations'
  BY DEF VersionsKept
<1>4. \A o : OutputOf(o)' = OutputOf(o)
  BY OutputKept
<1>5. VersionsPaid'
  BY <1>1, <1>2, <1>3 DEF VersionsPaid
<1>6. \A o : OutputOf(o) # {} => o \in DOMAIN operations
  BY <1>2 DEF OutputOf, OutputIsFinal
<1>7. StatesAgree'
  <2>1. ASSUME NEW o \in DOMAIN operations'
        PROVE  /\ operations'[o].state \in {"WAITING_HUMAN", "SUCCEEDED"} =>
                     \E n \in DOMAIN versions' : versions'[n].operation = o
               /\ operations'[o].state = "FAILED" => OutputOf(o)' = {}
    <3>1. CASE o \in DOMAIN operations /\ operations'[o].state = operations[o].state
      BY <1>2, <1>3, <1>4, <3>1 DEF StatesAgree
    <3>2. CASE ~(o \in DOMAIN operations /\ operations'[o].state = operations[o].state)
      BY <1>4, <3>2 DEF StatesFit
    <3> QED
      BY <3>1, <3>2
  <2> QED
    BY <2>1 DEF StatesAgree, WorkflowAgrees
<1>8. OutputIsFinal'
  <2>1. \A n \in DOMAIN versions' : versions'[n].operation \in DOMAIN operations'
    BY <1>1, <1>2, <1>3 DEF OutputIsFinal, OperationsProceed
  <2>2. ASSUME NEW o \in DOMAIN operations', OutputOf(o)' # {}
        PROVE  /\ operations'[o].state \in {"RUNNING", "RECONCILING", "WAITING_HUMAN", "SUCCEEDED"}
               /\ \A k \in Keys : k[1] = o /\ k[2] = operations'[o].attempts =>
                     \A kind \in Kinds : artifact'[k][kind] \in {"none", "STORED"}
               /\ \A v \in Workers : Executes(v)' /\ worker'[v].op = o =>
                     worker'[v].attempt # operations'[o].attempts
    <3>1. OutputOf(o) # {} /\ o \in DOMAIN operations
      BY <1>4, <1>6, <2>2
    <3>2. /\ operations[o].state \in {"RUNNING", "RECONCILING", "WAITING_HUMAN", "SUCCEEDED"}
          /\ \A k \in Keys : k[1] = o /\ k[2] = operations[o].attempts =>
                \A kind \in Kinds : artifact[k][kind] \in {"none", "STORED"}
          /\ \A v \in Workers : Executes(v) /\ worker[v].op = o =>
                worker[v].attempt # operations[o].attempts
      BY <1>2, <3>1 DEF OutputIsFinal
    <3>3. operations'[o].state \in {"RUNNING", "RECONCILING", "WAITING_HUMAN", "SUCCEEDED"}
      BY <3>1, <3>2 DEF StatesFit
    <3>4. operations'[o].attempts = operations[o].attempts
      BY <1>1, <3>1 DEF OperationsProceed
    <3> QED
      BY <1>1, <3>2, <3>3, <3>4 DEF WorkersProceed, Executes, Executing
  <2> QED
    BY <2>1, <2>2 DEF OutputIsFinal, BriefFits
<1>9. HolderKnowsOutput'
  <2> SUFFICES ASSUME NEW v \in Workers, Active(v)', Holds(v)'
               PROVE  /\ worker'[v].pc = "decide" /\ OutputOf(worker'[v].op) # {} =>
                            worker'[v].result = "none"
                      /\ worker'[v].pc = "settle" =>
                            IF worker'[v].result \in {"success", "wait"}
                            THEN \E n \in DOMAIN versions' : versions'[n].operation = worker'[v].op
                            ELSE OutputOf(worker'[v].op) = {}
    BY <1>4 DEF HolderKnowsOutput
  <2>1. worker'[v].pc # "idle" /\ Active(v) /\ worker'[v].op = worker[v].op
        /\ worker'[v].attempt = worker[v].attempt
    BY <1>1 DEF WorkersProceed, Active
  <2>2. operations'[worker[v].op].holder = v
        /\ operations'[worker[v].op].attempts = worker[v].attempt
        /\ operations[worker[v].op].attempts = worker[v].attempt
    BY <1>1, <1>2, <2>1 DEF Holds, OperationOf, OperationsProceed, WorkersBudgeted
  <2>3. CASE worker'[v] = worker[v] /\ operations[worker[v].op].holder = v
    BY <1>2, <1>3, <2>1, <2>2, <2>3 DEF HolderKnowsOutput, Holds, OperationOf
  <2>4. CASE /\ worker'[v].pc = "settle" /\ operations' = operations
             /\ Holds(v) => IF worker'[v].result \in {"success", "wait"}
                            THEN \E n \in DOMAIN versions : versions[n].operation = worker[v].op
                            ELSE OutputOf(worker[v].op) = {}
    <3>1. Holds(v)
      BY <2>2, <2>4 DEF Holds, OperationOf
    <3> QED
      BY <1>3, <2>1, <2>4, <3>1
  <2> QED
    BY <2>1, <2>2, <2>3, <2>4 DEF HoldersKept
<1> QED
  BY <1>5, <1>7, <1>8, <1>9 DEF RowsInv

LEMMA QuietKeeps ==
  ASSUME VisionInv, VisionTypes', OperationsBudgeted', Quiet, VersionsKept, StatesFit, HoldersKept,
         BriefFits', WorkflowAgrees', SubmissionKeepsWorkflow', SubmissionKeepsBrief'
  PROVE  VisionInv'
  BY QuietKeepsLedger, QuietKeepsRows, PartsGiveInvariant

\* The workflow, the brief and the versions are left alone as well.
LEMMA RowsUntouched ==
  ASSUME VisionInv, Quiet, UNCHANGED <<workflow, brief, versions, confirmations>>,
         DOMAIN operations' = DOMAIN operations,
         \A o \in DOMAIN operations : operations'[o].expected = operations[o].expected
  PROVE  /\ VersionsKept /\ BriefFits' /\ WorkflowAgrees' /\ SubmissionKeepsWorkflow'
         /\ SubmissionKeepsBrief'
<1>1. VersionsKept /\ BriefFits' /\ WorkflowAgrees'
  BY DEF VersionsKept, BriefFits, WorkflowAgrees, VisionInv, OutputIsFinal, StatesAgree
<1>2. SubmissionKeepsWorkflow' /\ SubmissionKeepsBrief'
  BY QuietPending DEF SubmissionKeepsWorkflow, SubmissionKeepsBrief
<1> QED
  BY <1>1, <1>2

-----------------------------------------------------------------------------
(* What happens to leases and workers *)

LEMMA OperationChanged ==
  ASSUME VisionTypes, NEW o \in DOMAIN operations, NEW row \in AnalysisRow,
         operations' = [operations EXCEPT ![o] = row]
  PROVE  /\ operations' \in Seq(AnalysisRow) /\ Len(operations') = Len(operations)
         /\ DOMAIN operations' = DOMAIN operations /\ operations'[o] = row
         /\ \A p \in DOMAIN operations : p # o => operations'[p] = operations[p]
<1>1. operations \in Seq(AnalysisRow) /\ DOMAIN operations = 1..Len(operations)
      /\ Len(operations) \in Nat
  BY OperationFacts
<1>2. o \in 1..Len(operations)
  BY <1>1
<1>3. operations' \in Seq(AnalysisRow) /\ Len(operations') = Len(operations)
  BY <1>1, <1>2, ExceptSeq
<1>4. DOMAIN operations' = DOMAIN operations /\ operations'[o] = row
      /\ \A p \in DOMAIN operations : p # o => operations'[p] = operations[p]
  OBVIOUS
<1> QED
  BY <1>3, <1>4

LEMMA TypesKept ==
  ASSUME VisionTypes, UNCHANGED ledger, BriefTypes', workflow' \in WorkflowRow,
         worker' \in [Workers -> Executor]
  PROVE  VisionTypes'
  BY DEF VisionTypes, ledger

LEMMA IdleExecutor == Idle \in Executor
<1>1. << >> \in Seq(CallStatus)
  BY EmptySeq
<1> QED
  BY <1>1 DEF Idle, Executor, NoOperation, Kinds

\* Nothing changes but a worker that stops, and perhaps its operation.
LEMMA WorkerStops ==
  ASSUME VisionTypes, NEW w \in Workers, worker' = [worker EXCEPT ![w] = Idle]
  PROVE  /\ worker' \in [Workers -> Executor] /\ WorkersProceed /\ worker'[w].pc = "idle"
         /\ \A v \in Workers : v # w => worker'[v] = worker[v]
<1>1. worker \in [Workers -> Executor]
  BY DEF VisionTypes
<1>2. /\ worker' \in [Workers -> Executor] /\ worker'[w].pc = "idle"
      /\ \A v \in Workers : v # w => worker'[v] = worker[v]
  BY <1>1, IdleExecutor DEF Idle
<1> QED
  BY <1>2 DEF WorkersProceed, Active, Executes

LEMMA OperationsSame ==
  ASSUME VisionInv, operations' = operations
  PROVE  /\ OperationsProceed /\ OperationsBudgeted' /\ StatesFit
         /\ \A o \in DOMAIN operations : operations'[o].reviewed >= operations[o].reviewed
         /\ DOMAIN operations' \ DOMAIN operations = {}
<1>1. \A o \in DOMAIN operations : operations[o].reviewed \in Nat
  BY OperationNumbers DEF VisionInv
<1>2. \A o \in DOMAIN operations : operations'[o].reviewed >= operations[o].reviewed
  BY <1>1
<1>3. OperationsBudgeted'
  BY InvariantParts DEF OperationsBudgeted
<1> QED
  BY <1>2, <1>3 DEF OperationsProceed, StatesFit

LEMMA CrashKeeps ==
  ASSUME VisionInv, NEW w \in Workers, Crash(w)
  PROVE  VisionInv'
<1>1. worker' = [worker EXCEPT ![w] = Idle] /\ UNCHANGED <<rows, ledger>> /\ faults' = faults + 1
  BY DEF Crash, Fault
<1>2. UNCHANGED <<workflow, retained, brief, versions, operations, confirmations, usable>>
  BY <1>1 DEF rows
<1>3. VisionTypes
  BY DEF VisionInv
<1>4. VisionTypes'
  <2>1. BriefTypes' /\ workflow' \in WorkflowRow
    BY <1>1, <1>2, <1>3 DEF VisionTypes, BriefTypes, ConfirmationRows
  <2> QED
    BY <1>1, <1>3, <2>1, TypesKept, WorkerStops
<1>5. Quiet
  BY <1>1, <1>2, <1>3, OperationsSame, WorkerStops DEF Quiet
<1>6. HoldersKept
  BY <1>1, <1>2, <1>3, WorkerStops DEF HoldersKept
<1> QED
  BY <1>2, <1>4, <1>5, <1>6, OperationsSame, RowsUntouched, QuietKeeps

LEMMA SettleKeeps ==
  ASSUME VisionInv, NEW w \in Workers, Settle(w)
  PROVE  VisionInv'
<1>0. PICK o : o = worker[w].op
  OBVIOUS
<1> DEFINE state == SettledState(operations[o], worker[w].result)
<1>1. /\ worker[w].pc = "settle" /\ worker' = [worker EXCEPT ![w] = Idle]
      /\ UNCHANGED <<workflow, retained, brief, versions, confirmations, usable, faults, ledger>>
      /\ operations' = IF Holds(w)
                       THEN [operations EXCEPT ![o].state = state, ![o].holder = Nobody]
                       ELSE operations
  BY <1>0 DEF Settle, OperationOf
<1>2. VisionTypes /\ Active(w)
      /\ o \in DOMAIN operations /\ worker[w].attempt \in 1..operations[o].attempts
      /\ operations[o] \in AnalysisRow
  BY <1>0, <1>1, OperationFacts DEF VisionInv, AttemptsBudgeted, Active
<1>3. /\ worker' \in [Workers -> Executor] /\ WorkersProceed /\ worker'[w].pc = "idle"
      /\ \A v \in Workers : v # w => worker'[v] = worker[v]
  BY <1>1, <1>2, WorkerStops
<1>4. CASE ~Holds(w)
  <2>1. operations' = operations
    BY <1>1, <1>4
  <2>2. VisionTypes'
    <3>1. BriefTypes' /\ workflow' \in WorkflowRow
      BY <1>1, <1>2, <2>1 DEF VisionTypes, BriefTypes, ConfirmationRows
    <3> QED
      BY <1>1, <1>2, <1>3, <3>1, TypesKept
  <2>3. Quiet
    BY <1>1, <1>3, <2>1, OperationsSame DEF Quiet
  <2>4. HoldersKept
    BY <1>3, <2>1 DEF HoldersKept
  <2> QED
    BY <1>1, <2>1, <2>2, <2>3, <2>4, OperationsSame, RowsUntouched, QuietKeeps
<1>5. CASE Holds(w)
  <2> DEFINE row == [operations[o] EXCEPT !.state = state, !.holder = Nobody]
  <2>1. operations[o].holder = w /\ operations[o].attempts = worker[w].attempt
    BY <1>0, <1>5 DEF Holds, OperationOf
  <2>2. /\ state \in {"SUCCEEDED", "WAITING_HUMAN", "RECONCILING", "RETRY", "FAILED"}
        /\ state = "SUCCEEDED" => worker[w].result = "success"
        /\ state = "WAITING_HUMAN" => worker[w].result = "wait"
        /\ state = "RETRY" => worker[w].result = "retry" /\ operations[o].attempts < operations[o].budget
        /\ state = "FAILED" => worker[w].result \notin {"success", "wait"}
    BY DEF SettledState
  <2> HIDE DEF state
  <2>3. row \in AnalysisRow /\ row.state = state /\ row.holder = Nobody
        /\ row.attempts = operations[o].attempts /\ row.budget = operations[o].budget
        /\ row.expected = operations[o].expected /\ row.reviewed = operations[o].reviewed
    BY <1>2, <2>2 DEF AnalysisRow
  <2>4. operations' = [operations EXCEPT ![o] = row]
    BY <1>1, <1>5
  <2> HIDE DEF row
  <2>5. /\ operations' \in Seq(AnalysisRow) /\ Len(operations') = Len(operations)
        /\ DOMAIN operations' = DOMAIN operations /\ operations'[o] = row
        /\ \A p \in DOMAIN operations : p # o => operations'[p] = operations[p]
    BY <1>2, <2>3, <2>4, OperationChanged
  <2>6. VisionTypes'
    <3>1. BriefTypes' /\ workflow' \in WorkflowRow
      BY <1>1, <1>2, <2>5 DEF VisionTypes, BriefTypes, ConfirmationRows
    <3> QED
      BY <1>1, <1>2, <1>3, <3>1, TypesKept
  <2>7. \A p \in DOMAIN operations : operations[p].attempts \in Nat /\ operations[p].reviewed \in Nat
    BY <1>2, OperationNumbers
  <2>8. worker[w].result = "retry" => Resolved(o, operations[o].attempts)
    BY <1>0, <1>1, <2>1 DEF VisionInv, RetriedWhenResolved
  <2>9. Quiet
    <3>1. OperationsProceed
      BY <2>2, <2>3, <2>5 DEF OperationsProceed
    <3>2. ASSUME NEW p \in DOMAIN operations
          PROVE  /\ operations'[p].reviewed >= operations[p].reviewed
                 /\ operations'[p].state \in {"PENDING", "RETRY"} =>
                       \/ operations[p].state \in {"PENDING", "RETRY"}
                       \/ operations'[p].reviewed = operations[p].attempts
                       \/ Resolved(p, operations[p].attempts)
      <4>1. CASE p = o
        BY <2>2, <2>3, <2>5, <2>7, <2>8, <4>1
      <4>2. CASE p # o
        BY <2>5, <2>7, <4>2
      <4> QED
        BY <4>1, <4>2
    <3> QED
      BY <1>1, <1>3, <2>5, <3>1, <3>2 DEF Quiet
  <2>10. OperationsBudgeted'
    <3>1. OperationsBudgeted /\ operations[o].attempts # 0
      BY <1>2, <2>7, InvariantParts
    <3> QED
      BY <2>2, <2>3, <2>5, <3>1 DEF OperationsBudgeted
  <2>11. /\ worker[w].result \in {"success", "wait"} =>
               \E n \in DOMAIN versions : versions[n].operation = o
         /\ worker[w].result \notin {"success", "wait"} => OutputOf(o) = {}
    BY <1>0, <1>1, <1>2, <1>5 DEF VisionInv, HolderKnowsOutput
  <2>12. StatesFit
    BY <1>1, <2>2, <2>3, <2>5, <2>11 DEF StatesFit
  <2>13. HoldersKept
    <3> SUFFICES ASSUME NEW v \in Workers, v # w, operations'[worker[v].op].holder = v,
                        worker'[v].pc # "idle"
                 PROVE  operations[worker[v].op].holder = v
      BY <1>3 DEF HoldersKept
    <3>1. worker[v].op \in DOMAIN operations
      BY <1>3 DEF VisionInv, AttemptsBudgeted, Active
    <3> QED
      BY <2>3, <2>5, <3>1, BriefAssumption
  <2> QED
    BY <1>1, <2>3, <2>5, <2>6, <2>9, <2>10, <2>12, <2>13, RowsUntouched, QuietKeeps
<1> QED
  BY <1>4, <1>5

LEMMA LeaseExpiresKeeps ==
  ASSUME VisionInv, LeaseExpires
  PROVE  VisionInv'
<1>1. PICK o \in DOMAIN operations : operations' = [operations EXCEPT ![o].holder = Nobody]
  BY DEF LeaseExpires
<1>2. UNCHANGED <<workflow, retained, brief, versions, confirmations, usable, ledger, worker>>
      /\ faults' = faults + 1
  BY DEF LeaseExpires, Fault
<1>3. VisionTypes /\ operations[o] \in AnalysisRow
  BY OperationFacts DEF VisionInv
<1> DEFINE row == [operations[o] EXCEPT !.holder = Nobody]
<1>4. row \in AnalysisRow /\ row.state = operations[o].state /\ row.holder = Nobody
      /\ row.attempts = operations[o].attempts /\ row.budget = operations[o].budget
      /\ row.expected = operations[o].expected /\ row.reviewed = operations[o].reviewed
  BY <1>3 DEF AnalysisRow
<1>5. operations' = [operations EXCEPT ![o] = row]
  BY <1>1
<1> HIDE DEF row
<1>6. /\ operations' \in Seq(AnalysisRow) /\ Len(operations') = Len(operations)
      /\ DOMAIN operations' = DOMAIN operations /\ operations'[o] = row
      /\ \A p \in DOMAIN operations : p # o => operations'[p] = operations[p]
  BY <1>3, <1>4, <1>5, OperationChanged
<1>7. VisionTypes'
  <2>1. BriefTypes' /\ workflow' \in WorkflowRow /\ worker' \in [Workers -> Executor]
    BY <1>2, <1>3, <1>6 DEF VisionTypes, BriefTypes, ConfirmationRows
  <2> QED
    BY <1>2, <1>3, <2>1, TypesKept
<1>8. \A p \in DOMAIN operations :
          /\ operations'[p].state = operations[p].state
          /\ operations'[p].attempts = operations[p].attempts
          /\ operations'[p].budget = operations[p].budget
          /\ operations'[p].expected = operations[p].expected
          /\ operations'[p].reviewed = operations[p].reviewed
          /\ operations'[p].holder \in {operations[p].holder, Nobody}
  BY <1>4, <1>6
<1>9. Quiet
  <2>1. OperationsProceed /\ WorkersProceed
    BY <1>2, <1>6, <1>8 DEF OperationsProceed, WorkersProceed, Active, Executes
  <2>2. \A p \in DOMAIN operations : operations'[p].reviewed >= operations[p].reviewed
    BY <1>3, <1>8, OperationNumbers
  <2> QED
    BY <1>2, <1>6, <1>8, <2>1, <2>2 DEF Quiet
<1>10. OperationsBudgeted'
  <2>1. OperationsBudgeted
    BY InvariantParts
  <2> QED
    BY <1>6, <1>8, <2>1 DEF OperationsBudgeted
<1>11. StatesFit
  BY <1>6, <1>8 DEF StatesFit
<1>12. HoldersKept
  <2> SUFFICES ASSUME NEW v \in Workers, worker'[v].pc # "idle",
                      operations'[worker[v].op].holder = v
               PROVE  operations[worker[v].op].holder = v
    BY <1>2 DEF HoldersKept
  <2>1. worker[v].op \in DOMAIN operations
    BY <1>2 DEF VisionInv, AttemptsBudgeted, Active
  <2> QED
    BY <1>8, <2>1, BriefAssumption
<1> QED
  BY <1>2, <1>6, <1>7, <1>8, <1>9, <1>10, <1>11, <1>12, RowsUntouched, QuietKeeps

LEMMA ReplayAnalysisKeeps ==
  ASSUME VisionInv, ReplayAnalysis
  PROVE  VisionInv'
<1>1. PICK o \in DOMAIN operations :
          /\ operations[o].state = "FAILED" /\ operations[o].attempts < MaxAttempts + MaxReplays
          /\ operations[o].reviewed = 0
          /\ operations' = [operations EXCEPT ![o].state = "RETRY",
                                ![o].budget = operations[o].attempts + 1,
                                ![o].reviewed = operations[o].attempts]
  BY DEF ReplayAnalysis
<1>2. UNCHANGED <<workflow, retained, brief, versions, confirmations, usable, faults, ledger, worker>>
  BY DEF ReplayAnalysis
<1>3. VisionTypes /\ operations[o] \in AnalysisRow /\ operations[o].attempts \in Nat
      /\ operations[o].attempts + 1 \in Nat
      /\ \A p \in DOMAIN operations : operations[p].reviewed \in Nat
  BY OperationFacts, OperationNumbers DEF VisionInv
<1> DEFINE row == [operations[o] EXCEPT !.state = "RETRY", !.budget = operations[o].attempts + 1,
                                        !.reviewed = operations[o].attempts]
<1>4. row \in AnalysisRow /\ row.state = "RETRY" /\ row.holder = operations[o].holder
      /\ row.attempts = operations[o].attempts /\ row.budget = operations[o].attempts + 1
      /\ row.expected = operations[o].expected /\ row.reviewed = operations[o].attempts
  BY <1>3 DEF AnalysisRow
<1>5. operations' = [operations EXCEPT ![o] = row]
  BY <1>1
<1> HIDE DEF row
<1>6. /\ operations' \in Seq(AnalysisRow) /\ Len(operations') = Len(operations)
      /\ DOMAIN operations' = DOMAIN operations /\ operations'[o] = row
      /\ \A p \in DOMAIN operations : p # o => operations'[p] = operations[p]
  BY <1>3, <1>4, <1>5, OperationChanged
<1>7. VisionTypes'
  <2>1. BriefTypes' /\ workflow' \in WorkflowRow /\ worker' \in [Workers -> Executor]
    BY <1>2, <1>3, <1>6 DEF VisionTypes, BriefTypes, ConfirmationRows
  <2> QED
    BY <1>2, <1>3, <2>1, TypesKept
<1>8. Quiet
  <2>1. OperationsProceed /\ WorkersProceed
    BY <1>2, <1>4, <1>6 DEF OperationsProceed, WorkersProceed, Active, Executes
  <2>2. ASSUME NEW p \in DOMAIN operations
        PROVE  /\ operations'[p].reviewed >= operations[p].reviewed
               /\ operations'[p].state \in {"PENDING", "RETRY"} =>
                     \/ operations[p].state \in {"PENDING", "RETRY"}
                     \/ operations'[p].reviewed = operations[p].attempts
    BY <1>1, <1>3, <1>4, <1>6
  <2> QED
    BY <1>2, <1>6, <2>1, <2>2 DEF Quiet
<1>9. OperationsBudgeted'
  <2>1. OperationsBudgeted /\ operations[o].attempts # 0
    BY <1>1, InvariantParts DEF OperationsBudgeted
  <2>2. row.attempts < row.budget /\ row.attempts <= row.budget
        /\ row.budget <= MaxAttempts + MaxReplays
    BY <1>1, <1>3, <1>4
  <2> QED
    BY <1>4, <1>6, <2>1, <2>2 DEF OperationsBudgeted
<1>10. StatesFit
  <2>1. OutputOf(o) = {}
    BY <1>1 DEF VisionInv, StatesAgree
  <2> QED
    BY <1>4, <1>6, <2>1 DEF StatesFit
<1>11. HoldersKept
  <2> SUFFICES ASSUME NEW v \in Workers, worker'[v].pc # "idle",
                      operations'[worker[v].op].holder = v
               PROVE  operations[worker[v].op].holder = v
    BY <1>2 DEF HoldersKept
  <2>1. worker[v].op \in DOMAIN operations
    BY <1>2 DEF VisionInv, AttemptsBudgeted, Active
  <2> QED
    BY <1>4, <1>6, <2>1
<1> QED
  BY <1>2, <1>4, <1>6, <1>7, <1>8, <1>9, <1>10, <1>11, RowsUntouched, QuietKeeps

-----------------------------------------------------------------------------
(* A reconciliation decides *)

LEMMA DecisionFacts ==
  ASSUME NEW w \in Workers
  PROVE  /\ Decision(w) \in {"fail", "retry", "wait", "success"}
         /\ Decision(w) \in {"wait", "success"} => OutputOf(worker[w].op) # {}
         /\ OutputOf(worker[w].op) # {} /\ worker[w].result = "none" =>
               Decision(w) \in {"wait", "success"}
         /\ Decision(w) = "retry" =>
               /\ ~SubmissionWithoutCall(w)
               /\ \/ worker[w].result = "intended"
                  \/ \A k \in KeysOf(w) : calls[k] = "none"
                  \/ LastCallIn(w, Retryable)
  BY DEF Decision

\* An operation is given back only when the ledger resolves its attempt.
LEMMA RetryIsResolved ==
  ASSUME VisionInv, NEW w \in Workers, worker[w].pc = "decide", Decision(w) = "retry"
  PROVE  Resolved(worker[w].op, worker[w].attempt)
<1> SUFFICES ASSUME NEW k \in KeysOf(w) \cap intents
             PROVE  calls[k] \notin {"none", "UNKNOWN"}
  BY DEF Resolved, KeysOf, VisionInv, VisionTypes
<1>1. calls[k] # "none" /\ k \in Keys
  BY DecisionFacts DEF SubmissionWithoutCall, KeysOf
<1>2. CASE worker[w].result = "intended"
  BY <1>1, <1>2 DEF VisionInv, IntendedMeansUnsent
<1>3. CASE LastCallIn(w, Retryable)
  <2>1. PICK j \in KeysOf(w) : /\ calls[j] # "none" /\ calls[j] \in Retryable
                               /\ \A other \in KeysOf(w) : calls[other] # "none" => other[3] <= j[3]
    BY <1>3 DEF LastCallIn
  <2>2. k[3] <= j[3] /\ k[3] \in Nat /\ j[3] \in Nat /\ k[1] = j[1] /\ k[2] = j[2] /\ j \in Keys
    BY <1>1, <2>1, KeyParts DEF KeysOf
  <2>3. CASE k[3] = j[3]
    <3>1. k = j
      BY <1>1, <2>2, <2>3, SameKey
    <3> QED
      BY <2>1, <3>1 DEF Retryable
  <2>4. CASE k[3] # j[3]
    <3>1. k[3] < j[3]
      BY <2>2, <2>4
    <3>2. calls[k] = "MALFORMED"
      BY <1>1, <2>1, <2>2, <3>1 DEF VisionInv, CallsArePrefix, OfAttempt
    <3> QED
      BY <3>2
  <2> QED
    BY <2>3, <2>4
<1> QED
  BY <1>1, <1>2, <1>3, DecisionFacts

LEMMA ReconcileKeeps ==
  ASSUME VisionInv, NEW w \in Workers, Reconcile(w)
  PROVE  VisionInv'
<1>1. worker[w].pc = "decide" /\ Finish(w, Decision(w)) /\ UNCHANGED <<briefVars, ledger>>
  BY DEF Reconcile
<1>2. UNCHANGED <<workflow, retained, brief, versions, operations, confirmations, usable, faults>>
  BY <1>1 DEF briefVars
<1>3. VisionTypes
  BY DEF VisionInv
<1>4. PICK result : result = Decision(w)
  OBVIOUS
<1>5. result \in {"success", "wait", "unknown", "retry", "fail"}
  BY <1>4, DecisionFacts
<1>6. Becomes(w, "settle", worker[w].kind, worker[w].calls, result)
  BY <1>1, <1>3, <1>4, <1>5, FinishBecomes
<1>7. Stays(w) /\ worker'[w].pc = "settle" /\ worker'[w].result = result
  BY <1>6 DEF Becomes, Stays
<1>8. VisionTypes'
  <2>1. BriefTypes' /\ workflow' \in WorkflowRow /\ worker' \in [Workers -> Executor]
    BY <1>2, <1>3, <1>7 DEF VisionTypes, BriefTypes, ConfirmationRows, Stays
  <2> QED
    BY <1>1, <1>3, <2>1, TypesKept
<1>9. Quiet
  <2>1. WorkersProceed
    <3> SUFFICES ASSUME NEW v \in Workers, worker'[v].pc # "idle"
                 PROVE  /\ Active(v) /\ worker'[v].op = worker[v].op
                        /\ worker'[v].attempt = worker[v].attempt
                        /\ worker'[v].pc \in Executing => Executes(v)
      BY DEF WorkersProceed
    <3>1. CASE v = w
      BY <1>1, <1>7, <3>1 DEF Stays, Active, Executing
    <3>2. CASE v # w
      BY <1>7, <3>2 DEF Stays, Active, Executes
    <3> QED
      BY <3>1, <3>2
  <2>2. \A v \in Workers :
            \/ worker'[v] = worker[v]
            \/ /\ worker'[v].pc = "settle"
               /\ worker'[v].result = "retry" => Resolved(worker[v].op, worker[v].attempt)
    BY <1>1, <1>4, <1>7, RetryIsResolved DEF Stays
  <2> QED
    BY <1>1, <1>2, <2>1, <2>2, OperationsSame DEF Quiet
<1>10. HoldersKept
  <2>1. Holds(w) => IF result \in {"success", "wait"}
                    THEN \E n \in DOMAIN versions : versions[n].operation = worker[w].op
                    ELSE OutputOf(worker[w].op) = {}
    <3>1. Holds(w) /\ OutputOf(worker[w].op) # {} => worker[w].result = "none"
      BY <1>1 DEF VisionInv, HolderKnowsOutput, Active
    <3>2. OutputOf(worker[w].op) # {} => \E n \in DOMAIN versions : versions[n].operation = worker[w].op
      BY DEF OutputOf
    <3> QED
      BY <1>4, <3>1, <3>2, DecisionFacts
  <2> QED
    BY <1>2, <1>7, <2>1 DEF HoldersKept, Stays
<1> QED
  BY <1>2, <1>8, <1>9, <1>10, OperationsSame, RowsUntouched, QuietKeeps

-----------------------------------------------------------------------------
(* A worker takes an operation *)

Claimed(w, o, n) ==
    /\ worker[w].pc = "idle" /\ o \in DOMAIN operations
    /\ UNCHANGED <<workflow, retained, brief, versions, confirmations, usable, faults, ledger>>
    /\ worker' \in [Workers -> Executor]
    /\ worker'[w].op = o /\ worker'[w].attempt = n /\ worker'[w].calls = << >>
    /\ \A v \in Workers : v # w => worker'[v] = worker[v]
    /\ operations' \in Seq(AnalysisRow) /\ Len(operations') = Len(operations)
    /\ DOMAIN operations' = DOMAIN operations
    /\ operations'[o].attempts = n /\ operations'[o].budget = operations[o].budget
    /\ operations'[o].expected = operations[o].expected
    /\ operations'[o].reviewed = operations[o].reviewed /\ operations'[o].holder = w
    /\ \A p \in DOMAIN operations : p # o => operations'[p] = operations[p]
    /\ \/ /\ n = operations[o].attempts /\ operations[o].state \in {"RUNNING", "RECONCILING"}
          /\ worker'[w].pc = "inspect" /\ operations'[o].state = "RECONCILING"
       \/ /\ n = operations[o].attempts + 1 /\ operations[o].state \in {"PENDING", "RETRY"}
          /\ worker'[w].pc = "begin" /\ operations'[o].state = "RUNNING"

LEMMA WorkerClaims ==
  ASSUME VisionTypes, NEW w \in Workers, NEW pc \in {"inspect", "begin"}, NEW o \in Nat,
         NEW n \in Nat,
         worker' = [worker EXCEPT ![w] = [Idle EXCEPT !.pc = pc, !.op = o, !.attempt = n]]
  PROVE  /\ worker' \in [Workers -> Executor] /\ worker'[w].pc = pc
         /\ worker'[w].op = o /\ worker'[w].attempt = n /\ worker'[w].calls = << >>
         /\ \A v \in Workers : v # w => worker'[v] = worker[v]
<1> DEFINE next == [Idle EXCEPT !.pc = pc, !.op = o, !.attempt = n]
<1>1. next \in Executor /\ next.pc = pc /\ next.op = o /\ next.attempt = n /\ next.calls = << >>
  <2>1. << >> \in Seq(CallStatus)
    BY EmptySeq
  <2> QED
    BY <2>1 DEF Idle, Executor, NoOperation, Kinds, Executing
<1>2. worker' = [worker EXCEPT ![w] = next] /\ worker \in [Workers -> Executor]
  BY DEF VisionTypes
<1> HIDE DEF next
<1> QED
  BY <1>1, <1>2

LEMMA ClaimReconciliationClaims ==
  ASSUME VisionInv, NEW w \in Workers, ClaimReconciliation(w)
  PROVE  \E o, n : Claimed(w, o, n)
<1>1. PICK o \in DOMAIN operations :
          /\ operations[o].state \in {"RUNNING", "RECONCILING"}
          /\ operations' = [operations EXCEPT ![o].state = "RECONCILING", ![o].holder = w]
          /\ worker' = [worker EXCEPT ![w] = [Idle EXCEPT !.pc = "inspect", !.op = o,
                                              !.attempt = operations[o].attempts]]
  BY DEF ClaimReconciliation
<1>2. worker[w].pc = "idle"
      /\ UNCHANGED <<workflow, retained, brief, versions, confirmations, usable, faults, ledger>>
  BY DEF ClaimReconciliation
<1>3. VisionTypes /\ operations[o] \in AnalysisRow /\ operations[o].attempts \in Nat /\ o \in Nat
  BY OperationFacts, OperationNumbers DEF VisionInv
<1> DEFINE row == [operations[o] EXCEPT !.state = "RECONCILING", !.holder = w]
<1>4. row \in AnalysisRow /\ row.state = "RECONCILING" /\ row.holder = w
      /\ row.attempts = operations[o].attempts /\ row.budget = operations[o].budget
      /\ row.expected = operations[o].expected /\ row.reviewed = operations[o].reviewed
  BY <1>3 DEF AnalysisRow
<1>5. operations' = [operations EXCEPT ![o] = row]
  BY <1>1
<1> HIDE DEF row
<1>6. /\ operations' \in Seq(AnalysisRow) /\ Len(operations') = Len(operations)
      /\ DOMAIN operations' = DOMAIN operations /\ operations'[o] = row
      /\ \A p \in DOMAIN operations : p # o => operations'[p] = operations[p]
  BY <1>3, <1>4, <1>5, OperationChanged
<1>7. /\ worker' \in [Workers -> Executor] /\ worker'[w].pc = "inspect"
      /\ worker'[w].op = o /\ worker'[w].attempt = operations[o].attempts
      /\ worker'[w].calls = << >>
      /\ \A v \in Workers : v # w => worker'[v] = worker[v]
  <2>1. PICK n \in Nat : n = operations[o].attempts
    BY <1>3
  <2>2. worker' = [worker EXCEPT ![w] = [Idle EXCEPT !.pc = "inspect", !.op = o, !.attempt = n]]
    BY <1>1, <2>1
  <2>3. /\ worker' \in [Workers -> Executor] /\ worker'[w].pc = "inspect"
        /\ worker'[w].op = o /\ worker'[w].attempt = n /\ worker'[w].calls = << >>
        /\ \A v \in Workers : v # w => worker'[v] = worker[v]
    BY <1>3, <2>2, WorkerClaims
  <2> QED
    BY <2>1, <2>3
<1>8. Claimed(w, o, operations[o].attempts)
  BY <1>1, <1>2, <1>4, <1>6, <1>7 DEF Claimed
<1> QED
  BY <1>8

LEMMA ClaimAnalysisClaims ==
  ASSUME VisionInv, NEW w \in Workers, ClaimAnalysis(w)
  PROVE  \E o, n : Claimed(w, o, n)
<1>1. PICK o \in DOMAIN operations :
          /\ operations[o].state \in {"PENDING", "RETRY"}
          /\ operations' = [operations EXCEPT ![o].state = "RUNNING", ![o].attempts = @ + 1,
                                              ![o].holder = w]
          /\ worker' = [worker EXCEPT ![w] = [Idle EXCEPT !.pc = "begin", !.op = o,
                                              !.attempt = operations[o].attempts + 1]]
  BY DEF ClaimAnalysis
<1>2. worker[w].pc = "idle"
      /\ UNCHANGED <<workflow, retained, brief, versions, confirmations, usable, faults, ledger>>
  BY DEF ClaimAnalysis
<1>3. VisionTypes /\ operations[o] \in AnalysisRow /\ operations[o].attempts + 1 \in Nat /\ o \in Nat
  BY OperationFacts, OperationNumbers DEF VisionInv
<1> DEFINE row == [operations[o] EXCEPT !.state = "RUNNING", !.attempts = operations[o].attempts + 1,
                                        !.holder = w]
<1>4. row \in AnalysisRow /\ row.state = "RUNNING" /\ row.holder = w
      /\ row.attempts = operations[o].attempts + 1 /\ row.budget = operations[o].budget
      /\ row.expected = operations[o].expected /\ row.reviewed = operations[o].reviewed
  BY <1>3 DEF AnalysisRow
<1>5. operations' = [operations EXCEPT ![o] = row]
  BY <1>1
<1> HIDE DEF row
<1>6. /\ operations' \in Seq(AnalysisRow) /\ Len(operations') = Len(operations)
      /\ DOMAIN operations' = DOMAIN operations /\ operations'[o] = row
      /\ \A p \in DOMAIN operations : p # o => operations'[p] = operations[p]
  BY <1>3, <1>4, <1>5, OperationChanged
<1>7. /\ worker' \in [Workers -> Executor] /\ worker'[w].pc = "begin"
      /\ worker'[w].op = o /\ worker'[w].attempt = operations[o].attempts + 1
      /\ worker'[w].calls = << >>
      /\ \A v \in Workers : v # w => worker'[v] = worker[v]
  <2>1. PICK n \in Nat : n = operations[o].attempts + 1
    BY <1>3
  <2>2. worker' = [worker EXCEPT ![w] = [Idle EXCEPT !.pc = "begin", !.op = o, !.attempt = n]]
    BY <1>1, <2>1
  <2>3. /\ worker' \in [Workers -> Executor] /\ worker'[w].pc = "begin"
        /\ worker'[w].op = o /\ worker'[w].attempt = n /\ worker'[w].calls = << >>
        /\ \A v \in Workers : v # w => worker'[v] = worker[v]
    BY <1>3, <2>2, WorkerClaims
  <2> QED
    BY <2>1, <2>3
<1>8. Claimed(w, o, operations[o].attempts + 1)
  BY <1>1, <1>2, <1>4, <1>6, <1>7 DEF Claimed
<1> QED
  BY <1>8

LEMMA ClaimedTypes ==
  ASSUME VisionInv, NEW w \in Workers, NEW o, NEW n, Claimed(w, o, n)
  PROVE  VisionTypes'
<1>1. VisionTypes
  BY DEF VisionInv
<1>2. BriefTypes' /\ workflow' \in WorkflowRow /\ worker' \in [Workers -> Executor]
  BY <1>1 DEF Claimed, VisionTypes, BriefTypes, ConfirmationRows
<1> QED
  BY <1>1, <1>2, TypesKept DEF Claimed

\* What a claim means for the other workers and operations.
LEMMA ClaimedFacts ==
  ASSUME VisionInv, NEW w \in Workers, NEW o, NEW n, Claimed(w, o, n)
  PROVE  /\ UNCHANGED <<intents, calls, artifact, dropped, objects, submitted>>
         /\ o \in DOMAIN operations /\ n \in Nat \ {0} /\ operations[o].attempts \in Nat
         /\ operations[o].reviewed \in Nat /\ operations[o].attempts <= n
         /\ n <= operations[o].budget
         /\ \A v \in Workers : v # w /\ worker'[v].pc # "idle" =>
               /\ worker'[v] = worker[v] /\ Active(v) /\ (Executes(v)' <=> Executes(v))
               /\ worker[v].op \in DOMAIN operations
               /\ worker[v].attempt \in 1..operations[worker[v].op].attempts
               /\ worker[v].attempt \in Nat
         /\ Executes(w)' <=> worker'[w].pc = "begin"
<1>1. UNCHANGED <<intents, calls, artifact, dropped, objects, submitted>> /\ o \in DOMAIN operations
  BY DEF Claimed, ledger
<1>2. /\ operations[o].attempts \in Nat /\ operations[o].reviewed \in Nat
      /\ operations[o].budget \in Nat
      /\ \A p \in DOMAIN operations : operations[p].attempts \in Nat
  BY <1>1, OperationNumbers DEF VisionInv
<1>3. /\ operations[o].attempts <= operations[o].budget
      /\ operations[o].state \in {"PENDING", "RETRY"} => operations[o].attempts < operations[o].budget
      /\ operations[o].attempts = 0 => operations[o].state = "PENDING"
  BY <1>1 DEF VisionInv, AttemptsBudgeted
<1>4. n \in Nat \ {0} /\ operations[o].attempts <= n /\ n <= operations[o].budget
  BY <1>2, <1>3 DEF Claimed
<1>5. ASSUME NEW v \in Workers, v # w, worker'[v].pc # "idle"
      PROVE  /\ worker'[v] = worker[v] /\ Active(v) /\ (Executes(v)' <=> Executes(v))
             /\ worker[v].op \in DOMAIN operations
             /\ worker[v].attempt \in 1..operations[worker[v].op].attempts
             /\ worker[v].attempt \in Nat
  <2>1. worker'[v] = worker[v] /\ Active(v)
    BY <1>5 DEF Claimed, Active
  <2>2. worker[v].op \in DOMAIN operations /\ worker[v].attempt \in 1..operations[worker[v].op].attempts
    BY <2>1 DEF VisionInv, AttemptsBudgeted
  <2> QED
    BY <1>2, <2>1, <2>2 DEF Executes
<1>6. Executes(w)' <=> worker'[w].pc = "begin"
  BY DEF Claimed, Executes, Executing
<1> QED
  BY <1>1, <1>2, <1>4, <1>5, <1>6

LEMMA ClaimedKeepsExecutors ==
  ASSUME VisionInv, NEW w \in Workers, NEW o, NEW n, Claimed(w, o, n)
  PROVE  WorkersBudgeted' /\ LedgerBegun' /\ OneExecutor' /\ ExecutorsProgress'
<1>1. VisionTypes' /\ VisionTypes
  BY ClaimedTypes DEF VisionInv
<1>2. UNCHANGED <<intents, calls, artifact, dropped, objects, submitted>>
  BY ClaimedFacts
<1>3. /\ operations'[o].attempts = n /\ DOMAIN operations' = DOMAIN operations
      /\ \A p \in DOMAIN operations : p # o => operations'[p] = operations[p]
      /\ worker'[w].op = o /\ worker'[w].attempt = n /\ worker'[w].calls = << >>
  BY DEF Claimed
<1>4. \A p \in DOMAIN operations : operations'[p].attempts >= operations[p].attempts
  BY <1>1, <1>3, ClaimedFacts, OperationNumbers
<1>5. WorkersBudgeted'
  <2> SUFFICES ASSUME NEW v \in Workers, worker'[v].pc # "idle"
               PROVE  /\ worker'[v].op \in DOMAIN operations'
                      /\ worker'[v].attempt \in 1..operations'[worker'[v].op].attempts
    BY DEF WorkersBudgeted, Active
  <2>1. CASE v = w
    BY <1>3, <2>1, ClaimedFacts
  <2>2. CASE v # w
    <3>1. /\ worker'[v] = worker[v] /\ worker[v].op \in DOMAIN operations
          /\ worker[v].attempt \in 1..operations[worker[v].op].attempts
      BY <2>2, ClaimedFacts
    <3>2. operations[worker[v].op].attempts \in Nat /\ operations'[worker[v].op].attempts \in Nat
      BY <1>1, <1>3, <3>1, OperationNumbers, NextOperationNumbers
    <3> QED
      BY <1>3, <1>4, <3>1, <3>2
  <2> QED
    BY <2>1, <2>2
<1>6. LedgerBegun'
  <2>1. \A k \in Keys : KeyKept(k)
    BY <1>2 DEF KeyKept
  <2> QED
    BY <1>1, <1>3, <1>4, <2>1, LedgerStaysBegun DEF VisionInv
<1>7. OneExecutor'
  <2> SUFFICES ASSUME NEW v \in Workers, NEW u \in Workers, v # u, Executes(v)', Active(u)',
                      SameAttempt(v, u)'
               PROVE  /\ ~Executes(u)'
                      /\ operations'[worker'[u].op].attempts = worker'[u].attempt =>
                            operations'[worker'[u].op].state # "RUNNING"
    BY DEF OneExecutor, OperationOf
  <2>0. worker'[v].op = worker'[u].op /\ worker'[v].attempt = worker'[u].attempt
        /\ worker'[v].pc # "idle" /\ worker'[u].pc # "idle"
    BY DEF SameAttempt, Active, Executes, Executing
  <2>1. CASE v = w
    <3>1. worker'[w].pc = "begin" /\ n = operations[o].attempts + 1
      BY <2>1, ClaimedFacts DEF Claimed
    <3>2. worker[u].op = o /\ worker[u].attempt = n /\ worker[u].attempt \in 1..operations[o].attempts
      BY <1>3, <2>0, <2>1, ClaimedFacts
    <3> QED
      BY <3>1, <3>2, ClaimedFacts
  <2>2. CASE u = w
    <3>1. worker[v].op = o /\ worker[v].attempt = n /\ worker[v].attempt \in 1..operations[o].attempts
      BY <1>3, <2>0, <2>2, ClaimedFacts
    <3>2. worker'[w].pc = "inspect" /\ operations'[o].state = "RECONCILING"
      BY <3>1, ClaimedFacts DEF Claimed
    <3> QED
      BY <1>3, <2>2, <3>2, ClaimedFacts
  <2>3. CASE v # w /\ u # w
    <3>1. /\ worker'[v] = worker[v] /\ worker'[u] = worker[u] /\ Executes(v) /\ Active(u)
          /\ (Executes(u)' <=> Executes(u)) /\ worker[u].op \in DOMAIN operations
          /\ worker[u].attempt \in 1..operations[worker[u].op].attempts
      BY <2>0, <2>3, ClaimedFacts
    <3>2. SameAttempt(v, u)
      BY <2>0, <3>1 DEF SameAttempt
    <3>3. /\ ~Executes(u)
          /\ operations[worker[u].op].attempts = worker[u].attempt =>
                operations[worker[u].op].state # "RUNNING"
      BY <3>1, <3>2 DEF VisionInv, OneExecutor, OperationOf
    <3>4. CASE worker[u].op # o
      BY <1>3, <3>1, <3>3, <3>4
    <3>5. CASE worker[u].op = o
      <4>1. operations'[o].attempts = worker[u].attempt => operations'[o].state # "RUNNING"
        <5>1. CASE n = operations[o].attempts /\ operations'[o].state = "RECONCILING"
          BY <5>1
        <5>2. CASE n = operations[o].attempts + 1
          BY <1>3, <3>1, <3>5, <5>2, ClaimedFacts
        <5> QED
          BY <5>1, <5>2 DEF Claimed
      <4> QED
        BY <3>1, <3>3, <3>5, <4>1
    <3> QED
      BY <3>4, <3>5
  <2> QED
    BY <2>1, <2>2, <2>3
<1>8. ExecutorsProgress'
  <2> SUFFICES ASSUME NEW v \in Workers, Executes(v)'
               PROVE  Progress(v)'
    BY DEF ExecutorsProgress
  <2>1. CASE v # w
    <3>1. worker'[v] = worker[v] /\ Executes(v)
      BY <2>1, ClaimedFacts DEF Executes, Executing
    <3>2. Progress(v)
      BY <3>1 DEF VisionInv, ExecutorsProgress
    <3> QED
      BY <1>1, <1>2, <3>1, <3>2, ProgressKept
  <2>2. CASE v = w
    <3>1. worker'[w].pc = "begin" /\ n = operations[o].attempts + 1
      BY <2>2, ClaimedFacts DEF Claimed
    <3>2. \A k \in Keys : k[1] = o /\ k[2] = n => Blank(k)
      BY <3>1, ClaimedFacts DEF VisionInv, LedgerBegun
    <3>3. \A k \in KeysOf(w)' : k \in Keys /\ Blank(k)' /\ k[3] \in Nat
      BY <1>2, <1>3, <3>2, KeyParts DEF KeysOf, Blank
    <3>4. Len(worker'[w].calls) = 0
      BY <1>3
    <3>5. Recorded(w)' = 0 /\ ~Awaiting(w)'
      BY <3>1, <3>4 DEF Recorded, Awaiting
    <3>6. \A k \in KeysOf(w)' : k \notin intents' /\ calls'[k] = "none" /\ Blank(k)' /\ k[3] >= 0
                                /\ ~(k[3] < 0)
      BY <3>3 DEF Blank
    <3> QED
      BY <1>3, <2>2, <3>1, <3>4, <3>5, <3>6 DEF Progress
  <2> QED
    BY <2>1, <2>2
<1> QED
  BY <1>5, <1>6, <1>7, <1>8

LEMMA ClaimedKeepsLedger ==
  ASSUME VisionInv, NEW w \in Workers, NEW o, NEW n, Claimed(w, o, n)
  PROVE  /\ CallsArePrefix' /\ WrittenExists' /\ ArtifactsExist' /\ CallsStored'
         /\ IntendedMeansUnsent' /\ RetriedWhenResolved'
<1>1. UNCHANGED <<intents, calls, artifact, dropped, objects, submitted>>
  BY ClaimedFacts
<1>2. LedgerInv /\ VisionTypes
  BY InvariantParts
<1>3. /\ operations'[o].attempts = n /\ DOMAIN operations' = DOMAIN operations
      /\ operations'[o].reviewed = operations[o].reviewed
      /\ \A p \in DOMAIN operations : p # o => operations'[p] = operations[p]
      /\ worker'[w].op = o /\ worker'[w].attempt = n /\ worker'[w].pc \in {"inspect", "begin"}
  BY DEF Claimed
<1>4. CallsArePrefix' /\ ArtifactsExist' /\ CallsStored'
  BY <1>1, <1>2 DEF LedgerInv, CallsArePrefix, ArtifactsExist, CallsStored
<1>5. WrittenExists'
  <2> SUFFICES ASSUME NEW v \in Workers, worker'[v].pc = "mark", worker'[v].result = "written"
               PROVE  <<Key(v)', worker'[v].kind>> \in objects'
    BY DEF WrittenExists
  <2>1. worker'[v] = worker[v] /\ Key(v)' = Key(v)
    BY <1>3, ClaimedFacts DEF Key
  <2> QED
    BY <1>1, <1>2, <2>1 DEF LedgerInv, WrittenExists
<1>6. IntendedMeansUnsent'
  <2> SUFFICES ASSUME NEW v \in Workers, worker'[v].pc = "decide", worker'[v].result = "intended"
               PROVE  /\ \A k \in KeysOf(v)' : calls'[k] # "UNKNOWN"
                      /\ \A u \in Workers : Executes(u)' /\ SameAttempt(u, v)' => ~Uncertain(u)'
    BY DEF IntendedMeansUnsent
  <2>1. worker'[v] = worker[v] /\ KeysOf(v)' = KeysOf(v)
    BY <1>3, ClaimedFacts DEF KeysOf
  <2>2. /\ \A k \in KeysOf(v) : calls[k] # "UNKNOWN"
        /\ \A u \in Workers : Executes(u) /\ SameAttempt(u, v) => ~Uncertain(u)
    BY <1>2, <2>1 DEF LedgerInv, IntendedMeansUnsent
  <2>3. ASSUME NEW u \in Workers, Executes(u)', SameAttempt(u, v)'
        PROVE  ~Uncertain(u)'
    <3>1. CASE u = w
      BY <1>3, <3>1 DEF Uncertain, Awaiting
    <3>2. CASE u # w
      <4>1. worker'[u] = worker[u] /\ Executes(u)
        BY <2>3, <3>2, ClaimedFacts DEF Executes, Executing
      <4>2. SameAttempt(u, v) /\ (Uncertain(u)' => Uncertain(u))
        BY <2>1, <2>3, <4>1 DEF SameAttempt, Uncertain, Awaiting, Last, Outcomes
      <4> QED
        BY <2>2, <4>1, <4>2
    <3> QED
      BY <3>1, <3>2
  <2> QED
    BY <1>1, <2>1, <2>2, <2>3
<1>7. RetriedWhenResolved'
  <2>1. \A p, m : Resolved(p, m) => Resolved(p, m)'
    BY <1>1 DEF Resolved
  <2>2. /\ \A p \in DOMAIN operations : \A m \in 1..operations[p].attempts :
              /\ m > operations[p].reviewed
              /\ m < operations[p].attempts \/ operations[p].state \in {"PENDING", "RETRY"}
              => Resolved(p, m)
        /\ \A v \in Workers : worker[v].pc = "settle" /\ worker[v].result = "retry" =>
              Resolved(worker[v].op, worker[v].attempt)
    BY <1>2 DEF LedgerInv, RetriedWhenResolved
  <2>3. ASSUME NEW p \in DOMAIN operations', NEW m \in 1..operations'[p].attempts,
               m > operations'[p].reviewed,
               m < operations'[p].attempts \/ operations'[p].state \in {"PENDING", "RETRY"}
        PROVE  Resolved(p, m)'
    <3>1. CASE p # o
      BY <1>3, <2>1, <2>2, <2>3, <3>1
    <3>2. CASE p = o
      <4>1. m < n /\ m \in Nat /\ m >= 1 /\ m > operations[o].reviewed
        BY <1>3, <2>3, <3>2, ClaimedFacts DEF Claimed
      <4>2. m \in 1..operations[o].attempts
            /\ (m < operations[o].attempts \/ operations[o].state \in {"PENDING", "RETRY"})
        BY <4>1, ClaimedFacts DEF Claimed
      <4> QED
        BY <2>1, <2>2, <3>2, <4>1, <4>2, ClaimedFacts
    <3> QED
      BY <3>1, <3>2
  <2>4. ASSUME NEW v \in Workers, worker'[v].pc = "settle", worker'[v].result = "retry"
        PROVE  Resolved(worker[v].op, worker[v].attempt)'
    <3>1. worker'[v] = worker[v]
      BY <1>3, <2>4, ClaimedFacts
    <3>2. Resolved(worker[v].op, worker[v].attempt)
      BY <2>2, <2>4, <3>1
    <3> QED
      BY <1>1, <3>1, <3>2 DEF Resolved
  <2> QED
    BY <2>3, <2>4 DEF RetriedWhenResolved
<1> QED
  BY <1>4, <1>5, <1>6, <1>7

LEMMA ClaimedKeepsRows ==
  ASSUME VisionInv, NEW w \in Workers, NEW o, NEW n, Claimed(w, o, n)
  PROVE  OperationsBudgeted' /\ RowsInv'
<1>1. UNCHANGED <<intents, calls, artifact, dropped, objects, submitted>>
      /\ UNCHANGED <<workflow, brief, versions, confirmations>>
  BY ClaimedFacts DEF Claimed
<1>2. /\ operations'[o].attempts = n /\ DOMAIN operations' = DOMAIN operations
      /\ operations'[o].budget = operations[o].budget
      /\ operations'[o].holder = w /\ operations'[o].state \in {"RECONCILING", "RUNNING"}
      /\ \A p \in DOMAIN operations : p # o => operations'[p] = operations[p]
      /\ worker'[w].op = o /\ worker'[w].attempt = n /\ worker'[w].pc \in {"inspect", "begin"}
  BY DEF Claimed
<1>3. RowsInv /\ OperationsBudgeted /\ o \in DOMAIN operations
  BY InvariantParts, ClaimedFacts
<1>4. OperationsBudgeted'
  BY <1>2, <1>3, ClaimedFacts DEF OperationsBudgeted
<1>5. VersionsPaid'
  BY <1>1, <1>3 DEF RowsInv, VersionsPaid
<1>6. ASSUME NEW k \in intents', calls'[k] = "none", k[2] = operations'[k[1]].attempts,
             operations'[k[1]].state = "RUNNING"
      PROVE  /\ k[1] # o /\ k \in intents /\ calls[k] = "none" /\ k[1] \in DOMAIN operations
  <2>1. k \in Keys /\ k \in intents /\ calls[k] = "none"
    BY <1>1, <1>6 DEF VisionInv, VisionTypes
  <2>2. k[1] \in DOMAIN operations /\ ~(k[2] > operations[k[1]].attempts)
    BY <2>1 DEF VisionInv, LedgerBegun, Blank
  <2>3. k[1] = o => n = operations[o].attempts + 1
    BY <1>2, <1>6 DEF Claimed
  <2> QED
    BY <1>2, <1>6, <2>1, <2>2, <2>3, ClaimedFacts
<1>7. SubmissionKeepsWorkflow' /\ SubmissionKeepsBrief'
  BY <1>1, <1>2, <1>3, <1>6 DEF RowsInv, SubmissionKeepsWorkflow, SubmissionKeepsBrief
<1>8. StatesAgree'
  <2>1. \A p \in DOMAIN operations' :
            /\ operations'[p].state \in {"WAITING_HUMAN", "SUCCEEDED"} =>
                  \E m \in DOMAIN versions' : versions'[m].operation = p
            /\ operations'[p].state = "FAILED" => OutputOf(p)' = {}
    BY <1>1, <1>2, <1>3 DEF RowsInv, StatesAgree, OutputOf
  <2> QED
    BY <1>1, <1>3, <2>1 DEF RowsInv, StatesAgree
<1>9. OutputIsFinal'
  <2>1. ASSUME NEW p \in DOMAIN operations, OutputOf(p) # {}
        PROVE  /\ operations'[p].state \in {"RUNNING", "RECONCILING", "WAITING_HUMAN", "SUCCEEDED"}
               /\ \A k \in Keys : k[1] = p /\ k[2] = operations'[p].attempts =>
                     \A kind \in Kinds : artifact'[k][kind] \in {"none", "STORED"}
               /\ \A v \in Workers : Executes(v)' /\ worker'[v].op = p =>
                     worker'[v].attempt # operations'[p].attempts
    <3>1. /\ operations[p].state \in {"RUNNING", "RECONCILING", "WAITING_HUMAN", "SUCCEEDED"}
          /\ \A k \in Keys : k[1] = p /\ k[2] = operations[p].attempts =>
                \A kind \in Kinds : artifact[k][kind] \in {"none", "STORED"}
          /\ \A v \in Workers : Executes(v) /\ worker[v].op = p =>
                worker[v].attempt # operations[p].attempts
      BY <1>3, <2>1 DEF RowsInv, OutputIsFinal
    <3>2. \A v \in Workers : v # w /\ Executes(v)' => Executes(v) /\ worker'[v] = worker[v]
      BY ClaimedFacts DEF Executes, Executing
    <3>3. CASE p # o
      BY <1>1, <1>2, <3>1, <3>2, <3>3
    <3>4. CASE p = o
      <4>1. n = operations[o].attempts /\ worker'[w].pc = "inspect"
        BY <3>1, <3>4 DEF Claimed
      <4>2. ~Executes(w)'
        BY <4>1, ClaimedFacts
      <4> QED
        BY <1>1, <1>2, <3>1, <3>2, <3>4, <4>1, <4>2
    <3> QED
      BY <3>3, <3>4
  <2>2. \A p : OutputOf(p)' = OutputOf(p)
    BY <1>1 DEF OutputOf
  <2>3. \A p \in DOMAIN operations' : OutputOf(p)' # {} =>
               /\ operations'[p].state \in {"RUNNING", "RECONCILING", "WAITING_HUMAN", "SUCCEEDED"}
               /\ \A k \in Keys : k[1] = p /\ k[2] = operations'[p].attempts =>
                     \A kind \in Kinds : artifact'[k][kind] \in {"none", "STORED"}
               /\ \A v \in Workers : Executes(v)' /\ worker'[v].op = p =>
                     worker'[v].attempt # operations'[p].attempts
    BY <1>2, <2>1, <2>2
  <2> QED
    BY <1>1, <1>2, <1>3, <2>3 DEF RowsInv, OutputIsFinal
<1>10. HolderKnowsOutput'
  <2> SUFFICES ASSUME NEW v \in Workers, Active(v)', Holds(v)'
               PROVE  /\ worker'[v].pc = "decide" /\ OutputOf(worker'[v].op) # {} =>
                            worker'[v].result = "none"
                      /\ worker'[v].pc = "settle" =>
                            IF worker'[v].result \in {"success", "wait"}
                            THEN \E m \in DOMAIN versions : versions[m].operation = worker'[v].op
                            ELSE OutputOf(worker'[v].op) = {}
    BY <1>1 DEF HolderKnowsOutput, OutputOf
  <2>1. CASE v = w
    BY <1>2, <2>1
  <2>2. CASE v # w
    <3>1. worker'[v] = worker[v] /\ Active(v) /\ worker[v].op \in DOMAIN operations
      BY <2>2, ClaimedFacts DEF Active
    <3>2. operations'[worker[v].op].holder = v /\ operations'[worker[v].op].attempts = worker[v].attempt
      BY <3>1 DEF Holds, OperationOf
    <3>3. worker[v].op # o
      BY <1>2, <2>2, <3>2
    <3>4. Holds(v)
      BY <1>2, <3>1, <3>2, <3>3 DEF Holds, OperationOf
    <3> QED
      BY <1>3, <3>1, <3>4 DEF RowsInv, HolderKnowsOutput
  <2> QED
    BY <2>1, <2>2
<1> QED
  BY <1>4, <1>5, <1>7, <1>8, <1>9, <1>10 DEF RowsInv

LEMMA ClaimedKeeps ==
  ASSUME VisionInv, NEW w \in Workers, NEW o, NEW n, Claimed(w, o, n)
  PROVE  VisionInv'
  BY ClaimedTypes, ClaimedKeepsExecutors, ClaimedKeepsLedger, ClaimedKeepsRows, PartsGiveInvariant
     DEF LedgerInv

-----------------------------------------------------------------------------
(* The reviewers, the retention and the cancellation *)

LEMMA NoSubmissionPending ==
  ASSUME VisionInv, Quiet, brief.state # "DRAFT" \/ workflow.status # "UNDERSTANDING"
  PROVE  SubmissionKeepsWorkflow' /\ SubmissionKeepsBrief'
  BY QuietPending DEF SubmissionKeepsWorkflow, SubmissionKeepsBrief

\* Operations, ledger and workers are left alone.
LEMMA OnlyRowsChange ==
  ASSUME VisionInv, UNCHANGED <<operations, ledger, worker>>
  PROVE  Quiet /\ HoldersKept /\ StatesFit /\ OperationsBudgeted'
<1>1. WorkersProceed /\ HoldersKept
  BY DEF WorkersProceed, Active, Executes, HoldersKept
<1>2. /\ OperationsProceed /\ OperationsBudgeted' /\ StatesFit
      /\ \A o \in DOMAIN operations : operations'[o].reviewed >= operations[o].reviewed
      /\ DOMAIN operations' \ DOMAIN operations = {}
  BY OperationsSame
<1>3. Quiet
  BY <1>1, <1>2 DEF Quiet
<1> QED
  BY <1>1, <1>2, <1>3

LEMMA WorkflowRowKept == ASSUME VisionTypes PROVE workflow \in WorkflowRow
  BY DEF VisionTypes

LEMMA CancelWorkflowKeeps ==
  ASSUME VisionInv, CancelWorkflow
  PROVE  VisionInv'
<1>1. /\ workflow' = Moved("CANCELLED", workflow.node) /\ ~IrreversibleSubmission
      /\ UNCHANGED <<retained, brief, versions, operations, confirmations, usable, faults, ledger, worker>>
  BY DEF CancelWorkflow
<1>2. VisionTypes /\ workflow.node \in
          {"understand_product", "confirm_product_brief", "retrieve_references"}
  BY WorkflowRowKept DEF VisionInv, WorkflowRow
<1>3. workflow' \in WorkflowRow /\ workflow'.status = "CANCELLED"
  BY <1>1, <1>2, WorkflowMoved
<1>4. VisionTypes'
  <2>1. BriefTypes' /\ worker' \in [Workers -> Executor]
    BY <1>1, <1>2 DEF VisionTypes, BriefTypes, ConfirmationRows
  <2> QED
    BY <1>1, <1>2, <1>3, <2>1, TypesKept
<1>5. Quiet /\ HoldersKept /\ StatesFit /\ OperationsBudgeted'
  BY <1>1, OnlyRowsChange
<1>6. VersionsKept /\ BriefFits' /\ WorkflowAgrees'
  BY <1>1, <1>3 DEF VersionsKept, BriefFits, WorkflowAgrees, VisionInv, OutputIsFinal
<1>7. SubmissionKeepsWorkflow' /\ SubmissionKeepsBrief'
  <2>1. \A k \in intents : ~(calls[k] = "none" /\ operations[k[1]].state = "RUNNING")
    BY <1>1 DEF IrreversibleSubmission
  <2> QED
    BY <1>5, <2>1, QuietPending DEF SubmissionKeepsWorkflow, SubmissionKeepsBrief
<1> QED
  BY <1>4, <1>5, <1>6, <1>7, QuietKeeps

LEMMA EnvironmentKeeps ==
  ASSUME VisionInv, Expire \/ RevokeSource, UNCHANGED <<ledger, worker>>
  PROVE  VisionInv'
<1>1. /\ UNCHANGED <<workflow, brief, versions, operations, confirmations>>
      /\ retained' \in BOOLEAN /\ usable' \in BOOLEAN /\ faults' \in Nat
  <2>1. retained \in BOOLEAN /\ usable \in BOOLEAN /\ faults \in Nat
    BY DEF VisionInv, VisionTypes, BriefTypes
  <2>2. CASE Expire
    <3>1. UNCHANGED <<workflow, brief, versions, operations, confirmations>>
          /\ retained' = FALSE /\ usable' = usable /\ faults' = faults + 1
      BY <2>2 DEF Expire, Fault
    <3>2. faults' \in Nat
      BY <2>1, <3>1
    <3>3. retained' \in BOOLEAN /\ usable' \in BOOLEAN
      BY <2>1, <3>1, Zenon
    <3> QED
      BY <3>1, <3>2, <3>3
  <2>3. CASE RevokeSource
    <3>1. UNCHANGED <<workflow, brief, versions, operations, confirmations>>
          /\ usable' = FALSE /\ retained' = retained /\ faults' = faults + 1
      BY <2>3 DEF RevokeSource, Fault
    <3>2. faults' \in Nat
      BY <2>1, <3>1
    <3>3. retained' \in BOOLEAN /\ usable' \in BOOLEAN
      BY <2>1, <3>1, Zenon
    <3> QED
      BY <3>1, <3>2, <3>3
  <2> QED
    BY <2>2, <2>3
<1>2. VisionTypes'
  <2>1. BriefTypes' /\ workflow' \in WorkflowRow /\ worker' \in [Workers -> Executor]
    BY <1>1 DEF VisionInv, VisionTypes, BriefTypes, ConfirmationRows
  <2> QED
    BY <2>1, TypesKept DEF VisionInv
<1>3. Quiet /\ HoldersKept /\ StatesFit /\ OperationsBudgeted'
  BY <1>1, OnlyRowsChange
<1> QED
  BY <1>1, <1>2, <1>3, RowsUntouched, QuietKeeps

LEMMA OperationAppended ==
  ASSUME VisionTypes, NEW row \in AnalysisRow, Len(operations) < MaxOperations,
         operations' = Append(operations, row), NEW o, o = Len(operations) + 1
  PROVE  /\ operations' \in Seq(AnalysisRow) /\ Len(operations') <= MaxOperations
         /\ DOMAIN operations' = DOMAIN operations \cup {o} /\ o \notin DOMAIN operations
         /\ operations'[o] = row /\ o \in Nat
         /\ \A p \in DOMAIN operations : operations'[p] = operations[p]
<1>1. operations \in Seq(AnalysisRow) /\ Len(operations) \in Nat
      /\ DOMAIN operations = 1..Len(operations)
  BY OperationFacts
<1>2. /\ operations' \in Seq(AnalysisRow) /\ Len(operations') = Len(operations) + 1
      /\ \A p \in 1..Len(operations) : operations'[p] = operations[p]
      /\ operations'[Len(operations) + 1] = row
  BY <1>1, AppendProperties
<1>3. DOMAIN operations' = 1..(Len(operations) + 1)
  BY <1>2, LenProperties
<1> QED
  BY <1>1, <1>2, <1>3

\* An operation that is added holds no lease and has no submission.
LEMMA AppendedIsQuiet ==
  ASSUME VisionInv, NEW row \in AnalysisRow, Len(operations) < MaxOperations,
         operations' = Append(operations, row), UNCHANGED <<ledger, worker>>,
         \/ row.state = "PENDING" /\ row.attempts = 0 /\ row.budget = MaxAttempts
         \/ row.state = "WAITING_HUMAN" /\ row.attempts = 1 /\ row.budget = 1
  PROVE  Quiet /\ HoldersKept /\ OperationsBudgeted'
<1>0. PICK o : o = Len(operations) + 1
  OBVIOUS
<1>1. /\ DOMAIN operations' = DOMAIN operations \cup {o} /\ o \notin DOMAIN operations
      /\ operations'[o] = row /\ \A p \in DOMAIN operations : operations'[p] = operations[p]
  BY <1>0, OperationAppended DEF VisionInv
<1>2. WorkersProceed /\ OperationsProceed
  BY <1>1 DEF WorkersProceed, OperationsProceed, Active, Executes
<1>3. \A p \in DOMAIN operations : operations[p].reviewed \in Nat
  BY OperationNumbers DEF VisionInv
<1>4. \A p \in DOMAIN operations : operations'[p].reviewed >= operations[p].reviewed
  BY <1>1, <1>3
<1>5. Quiet
  BY <1>1, <1>2, <1>4 DEF Quiet
<1>6. OperationsBudgeted'
  <2>1. OperationsBudgeted
    BY InvariantParts
  <2>2. /\ row.attempts <= row.budget /\ row.budget <= MaxAttempts + MaxReplays
        /\ row.state \in {"PENDING", "RETRY"} => row.attempts < row.budget
        /\ row.attempts = 0 => row.state = "PENDING"
    OBVIOUS
  <2> QED
    BY <1>1, <2>1, <2>2 DEF OperationsBudgeted
<1>7. HoldersKept
  <2> SUFFICES ASSUME NEW v \in Workers, worker'[v].pc # "idle",
                      operations'[worker[v].op].holder = v
               PROVE  operations[worker[v].op].holder = v
    BY DEF HoldersKept
  <2>1. worker[v].op \in DOMAIN operations
    BY DEF VisionInv, AttemptsBudgeted, Active
  <2> QED
    BY <1>1, <2>1
<1> QED
  BY <1>5, <1>6, <1>7

LEMMA NewOperationRow ==
  ASSUME NEW target \in Nat, NEW expected \in Nat
  PROVE  /\ NewOperation(target, expected) \in AnalysisRow
         /\ NewOperation(target, expected).state = "PENDING"
         /\ NewOperation(target, expected).attempts = 0
         /\ NewOperation(target, expected).budget = MaxAttempts
         /\ RevisionOperation(target, expected) \in AnalysisRow
         /\ RevisionOperation(target, expected).state = "WAITING_HUMAN"
         /\ RevisionOperation(target, expected).attempts = 1
         /\ RevisionOperation(target, expected).budget = 1
  BY DEF NewOperation, RevisionOperation, AnalysisRow

\* What a request for an analysis does to the rows, to the brief of another
\* workflow status or to no brief.
LEMMA RequestAnalysisRows ==
  ASSUME VisionTypes, RequestAnalysis, NEW o, o = Len(operations) + 1
  PROVE  /\ Len(operations) < MaxOperations
         /\ \E row \in AnalysisRow :
               /\ operations' = Append(operations, row) /\ row.state = "PENDING"
               /\ row.attempts = 0 /\ row.budget = MaxAttempts
         /\ brief.state # "DRAFT" \/ workflow.status # "UNDERSTANDING"
         /\ brief' \in BriefRow /\ brief'.state = "DRAFT" /\ brief'.operation = o
         /\ workflow' \in WorkflowRow /\ workflow'.status = "UNDERSTANDING"
         /\ UNCHANGED <<retained, versions, confirmations, usable, faults>>
<1>1. /\ brief \in BriefRow /\ workflow \in WorkflowRow /\ o \in Nat
      /\ workflow.version \in Nat /\ brief.version \in Nat
  BY OperationFacts DEF VisionTypes, BriefTypes, BriefRow, WorkflowRow
<1>2. brief.version + 1 \in Nat /\ workflow.version + 1 \in Nat /\ 1 \in Nat
  BY <1>1
<1>3. Len(operations) < MaxOperations /\ UNCHANGED <<retained, versions, confirmations, usable, faults>>
  BY DEF RequestAnalysis
<1>4. CASE /\ brief = NoBrief /\ workflow.status = "UNDERSTANDING"
           /\ brief' = NewBrief(o)
           /\ operations' = Append(operations, NewOperation(1, workflow.version))
           /\ UNCHANGED workflow
  <2>1. brief' \in BriefRow /\ brief'.state = "DRAFT" /\ brief'.operation = o /\ brief.state = "NONE"
    BY <1>1, <1>4 DEF NewBrief, NoBrief, BriefRow, NoVersion, NoOperation
  <2> QED
    BY <1>1, <1>2, <1>3, <1>4, <2>1, NewOperationRow
<1>5. CASE /\ workflow.status = "RETRIEVING"
           /\ brief' = [ReopenForAnalysis(brief) EXCEPT !.operation = o]
           /\ workflow' = Moved("UNDERSTANDING", "understand_product")
           /\ operations' = Append(operations,
                 NewOperation(brief.version + 1, workflow.version + 1))
  <2>1. brief' \in BriefRow /\ brief'.state = "DRAFT" /\ brief'.operation = o
    BY <1>1, <1>2, <1>5 DEF ReopenForAnalysis, BriefRow
  <2>2. workflow' \in WorkflowRow /\ workflow'.status = "UNDERSTANDING"
    BY <1>5, WorkflowMoved
  <2>3. PICK target \in Nat, expected \in Nat :
            target = brief.version + 1 /\ expected = workflow.version + 1
    BY <1>2
  <2>4. \E row \in AnalysisRow :
            /\ operations' = Append(operations, row) /\ row.state = "PENDING"
            /\ row.attempts = 0 /\ row.budget = MaxAttempts
    BY <1>5, <2>3, NewOperationRow
  <2> QED
    BY <1>3, <1>5, <2>1, <2>2, <2>4
<1> QED
  BY <1>4, <1>5 DEF RequestAnalysis

LEMMA RequestAnalysisKeeps ==
  ASSUME VisionInv, RequestAnalysis, UNCHANGED <<ledger, worker>>
  PROVE  VisionInv'
<1>0. PICK o : o = Len(operations) + 1
  OBVIOUS
<1>1. VisionTypes
  BY DEF VisionInv
<1>2. /\ Len(operations) < MaxOperations
      /\ brief.state # "DRAFT" \/ workflow.status # "UNDERSTANDING"
      /\ brief' \in BriefRow /\ brief'.state = "DRAFT" /\ brief'.operation = o
      /\ workflow' \in WorkflowRow /\ workflow'.status = "UNDERSTANDING"
      /\ UNCHANGED <<retained, versions, confirmations, usable, faults>>
  BY <1>0, <1>1, RequestAnalysisRows
<1>3. PICK row \in AnalysisRow :
          /\ operations' = Append(operations, row) /\ row.state = "PENDING"
          /\ row.attempts = 0 /\ row.budget = MaxAttempts
  BY <1>0, <1>1, RequestAnalysisRows
<1>4. /\ operations' \in Seq(AnalysisRow) /\ Len(operations') <= MaxOperations
      /\ DOMAIN operations' = DOMAIN operations \cup {o} /\ o \notin DOMAIN operations
      /\ operations'[o] = row /\ \A p \in DOMAIN operations : operations'[p] = operations[p]
  BY <1>0, <1>1, <1>2, <1>3, OperationAppended
<1>5. Quiet /\ HoldersKept /\ OperationsBudgeted'
  BY <1>2, <1>3, AppendedIsQuiet
<1>6. VisionTypes'
  <2>1. BriefTypes' /\ worker' \in [Workers -> Executor]
    BY <1>1, <1>2, <1>4 DEF VisionTypes, BriefTypes, ConfirmationRows
  <2> QED
    BY <1>1, <1>2, <2>1, TypesKept
<1>7. VersionsKept /\ BriefFits' /\ WorkflowAgrees'
  BY <1>2, <1>4 DEF VersionsKept, BriefFits, WorkflowAgrees
<1>8. StatesFit
  <2>1. OutputOf(o) = {}
    BY <1>4 DEF VisionInv, OutputIsFinal, OutputOf
  <2> QED
    BY <1>3, <1>4, <2>1 DEF StatesFit
<1>9. SubmissionKeepsWorkflow' /\ SubmissionKeepsBrief'
  BY <1>2, <1>5, NoSubmissionPending
<1> QED
  BY <1>5, <1>6, <1>7, <1>8, <1>9, QuietKeeps

LEMMA HumanVersion ==
  ASSUME VisionTypes, NEW o \in Nat
  PROVE  /\ NewVersion("HUMAN", o, FALSE) \in VersionRow
         /\ NewVersion("HUMAN", o, FALSE).source = "HUMAN"
         /\ NewVersion("HUMAN", o, FALSE).operation = o
         /\ NewVersion("HUMAN", o, FALSE).required
  BY DEF NewVersion, VersionRow, ConfirmationRequired

\* What a revision does to the rows: the version of a human, under the brief's
\* operation or under one of its own.
Revised(o, v) ==
    /\ v \in VersionRow /\ v.source = "HUMAN" /\ v.operation = o /\ o \in Nat
    /\ versions' = Append(versions, v)
    /\ brief.state # "DRAFT"
    /\ brief' \in BriefRow /\ brief'.state = "AWAITING_CONFIRMATION"
    /\ brief'.current = NextVersionNumber /\ brief'.operation = o
    /\ workflow' \in WorkflowRow /\ workflow'.status = "AWAITING_PRODUCT_CONFIRMATION"
    /\ UNCHANGED <<retained, confirmations, usable, faults>>

LEMMA ReviseRows ==
  ASSUME VisionInv, Revise
  PROVE  \E o, v : /\ Revised(o, v)
                   /\ \/ o \in DOMAIN operations /\ UNCHANGED operations
                      \/ /\ o = Len(operations) + 1 /\ Len(operations) < MaxOperations
                         /\ \E row \in AnalysisRow :
                               /\ operations' = Append(operations, row)
                               /\ row.state = "WAITING_HUMAN" /\ row.attempts = 1 /\ row.budget = 1
<1>1. /\ VisionTypes /\ brief \in BriefRow /\ workflow \in WorkflowRow
      /\ workflow.version \in Nat /\ brief.version \in Nat /\ brief.operation \in Nat
      /\ Len(operations) + 1 \in Nat
      /\ brief.state # "NONE" => brief.operation \in DOMAIN operations
  BY OperationFacts DEF VisionInv, VisionTypes, BriefTypes, BriefRow, WorkflowRow, OutputIsFinal
<1>2. UNCHANGED <<retained, confirmations, usable, faults>>
  BY DEF Revise
<1>3. CASE /\ brief.state = "AWAITING_CONFIRMATION"
           /\ workflow.status = "AWAITING_PRODUCT_CONFIRMATION"
           /\ versions' = Append(versions, NewVersion("HUMAN", brief.operation, FALSE))
           /\ brief' = PublishVersion(brief, NewVersion("HUMAN", brief.operation, FALSE))
           /\ UNCHANGED <<workflow, operations>>
  <2>1. PICK v : v = NewVersion("HUMAN", brief.operation, FALSE)
    OBVIOUS
  <2>2. v \in VersionRow /\ v.source = "HUMAN" /\ v.operation = brief.operation /\ v.required
    BY <1>1, <2>1, HumanVersion
  <2>3. brief' = PublishVersion(brief, v) /\ versions' = Append(versions, v)
    BY <1>3, <2>1
  <2>4. /\ brief' \in BriefRow /\ brief'.state = "AWAITING_CONFIRMATION"
        /\ brief'.current = NextVersionNumber /\ brief'.operation = brief.operation
    BY <1>1, <2>2, <2>3, BriefPublished
  <2>5. Revised(brief.operation, v)
    BY <1>1, <1>2, <1>3, <2>2, <2>3, <2>4 DEF Revised
  <2> QED
    BY <1>1, <1>3, <2>5
<1>4. CASE /\ Len(operations) < MaxOperations
           /\ brief.state = "CONFIRMED" /\ workflow.status = "RETRIEVING"
           /\ versions' = Append(versions, NewVersion("HUMAN", Len(operations) + 1, FALSE))
           /\ brief' = [PublishVersion(brief, NewVersion("HUMAN", Len(operations) + 1, FALSE))
                           EXCEPT !.operation = Len(operations) + 1]
           /\ workflow' = Moved("AWAITING_PRODUCT_CONFIRMATION", "confirm_product_brief")
           /\ operations' = Append(operations,
                 RevisionOperation(brief.version + 1, workflow.version + 1))
  <2>0. PICK o \in Nat : o = Len(operations) + 1
    BY <1>1
  <2>1. PICK v : v = NewVersion("HUMAN", o, FALSE)
    OBVIOUS
  <2>2. v \in VersionRow /\ v.source = "HUMAN" /\ v.operation = o /\ v.required
    BY <1>1, <2>1, HumanVersion
  <2>3. PICK b : b = PublishVersion(brief, v)
    OBVIOUS
  <2>4. b \in BriefRow /\ b.state = "AWAITING_CONFIRMATION" /\ b.current = NextVersionNumber
    BY <1>1, <2>2, <2>3, BriefPublished
  <2>5. brief' = [b EXCEPT !.operation = o] /\ versions' = Append(versions, v)
    BY <1>4, <2>0, <2>1, <2>3
  <2>6. /\ brief' \in BriefRow /\ brief'.state = "AWAITING_CONFIRMATION"
        /\ brief'.current = NextVersionNumber /\ brief'.operation = o
    BY <2>4, <2>5 DEF BriefRow
  <2>7. workflow' \in WorkflowRow /\ workflow'.status = "AWAITING_PRODUCT_CONFIRMATION"
    BY <1>1, <1>4, WorkflowMoved
  <2>8. Revised(o, v)
    BY <1>2, <1>4, <2>2, <2>5, <2>6, <2>7 DEF Revised
  <2>9. PICK target \in Nat, expected \in Nat :
            target = brief.version + 1 /\ expected = workflow.version + 1
    BY <1>1
  <2>10. \E row \in AnalysisRow :
             /\ operations' = Append(operations, row)
             /\ row.state = "WAITING_HUMAN" /\ row.attempts = 1 /\ row.budget = 1
    BY <1>4, <2>9, NewOperationRow
  <2> QED
    BY <1>4, <2>0, <2>8, <2>10
<1> QED
  BY <1>3, <1>4 DEF Revise

LEMMA ReviseKeeps ==
  ASSUME VisionInv, Revise, UNCHANGED <<ledger, worker>>
  PROVE  VisionInv'
<1>1. PICK o, v :
          /\ Revised(o, v)
          /\ \/ o \in DOMAIN operations /\ UNCHANGED operations
             \/ /\ o = Len(operations) + 1 /\ Len(operations) < MaxOperations
                /\ \E row \in AnalysisRow :
                      /\ operations' = Append(operations, row)
                      /\ row.state = "WAITING_HUMAN" /\ row.attempts = 1 /\ row.budget = 1
  BY ReviseRows
<1>2. /\ v \in VersionRow /\ v.source = "HUMAN" /\ v.operation = o
      /\ versions' = Append(versions, v)
      /\ brief.state # "DRAFT"
      /\ brief' \in BriefRow /\ brief'.state = "AWAITING_CONFIRMATION"
      /\ brief'.current = NextVersionNumber /\ brief'.operation = o
      /\ workflow' \in WorkflowRow /\ workflow'.status = "AWAITING_PRODUCT_CONFIRMATION"
      /\ UNCHANGED <<retained, confirmations, usable, faults>>
  BY <1>1 DEF Revised
<1>3. VisionTypes
  BY DEF VisionInv
<1>4. PICK number : number = NextVersionNumber
  OBVIOUS
<1>5. /\ versions' \in Seq(VersionRow) /\ number \in DOMAIN versions' /\ versions'[number] = v
      /\ DOMAIN versions' = DOMAIN versions \cup {number} /\ number \notin DOMAIN versions
      /\ \A n \in DOMAIN versions : versions'[n] = versions[n]
  BY <1>2, <1>3, <1>4, VersionAdded
<1>6. /\ operations' \in Seq(AnalysisRow) /\ Len(operations') <= MaxOperations
      /\ o \in DOMAIN operations' /\ Quiet /\ HoldersKept /\ StatesFit /\ OperationsBudgeted'
  <2>1. CASE o \in DOMAIN operations /\ UNCHANGED operations
    <3>1. operations \in Seq(AnalysisRow) /\ Len(operations) <= MaxOperations
      BY <1>3 DEF VisionTypes, BriefTypes
    <3> QED
      BY <2>1, <3>1, OnlyRowsChange
  <2>2. ASSUME o = Len(operations) + 1, Len(operations) < MaxOperations,
               NEW row \in AnalysisRow, operations' = Append(operations, row),
               row.state = "WAITING_HUMAN", row.attempts = 1, row.budget = 1
        PROVE  /\ operations' \in Seq(AnalysisRow) /\ Len(operations') <= MaxOperations
               /\ o \in DOMAIN operations' /\ Quiet /\ HoldersKept /\ StatesFit
               /\ OperationsBudgeted'
    <3>1. /\ operations' \in Seq(AnalysisRow) /\ Len(operations') <= MaxOperations
          /\ DOMAIN operations' = DOMAIN operations \cup {o} /\ o \notin DOMAIN operations
          /\ operations'[o] = row /\ \A p \in DOMAIN operations : operations'[p] = operations[p]
      BY <1>3, <2>2, OperationAppended
    <3>2. Quiet /\ HoldersKept /\ OperationsBudgeted'
      BY <2>2, AppendedIsQuiet
    <3>3. \E n \in DOMAIN versions' : versions'[n].operation = o
      BY <1>2, <1>5
    <3>4. StatesFit
      BY <2>2, <3>1, <3>3 DEF StatesFit
    <3> QED
      BY <3>1, <3>2, <3>4
  <2> QED
    BY <1>1, <2>1, <2>2
<1>7. VisionTypes'
  <2>1. confirmations \subseteq DOMAIN versions'
    BY <1>3, <1>5 DEF VisionTypes, BriefTypes, ConfirmationRows
  <2>2. BriefTypes' /\ worker' \in [Workers -> Executor]
    BY <1>2, <1>3, <1>5, <1>6, <2>1 DEF VisionTypes, BriefTypes, ConfirmationRows
  <2> QED
    BY <1>2, <1>3, <2>2, TypesKept
<1>8. VersionsKept /\ BriefFits' /\ WorkflowAgrees'
  BY <1>2, <1>4, <1>5, <1>6 DEF VersionsKept, BriefFits, WorkflowAgrees
<1>9. SubmissionKeepsWorkflow' /\ SubmissionKeepsBrief'
  BY <1>2, <1>6, NoSubmissionPending
<1> QED
  BY <1>6, <1>7, <1>8, <1>9, QuietKeeps

LEMMA ConfirmKeeps ==
  ASSUME VisionInv, Confirm, UNCHANGED <<ledger, worker>>
  PROVE  VisionInv'
<1>0. PICK o : o = brief.operation
  OBVIOUS
<1>1. /\ brief.state = "AWAITING_CONFIRMATION" /\ operations[o].state = "WAITING_HUMAN"
      /\ brief' = ConfirmBrief(brief) /\ workflow' = Moved("RETRIEVING", "retrieve_references")
      /\ operations' = [operations EXCEPT ![o].state = "SUCCEEDED"]
      /\ confirmations' = confirmations \cup {brief.current}
      /\ UNCHANGED <<retained, versions, usable, faults>>
  BY <1>0 DEF Confirm
<1>2. /\ VisionTypes /\ brief \in BriefRow /\ o \in DOMAIN operations
      /\ brief.current \in DOMAIN versions /\ operations[o] \in AnalysisRow
      /\ \A p \in DOMAIN operations : operations[p].reviewed \in Nat
  BY <1>0, <1>1, OperationFacts, OperationNumbers DEF VisionInv, VisionTypes, BriefTypes, OutputIsFinal
<1>3. /\ brief' \in BriefRow /\ brief'.state = "CONFIRMED" /\ brief'.current = brief.current
      /\ brief'.confirmed = brief.current /\ brief'.operation = o
  <2>1. brief.version + 1 \in Nat
    BY <1>2 DEF BriefRow
  <2> QED
    BY <1>0, <1>1, <1>2, <2>1 DEF ConfirmBrief, BriefRow
<1>4. workflow' \in WorkflowRow /\ workflow'.status = "RETRIEVING"
  BY <1>1, <1>2, WorkflowMoved
<1> DEFINE row == [operations[o] EXCEPT !.state = "SUCCEEDED"]
<1>5. row \in AnalysisRow /\ row.state = "SUCCEEDED" /\ row.holder = operations[o].holder
      /\ row.attempts = operations[o].attempts /\ row.budget = operations[o].budget
      /\ row.reviewed = operations[o].reviewed
  BY <1>2 DEF AnalysisRow
<1>6. operations' = [operations EXCEPT ![o] = row]
  BY <1>1
<1> HIDE DEF row
<1>7. /\ operations' \in Seq(AnalysisRow) /\ Len(operations') = Len(operations)
      /\ DOMAIN operations' = DOMAIN operations /\ operations'[o] = row
      /\ \A p \in DOMAIN operations : p # o => operations'[p] = operations[p]
  BY <1>2, <1>5, <1>6, OperationChanged
<1>8. VisionTypes'
  <2>1. confirmations' \subseteq DOMAIN versions
    BY <1>1, <1>2 DEF VisionTypes, BriefTypes, ConfirmationRows
  <2>2. BriefTypes' /\ worker' \in [Workers -> Executor]
    BY <1>1, <1>2, <1>3, <1>7, <2>1 DEF VisionTypes, BriefTypes, ConfirmationRows
  <2> QED
    BY <1>2, <1>4, <2>2, TypesKept
<1>9. Quiet
  <2>1. OperationsProceed /\ WorkersProceed
    BY <1>5, <1>7 DEF OperationsProceed, WorkersProceed, Active, Executes
  <2>2. ASSUME NEW p \in DOMAIN operations
        PROVE  /\ operations'[p].reviewed >= operations[p].reviewed
               /\ operations'[p].state \in {"PENDING", "RETRY"} =>
                     operations[p].state \in {"PENDING", "RETRY"}
    BY <1>2, <1>5, <1>7
  <2> QED
    BY <1>7, <2>1, <2>2 DEF Quiet
<1>10. OperationsBudgeted'
  <2>1. OperationsBudgeted
    BY InvariantParts
  <2>2. operations[o].attempts # 0
    BY <1>1, <1>2, <2>1 DEF OperationsBudgeted
  <2> QED
    BY <1>2, <1>5, <1>7, <2>1, <2>2 DEF OperationsBudgeted
<1>11. StatesFit
  <2>1. \E n \in DOMAIN versions : versions[n].operation = o
    BY <1>1, <1>2 DEF VisionInv, StatesAgree
  <2> QED
    BY <1>1, <1>5, <1>7, <2>1 DEF StatesFit
<1>12. HoldersKept
  <2> SUFFICES ASSUME NEW v \in Workers, worker'[v].pc # "idle",
                      operations'[worker[v].op].holder = v
               PROVE  operations[worker[v].op].holder = v
    BY DEF HoldersKept
  <2>1. worker[v].op \in DOMAIN operations
    BY DEF VisionInv, AttemptsBudgeted, Active
  <2> QED
    BY <1>5, <1>7, <2>1
<1>13. VersionsKept /\ BriefFits' /\ WorkflowAgrees'
  BY <1>1, <1>2, <1>3, <1>4, <1>7 DEF VersionsKept, BriefFits, WorkflowAgrees
<1>14. SubmissionKeepsWorkflow' /\ SubmissionKeepsBrief'
  BY <1>1, <1>9, NoSubmissionPending
<1> QED
  BY <1>8, <1>9, <1>10, <1>11, <1>12, <1>13, <1>14, QuietKeeps

-----------------------------------------------------------------------------
(* The invariant *)

LEMMA InitInvariant == VisionInit => VisionInv
<1> SUFFICES ASSUME VisionInit
             PROVE  VisionInv
  OBVIOUS
<1>1. /\ versions = << >> /\ operations = << >> /\ confirmations = {} /\ intents = {}
      /\ dropped = {} /\ objects = {} /\ submitted = {} /\ brief = NoBrief
      /\ workflow = [status |-> "UNDERSTANDING", node |-> "understand_product", version |-> 3]
      /\ calls = [k \in Keys |-> "none"]
      /\ artifact = [k \in Keys |-> [kind \in Kinds |-> "none"]]
      /\ worker = [w \in Workers |-> Idle]
  BY DEF VisionInit, BriefInit
<1>2. /\ DOMAIN versions = {} /\ DOMAIN operations = {}
      /\ versions \in Seq(VersionRow) /\ operations \in Seq(AnalysisRow) /\ Len(operations) = 0
  BY <1>1, EmptySeq
<1>3. VisionTypes
  <2>1. worker \in [Workers -> Executor]
    BY <1>1, IdleExecutor
  <2>2. brief \in BriefRow /\ workflow \in WorkflowRow
    BY <1>1 DEF NoBrief, BriefRow, WorkflowRow, NoVersion, NoOperation
  <2>3. retained \in BOOLEAN /\ usable \in BOOLEAN /\ faults \in Nat
    BY DEF VisionInit, BriefInit
  <2>4. BriefTypes
    BY <1>1, <1>2, <2>2, <2>3 DEF BriefTypes, ConfirmationRows
  <2>5. /\ calls \in [Keys -> CallStatus \cup {"none"}]
        /\ artifact \in [Keys -> [Kinds -> ArtifactState]]
    BY <1>1 DEF ArtifactState
  <2> QED
    BY <1>1, <2>1, <2>2, <2>4, <2>5 DEF VisionTypes
<1>4. \A w \in Workers : worker[w].pc = "idle"
  BY <1>1 DEF Idle
<1>5. AttemptsBudgeted /\ OneExecutor /\ ExecutorsProgress /\ WrittenExists
      /\ HolderKnowsOutput /\ IntendedMeansUnsent
  BY <1>2, <1>4 DEF AttemptsBudgeted, OneExecutor, ExecutorsProgress, WrittenExists,
                    HolderKnowsOutput, IntendedMeansUnsent, Active, Executes, Executing
<1>6. \A k \in Keys : Blank(k)
  BY <1>1 DEF Blank
<1>7. LedgerBegun /\ CallsArePrefix /\ LedgerSound
  <2>1. \A k \in Keys : calls[k] = "none" /\ \A kind \in Kinds : artifact[k][kind] = "none"
    BY <1>6 DEF Blank
  <2> QED
    BY <1>2, <1>6, <2>1 DEF LedgerBegun, CallsArePrefix, LedgerSound
<1>8. SubmissionKeepsWorkflow /\ SubmissionKeepsBrief
  BY <1>1 DEF SubmissionKeepsWorkflow, SubmissionKeepsBrief
<1>9. StatesAgree /\ OutputIsFinal
  BY <1>1, <1>2 DEF StatesAgree, OutputIsFinal, NoBrief, OutputOf
<1>10. RetriedWhenResolved
  BY <1>2, <1>4 DEF RetriedWhenResolved
<1> QED
  BY <1>3, <1>5, <1>7, <1>8, <1>9, <1>10 DEF VisionInv

\* Every step of an executor is a claim, a move in its own attempt, a
\* publication, an inspection, a decision or a settlement.
LEMMA ExecutorStepKeeps ==
  ASSUME VisionInv, NEW w \in Workers, ExecutorStep(w)
  PROVE  VisionInv'
<1>1. CASE ClaimAnalysis(w)
  BY <1>1, ClaimAnalysisClaims, ClaimedKeeps
<1>2. CASE ClaimReconciliation(w)
  BY <1>2, ClaimReconciliationClaims, ClaimedKeeps
<1>3. CASE PersistSuccess(w)
  BY <1>3, InvariantBasics, PersistSuccessMove, PlainMoveKeeps, PublishKeeps
<1>4. CASE InspectArtifacts(w)
  BY <1>4, InspectArtifactsKeeps
<1>5. CASE Reconcile(w)
  BY <1>5, ReconcileKeeps
<1>6. CASE Settle(w)
  BY <1>6, SettleKeeps
<1>7. CASE \/ BeginExecution(w) \/ AuthorizeImages(w) \/ StoreIntent(w) \/ WriteObject(w)
           \/ MarkArtifact(w) \/ DeadlinePasses(w) \/ RecordProviderAttempt(w)
           \/ SendRequest(w) \/ ReadAnswer(w) \/ PersistCompletedCall(w) \/ PersistFailure(w)
  <2>1. PlainMove(w)
    BY <1>7, InvariantBasics, BeginExecutionMove, AuthorizeImagesMove, StoreIntentMove,
       WriteObjectMove, MarkArtifactMove, DeadlinePassesMove, RecordProviderAttemptMove,
       SendRequestMove, ReadAnswerMove, PersistCompletedCallMove, PersistFailureMove
  <2> QED
    BY <2>1, PlainMoveKeeps
<1> QED
  BY <1>1, <1>2, <1>3, <1>4, <1>5, <1>6, <1>7 DEF ExecutorStep

LEMMA InvariantStep == VisionInv /\ [VisionNext]_visionVars => VisionInv'
<1> SUFFICES ASSUME VisionInv, [VisionNext]_visionVars
             PROVE  VisionInv'
  OBVIOUS
<1>1. CASE ReviewerStep /\ UNCHANGED <<ledger, worker>>
  BY <1>1, RequestAnalysisKeeps, ReviseKeeps, ConfirmKeeps DEF ReviewerStep
<1>2. CASE (Expire \/ RevokeSource) /\ UNCHANGED <<ledger, worker>>
  BY <1>2, EnvironmentKeeps
<1>3. CASE CancelWorkflow
  BY <1>3, CancelWorkflowKeeps
<1>4. CASE \E w \in Workers : ExecutorStep(w) \/ Crash(w)
  BY <1>4, ExecutorStepKeeps, CrashKeeps
<1>5. CASE LeaseExpires
  BY <1>5, LeaseExpiresKeeps
<1>6. CASE ReplayAnalysis
  BY <1>6, ReplayAnalysisKeeps
<1>7. CASE UNCHANGED visionVars
  <2>1. /\ UNCHANGED <<workflow, retained, brief, versions, operations, confirmations, usable,
                       faults, ledger, worker>>
    BY <1>7 DEF visionVars, briefVars
  <2>2. Quiet /\ HoldersKept /\ StatesFit /\ OperationsBudgeted'
    BY <2>1, OnlyRowsChange
  <2>3. VisionTypes'
    <3>1. BriefTypes' /\ workflow' \in WorkflowRow /\ worker' \in [Workers -> Executor]
      BY <2>1 DEF VisionInv, VisionTypes, BriefTypes, ConfirmationRows
    <3> QED
      BY <2>1, <3>1, TypesKept DEF VisionInv
  <2> QED
    BY <2>1, <2>2, <2>3, RowsUntouched, QuietKeeps
<1> QED
  BY <1>1, <1>2, <1>3, <1>4, <1>5, <1>6, <1>7 DEF VisionNext

-----------------------------------------------------------------------------
(* Theorems *)

\* The columns keep their types; an attempt is executed by one worker, within
\* the budget; an executor finds in the ledger of its attempt exactly what it
\* did; the ledger is sound; a submission under way keeps its workflow and its
\* brief; the rows tell one story; and an operation goes on to another attempt
\* only when its submissions are resolved (VisionAnalysisService.execute and
\* reconcile, against the commands of ProductBriefService).
THEOREM VisionInvariant == VisionSpec => []VisionInv
  BY InitInvariant, InvariantStep, PTL DEF VisionSpec

\* The ledger never says more than the object store and the answers do, whatever
\* was lost (ProviderArtifactStore, _store_provider_calls_once).
THEOREM LedgerIsSound == VisionSpec => []LedgerSound
<1>1. VisionInv => LedgerSound
  BY DEF VisionInv
<1> QED
  BY <1>1, VisionInvariant, PTL

\* However reviewers, executions and reconciliations interleave, the workflow,
\* the brief and its operations tell one story (request_analysis, revise,
\* confirm, _persist_outcome, reconcile).
THEOREM StatesTellOneStory == VisionSpec => []StatesAgree
<1>1. VisionInv => StatesAgree
  BY DEF VisionInv
<1> QED
  BY <1>1, VisionInvariant, PTL

\* From the intent to the outcome, the workflow stays at the version the analysis
\* expects (has_irreversible_provider_submission).
THEOREM SubmissionKept == VisionSpec => []SubmissionKeepsWorkflow
<1>1. VisionInv => SubmissionKeepsWorkflow
  BY DEF VisionInv
<1> QED
  BY <1>1, VisionInvariant, PTL

\* No operation is removed and none forgets an attempt.
LEMMA OperationsLast ==
  ASSUME VisionInv, VisionNext
  PROVE  \A o \in DOMAIN operations :
             o \in DOMAIN operations' /\ operations'[o].attempts >= operations[o].attempts
<1> DEFINE Lasts == \A o \in DOMAIN operations :
                       o \in DOMAIN operations' /\ operations'[o].attempts >= operations[o].attempts
<1>1. VisionTypes /\ \A o \in DOMAIN operations :
                         operations[o].attempts \in Nat /\ operations[o] \in AnalysisRow
  BY OperationFacts, OperationNumbers DEF VisionInv
<1>2. CASE UNCHANGED operations
  BY <1>1, <1>2
<1>3. ASSUME NEW row, operations' = Append(operations, row)
      PROVE  Lasts
  <2>1. operations \in Seq(AnalysisRow) /\ DOMAIN operations = 1..Len(operations)
        /\ Len(operations) \in Nat
    BY <1>1, OperationFacts
  <2>2. DOMAIN operations' = 1..(Len(operations) + 1)
        /\ \A o \in 1..Len(operations) : operations'[o] = operations[o]
    BY <1>3, <2>1
  <2> QED
    BY <1>1, <2>1, <2>2
<1>4. ASSUME NEW o \in DOMAIN operations, NEW row, operations' = [operations EXCEPT ![o] = row],
             row.attempts = operations[o].attempts
      PROVE  Lasts
  BY <1>1, <1>4
<1> HIDE DEF Lasts
<1>5. CASE ReviewerStep
  <2>1. CASE RequestAnalysis
    <3>1. PICK o : o = Len(operations) + 1
      OBVIOUS
    <3>2. \E row : operations' = Append(operations, row)
      BY <1>1, <2>1, <3>1, RequestAnalysisRows
    <3> QED
      BY <1>3, <3>2 DEF Lasts
  <2>2. CASE Revise
    <3>1. UNCHANGED operations \/ \E row : operations' = Append(operations, row)
      BY <2>2, ReviseRows
    <3> QED
      BY <1>1, <1>3, <3>1 DEF Lasts
  <2>3. CASE Confirm
    <3>1. PICK o : o = brief.operation
      OBVIOUS
    <3> DEFINE row == [operations[o] EXCEPT !.state = "SUCCEEDED"]
    <3>2. operations' = [operations EXCEPT ![o] = row]
      BY <2>3, <3>1 DEF Confirm
    <3>3. CASE o \in DOMAIN operations
      <4>1. row.attempts = operations[o].attempts
        BY <1>1, <3>3 DEF AnalysisRow
      <4> HIDE DEF row
      <4> QED
        BY <1>4, <3>2, <3>3, <4>1 DEF Lasts
    <3>4. CASE o \notin DOMAIN operations
      <4>1. operations' = operations
        <5>1. operations = [p \in DOMAIN operations |-> operations[p]]
          BY <1>1, OperationFacts
        <5> QED
          BY <3>2, <3>4, <5>1
      <4> QED
        BY <1>1, <4>1 DEF Lasts
    <3> QED
      BY <3>3, <3>4
  <2> QED
    BY <1>5, <2>1, <2>2, <2>3 DEF ReviewerStep
<1>6. CASE LeaseExpires
  <2>1. PICK o \in DOMAIN operations : operations' = [operations EXCEPT ![o].holder = Nobody]
    BY <1>6 DEF LeaseExpires
  <2> DEFINE row == [operations[o] EXCEPT !.holder = Nobody]
  <2>2. row.attempts = operations[o].attempts
    BY <1>1 DEF AnalysisRow
  <2>3. operations' = [operations EXCEPT ![o] = row]
    BY <2>1
  <2> HIDE DEF row
  <2> QED
    BY <1>4, <2>2, <2>3 DEF Lasts
<1>7. CASE ReplayAnalysis
  <2>1. PICK o \in DOMAIN operations :
            operations' = [operations EXCEPT ![o].state = "RETRY",
                                             ![o].budget = operations[o].attempts + 1,
                                             ![o].reviewed = operations[o].attempts]
    BY <1>7 DEF ReplayAnalysis
  <2> DEFINE row == [operations[o] EXCEPT !.state = "RETRY", !.budget = operations[o].attempts + 1,
                                          !.reviewed = operations[o].attempts]
  <2>2. row.attempts = operations[o].attempts
    BY <1>1 DEF AnalysisRow
  <2>3. operations' = [operations EXCEPT ![o] = row]
    BY <2>1
  <2> HIDE DEF row
  <2> QED
    BY <1>4, <2>2, <2>3 DEF Lasts
<1>8. ASSUME NEW w \in Workers, ExecutorStep(w), operations' # operations
      PROVE  Lasts
  <2>1. ClaimAnalysis(w) \/ ClaimReconciliation(w) \/ Settle(w)
    BY <1>8 DEF ExecutorStep, BeginExecution, AuthorizeImages, StoreIntent, WriteObject,
       MarkArtifact, DeadlinePasses, RecordProviderAttempt, SendRequest, ReadAnswer,
       PersistCompletedCall, PersistFailure, PersistSuccess, InspectArtifacts, Reconcile, rows,
       briefVars
  <2>2. CASE ClaimAnalysis(w) \/ ClaimReconciliation(w)
    <3>1. PICK o, n : Claimed(w, o, n)
      BY <2>2, ClaimAnalysisClaims, ClaimReconciliationClaims
    <3>2. o \in DOMAIN operations /\ n \in Nat /\ operations[o].attempts <= n
          /\ operations[o].attempts \in Nat
      BY <3>1, ClaimedFacts
    <3>3. DOMAIN operations' = DOMAIN operations /\ operations'[o].attempts = n
          /\ \A p \in DOMAIN operations : p # o => operations'[p] = operations[p]
      BY <3>1 DEF Claimed
    <3> QED
      BY <1>1, <3>2, <3>3 DEF Lasts
  <2>3. CASE Settle(w)
    <3>1. PICK o, state : operations' = [operations EXCEPT ![o].state = state, ![o].holder = Nobody]
                          /\ o = worker[w].op
      BY <1>8, <2>3 DEF Settle
    <3> DEFINE row == [operations[o] EXCEPT !.state = state, !.holder = Nobody]
    <3>2. o \in DOMAIN operations
      BY <2>3, <3>1 DEF Settle, VisionInv, AttemptsBudgeted, Active
    <3>3. row.attempts = operations[o].attempts
      BY <1>1, <3>2 DEF AnalysisRow
    <3>4. operations' = [operations EXCEPT ![o] = row]
      BY <3>1
    <3> HIDE DEF row
    <3> QED
      BY <1>4, <3>2, <3>3, <3>4
  <2> QED
    BY <2>1, <2>2, <2>3
<1>9. \/ ReviewerStep \/ LeaseExpires \/ ReplayAnalysis \/ UNCHANGED operations
      \/ \E w \in Workers : ExecutorStep(w) /\ operations' # operations
  BY DEF VisionNext, Expire, RevokeSource, CancelWorkflow, Crash, rows
<1> QED
  BY <1>1, <1>5, <1>6, <1>7, <1>8, <1>9 DEF Lasts

\* Whoever executes an attempt did so before, or has just begun a new one.
LEMMA ExecutionsGoOn ==
  ASSUME VisionInv, VisionNext, NEW v \in Workers, Executes(v)'
  PROVE  \/ /\ Executes(v) /\ worker'[v].op = worker[v].op
            /\ worker'[v].attempt = worker[v].attempt
         \/ /\ worker'[v].op \in DOMAIN operations
            /\ worker'[v].attempt > operations[worker'[v].op].attempts
<1>1. Basics /\ VisionTypes /\ worker \in [Workers -> Executor]
  BY InvariantBasics DEF VisionInv, VisionTypes
<1>2. CASE worker' = worker
  BY <1>2 DEF Executes
<1>3. ASSUME NEW w \in Workers, Crash(w) \/ Settle(w) \/ Reconcile(w) \/ InspectArtifacts(w)
      PROVE  Executes(v) /\ worker'[v].op = worker[v].op /\ worker'[v].attempt = worker[v].attempt
  <2>1. v # w => worker'[v] = worker[v]
    BY <1>1, <1>3 DEF Crash, Settle, Reconcile, InspectArtifacts, Finish
  <2>2. worker'[w].pc \in {"idle", "settle", "decide"}
    BY <1>1, <1>3 DEF Crash, Settle, Reconcile, InspectArtifacts, Finish, Idle, Executor
  <2> QED
    BY <2>1, <2>2 DEF Executes, Executing
<1>4. ASSUME NEW w \in Workers, ClaimAnalysis(w) \/ ClaimReconciliation(w)
      PROVE  \/ /\ Executes(v) /\ worker'[v].op = worker[v].op
                /\ worker'[v].attempt = worker[v].attempt
             \/ /\ worker'[v].op \in DOMAIN operations
                /\ worker'[v].attempt > operations[worker'[v].op].attempts
  <2>1. PICK o, n : Claimed(w, o, n)
    BY <1>4, ClaimAnalysisClaims, ClaimReconciliationClaims
  <2>2. CASE v = w
    BY <2>1, <2>2, ClaimedFacts DEF Claimed, Executes, Executing
  <2>3. CASE v # w
    BY <2>1, <2>3 DEF Claimed, Executes
  <2> QED
    BY <2>2, <2>3
<1>5. ASSUME NEW w \in Workers, PersistSuccess(w)
      PROVE  Executes(v) /\ worker'[v].op = worker[v].op /\ worker'[v].attempt = worker[v].attempt
  <2>1. \E result : Finish(w, result)
    BY <1>5 DEF PersistSuccess
  <2>2. v # w /\ worker'[v] = worker[v]
    BY <1>1, <2>1 DEF Finish, Executes, Executing, Executor
  <2> QED
    BY <2>2 DEF Executes
<1>6. ASSUME NEW w \in Workers,
             \/ BeginExecution(w) \/ AuthorizeImages(w) \/ StoreIntent(w) \/ WriteObject(w)
             \/ MarkArtifact(w) \/ DeadlinePasses(w) \/ RecordProviderAttempt(w)
             \/ SendRequest(w) \/ ReadAnswer(w) \/ PersistCompletedCall(w) \/ PersistFailure(w)
      PROVE  Executes(v) /\ worker'[v].op = worker[v].op /\ worker'[v].attempt = worker[v].attempt
  <2>1. PlainMove(w)
    BY <1>1, <1>6, BeginExecutionMove, AuthorizeImagesMove, StoreIntentMove,
       WriteObjectMove, MarkArtifactMove, DeadlinePassesMove, RecordProviderAttemptMove,
       SendRequestMove, ReadAnswerMove, PersistCompletedCallMove, PersistFailureMove
  <2> QED
    BY <2>1 DEF PlainMove, ExecutorMove, Stays, Executes
<1>7. \/ worker' = worker
      \/ \E w \in Workers : Crash(w) \/ ExecutorStep(w)
  BY DEF VisionNext, CancelWorkflow, LeaseExpires, ReplayAnalysis
<1> QED
  BY <1>2, <1>3, <1>4, <1>5, <1>6, <1>7 DEF ExecutorStep

\* Only the executor of a call gives its answer up, and it ends with that.
LEMMA AnswerGivenUp ==
  ASSUME VisionInv, VisionNext, dropped' # dropped
  PROVE  \E w \in Workers :
             /\ Executes(w) /\ dropped' = dropped \cup {Current(w)} /\ worker'[w].pc = "settle"
             /\ \A v \in Workers : v # w => worker'[v] = worker[v]
<1>1. Basics /\ VisionTypes /\ worker \in [Workers -> Executor]
  BY InvariantBasics DEF VisionInv, VisionTypes
<1>2. PICK w \in Workers : StoreIntent(w) \/ PersistCompletedCall(w)
  BY DEF VisionNext, ReviewerStep, Expire, RevokeSource, CancelWorkflow, ExecutorStep, Crash,
         LeaseExpires, ReplayAnalysis, ClaimAnalysis, BeginExecution, AuthorizeImages,
         WriteObject, MarkArtifact, DeadlinePasses, RecordProviderAttempt, SendRequest, ReadAnswer,
         PersistFailure, PersistSuccess, ClaimReconciliation, InspectArtifacts, Reconcile,
         Settle, ledger
<1>3. CASE StoreIntent(w)
  <2>1. worker[w].pc = "store" /\ dropped' = dropped \cup {Key(w)} /\ \E result : Finish(w, result)
    BY <1>3 DEF StoreIntent, Drops
  <2>2. Executes(w) /\ Key(w) = Current(w)
    BY <1>1, <2>1, KeyIsCurrent DEF Executes, Executing
  <2> QED
    BY <1>1, <2>1, <2>2 DEF Finish, Executor
<1>4. CASE PersistCompletedCall(w)
  <2>1. worker[w].pc = "repair" /\ dropped' = dropped \cup {CallKey(w, Len(Outcomes(w)))}
        /\ \E result : Finish(w, result)
    BY <1>4 DEF PersistCompletedCall, Drops
  <2>2. Executes(w) /\ CallKey(w, Len(Outcomes(w))) = Current(w)
    BY <2>1 DEF Executes, Executing, CallKey, Outcomes, Current, Recorded
  <2> QED
    BY <1>1, <2>1, <2>2 DEF Finish, Executor
<1> QED
  BY <1>2, <1>3, <1>4

\* A given-up answer ends the execution of its attempt: the executor that gave
\* it up was the only one (OneExecutor), and a claim begins a new attempt.
LEMMA DroppedStays ==
  ASSUME VisionInv, DroppedIsOver, VisionNext
  PROVE  DroppedIsOver'
<1>1. /\ Basics /\ VisionTypes /\ OneExecutor /\ AttemptsBudgeted
      /\ \A o \in DOMAIN operations : operations[o].attempts \in Nat
  BY InvariantBasics, OperationNumbers DEF VisionInv
<1>2. \A k \in dropped' : k \in Keys /\ k[2] \in Nat
  BY InvariantStep, KeyParts DEF VisionInv, VisionTypes
<1>3. ASSUME NEW k \in dropped
      PROVE  /\ k[1] \in DOMAIN operations' /\ k[2] <= operations'[k[1]].attempts
             /\ \A v \in Workers : Executes(v)' => k \notin KeysOf(v)'
  <2>1. k[1] \in DOMAIN operations /\ k[2] <= operations[k[1]].attempts /\ k \in Keys
        /\ k[2] \in Nat /\ \A v \in Workers : Executes(v) => k \notin KeysOf(v)
    BY <1>1, <1>3, KeyParts DEF DroppedIsOver, VisionTypes
  <2>2. k[1] \in DOMAIN operations' /\ operations'[k[1]].attempts >= operations[k[1]].attempts
        /\ operations'[k[1]].attempts \in Nat
    BY <2>1, OperationsLast, InvariantStep, NextOperationNumbers DEF VisionInv
  <2>3. ASSUME NEW v \in Workers, Executes(v)'
        PROVE  k \notin KeysOf(v)'
    <3>1. CASE Executes(v) /\ worker'[v].op = worker[v].op /\ worker'[v].attempt = worker[v].attempt
      BY <2>1, <3>1 DEF KeysOf
    <3>2. CASE worker'[v].op \in DOMAIN operations
               /\ worker'[v].attempt > operations[worker'[v].op].attempts
      <4> SUFFICES ASSUME k[1] = worker'[v].op, k[2] = worker'[v].attempt
                   PROVE  FALSE
        BY DEF KeysOf
      <4> QED
        BY <1>1, <2>1, <3>2
    <3> QED
      BY <2>3, <3>1, <3>2, ExecutionsGoOn
  <2> QED
    BY <1>1, <2>1, <2>2, <2>3
<1>4. CASE dropped' = dropped
  BY <1>3, <1>4 DEF DroppedIsOver
<1>5. CASE dropped' # dropped
  <2>1. PICK w \in Workers :
            /\ Executes(w) /\ dropped' = dropped \cup {Current(w)} /\ worker'[w].pc = "settle"
            /\ \A v \in Workers : v # w => worker'[v] = worker[v]
    BY <1>5, AnswerGivenUp
  <2>2. Progress(w) /\ Active(w) /\ Current(w) \in Keys
        /\ Current(w)[1] = worker[w].op /\ Current(w)[2] = worker[w].attempt
    BY <1>1, <2>1, CurrentKey DEF Basics, ExecutorsProgress, Executes, Executing, Active
  <2>3. worker[w].op \in DOMAIN operations /\ worker[w].attempt \in Nat
        /\ worker[w].attempt <= operations[worker[w].op].attempts
    BY <1>1, <2>2 DEF AttemptsBudgeted
  <2>4. worker[w].op \in DOMAIN operations'
        /\ operations'[worker[w].op].attempts >= operations[worker[w].op].attempts
        /\ operations'[worker[w].op].attempts \in Nat
    BY <2>3, OperationsLast, InvariantStep, NextOperationNumbers DEF VisionInv
  <2>5. ASSUME NEW v \in Workers, Executes(v)'
        PROVE  Current(w) \notin KeysOf(v)'
    <3>1. v # w /\ Executes(v) /\ worker'[v] = worker[v]
      BY <2>1, <2>5 DEF Executes, Executing
    <3>2. ~SameAttempt(v, w)
      BY <1>1, <2>1, <2>2, <3>1 DEF OneExecutor
    <3> QED
      BY <2>2, <3>1, <3>2 DEF SameAttempt, KeysOf
  <2> DEFINE c == Current(w)
  <2>6. c[1] \in DOMAIN operations' /\ c[2] <= operations'[c[1]].attempts
    BY <1>1, <2>2, <2>3, <2>4
  <2>7. \A v \in Workers : Executes(v)' => c \notin KeysOf(v)'
    BY <2>5
  <2>8. dropped' = dropped \cup {c}
    BY <2>1
  <2> HIDE DEF c
  <2> QED
    BY <1>3, <2>6, <2>7, <2>8 DEF DroppedIsOver
<1> QED
  BY <1>4, <1>5

\* The earlier requests of an operation whose executor is about to submit.
LEMMA EarlierResolved ==
  ASSUME VisionInv, DroppedIsOver, NEW w \in Workers, worker[w].pc = "send",
         NEW earlier \in submitted, earlier # Key(w), earlier[1] = worker[w].op,
         earlier[2] > operations[worker[w].op].reviewed,
         worker[w].attempt > operations[worker[w].op].reviewed
  PROVE  calls[earlier] \notin {"none", "UNKNOWN"} \/ earlier \in dropped
<1>0. PICK o, n : o = worker[w].op /\ n = worker[w].attempt
  OBVIOUS
<1>1. /\ Basics /\ VisionTypes /\ Executes(w) /\ Awaiting(w) /\ Active(w)
      /\ earlier \in intents /\ earlier \in Keys
  BY InvariantBasics DEF VisionInv, VisionTypes, Executes, Executing, Awaiting, Active
<1>2. /\ Current(w) = Key(w) /\ Current(w) \in intents /\ calls[Current(w)] = "none"
      /\ Current(w)[1] = o /\ Current(w)[2] = n
  BY <1>0, <1>1, KeyIsCurrent, CurrentKey, ExecutorsCall DEF Basics, ExecutorsProgress
<1>3. /\ o \in DOMAIN operations /\ n \in 1..operations[o].attempts
      /\ operations[o].attempts \in Nat /\ earlier[2] \in Nat /\ n \in Nat
      /\ earlier[2] \in 1..(MaxAttempts + MaxReplays)
  BY <1>0, <1>1, KeyParts, OperationNumbers DEF VisionInv, AttemptsBudgeted
<1>4. earlier[2] <= operations[o].attempts
  BY <1>0, <1>1, <1>3 DEF VisionInv, LedgerBegun, Blank
<1>5. \A m \in 1..operations[o].attempts :
          m > operations[o].reviewed /\ m < operations[o].attempts => Resolved(o, m)
  BY <1>3 DEF VisionInv, RetriedWhenResolved
<1>6. CASE earlier[2] = n
  <2>1. \/ calls[earlier] = "MALFORMED"
        \/ Blank(earlier)
    BY <1>0, <1>1, <1>2, <1>6, AttemptLedger
  <2> QED
    BY <1>1, <2>1 DEF Blank
<1>7. CASE earlier[2] < n
  <2>1. Resolved(o, earlier[2])
    BY <1>0, <1>3, <1>5, <1>7
  <2> QED
    BY <1>0, <1>1, <2>1 DEF Resolved
<1>8. CASE earlier[2] > n
  <2>1. Resolved(o, n)
    BY <1>0, <1>3, <1>4, <1>5, <1>8
  <2>2. Current(w) \notin dropped
    BY <1>1, <1>2, CurrentKey DEF DroppedIsOver, Basics, ExecutorsProgress
  <2> QED
    BY <1>2, <2>1, <2>2 DEF Resolved
<1> QED
  BY <1>3, <1>6, <1>7, <1>8

\* A given-up answer is the end of its attempt.
THEOREM DroppedEnds == VisionSpec => []DroppedIsOver
<1>1. VisionInit => DroppedIsOver
  BY DEF VisionInit, DroppedIsOver
<1>2. VisionInv /\ DroppedIsOver /\ [VisionNext]_visionVars => DroppedIsOver'
  <2>1. CASE VisionNext
    BY <2>1, DroppedStays
  <2>2. CASE UNCHANGED visionVars
    BY <2>2 DEF visionVars, briefVars, ledger, DroppedIsOver, Executes, KeysOf
  <2> QED
    BY <2>1, <2>2
<1> QED
  BY <1>1, <1>2, VisionInvariant, PTL DEF VisionSpec

\* No crash, lost lease, lost write or lost answer makes an executor send a
\* request again whose predecessor has no known outcome; only an answer that was
\* received and given up for a short lease is asked for again (execute,
\* _record_provider_attempt, _assert_submission_lease, reconcile).
THEOREM NoBlind == VisionSpec => NoBlindResubmission
<1> DEFINE Told(k) == \A earlier \in submitted :
                /\ earlier[1] = k[1]
                /\ earlier[2] > operations[k[1]].reviewed /\ k[2] > operations[k[1]].reviewed
                => calls[earlier] \notin {"none", "UNKNOWN"} \/ earlier \in dropped
<1>1. VisionInv /\ DroppedIsOver /\ [VisionNext]_visionVars
          => [\A k \in submitted' \ submitted : Told(k)]_visionVars
  <2> SUFFICES ASSUME VisionInv, DroppedIsOver, VisionNext, NEW k \in submitted' \ submitted
               PROVE  Told(k)
    OBVIOUS
  <2>1. PICK w \in Workers : SendRequest(w)
    BY DEF VisionNext, ReviewerStep, Expire, RevokeSource, CancelWorkflow, ExecutorStep, Crash,
           LeaseExpires, ReplayAnalysis, ClaimAnalysis, BeginExecution, AuthorizeImages, StoreIntent,
           WriteObject, MarkArtifact, DeadlinePasses, RecordProviderAttempt, ReadAnswer,
           PersistCompletedCall, PersistFailure, PersistSuccess, ClaimReconciliation,
           InspectArtifacts, Reconcile, Settle, ledger
  <2>2. worker[w].pc = "send" /\ submitted' \in {submitted, submitted \cup {Key(w)}}
    BY <2>1 DEF SendRequest, ProviderAnswers, ProviderNotReached, SubmissionLost
  <2>3. k = Key(w) /\ k \notin submitted /\ k[1] = worker[w].op /\ k[2] = worker[w].attempt
    BY <2>2 DEF Key
  <2> QED
    BY <2>2, <2>3, EarlierResolved
<1> QED
  BY <1>1, VisionInvariant, DroppedEnds, PTL DEF VisionSpec, NoBlindResubmission
==============================================================================
