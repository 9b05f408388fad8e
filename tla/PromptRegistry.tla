---------------------------- MODULE PromptRegistry ----------------------------
(***************************************************************************)
(* The prompt registry for one prompt of one node: revisions that pass     *)
(* from DRAFT to DEPRECATED, and the production pointer that resolution    *)
(* follows.  The revisions' content and applicability are left out.  A     *)
(* revision is named after the key of the command that created it.         *)
(***************************************************************************)
EXTENDS Idempotency

CONSTANTS
    Released, Staged,   \* two revisions of the beginning
    Semantics,          \* semantic revisions clients create
    MaxPromptCommands   \* bound: commands sent

VARIABLES
    revisions,
    pointer      \* PromptProductionPointer, or None before the first publication

promptVars == <<revisions, pointer>>
-----------------------------------------------------------------------------
Revisions == Keys \cup {Released, Staged}

(* _PROMPT_REVISION_TRANSITIONS *)
Successor == [DRAFT |-> "REVIEW", REVIEW |-> "STAGING", STAGING |-> "PRODUCTION",
              PRODUCTION |-> "DEPRECATED"]

(* PromptRevision.create *)
NewRevision(semantic, time) == [semantic |-> semantic, status |-> "DRAFT", version |-> 1, updated |-> time]

InStatus(semantic, status, version) ==
    [semantic |-> semantic, status |-> status, version |-> version, updated |-> 0]

(* PromptProductionPointer.create *)
NewPointer(r, time) == [revision |-> r, version |-> 1, updated |-> time]

(* PromptRevisionModel, PromptProductionPointerModel *)
RevisionRecord ==
    [semantic : Semantics \cup {Released, Staged}, status : DOMAIN Successor \cup {"DEPRECATED"},
     version : Nat \ {0}, updated : Nat]
PointerRecord == [revision : Revisions, version : Nat \ {0}, updated : Nat]

ASSUME PromptAssumption == None \notin RevisionRecord \cup PointerRecord

PromptTypes ==
    /\ revisions \in [Revisions -> RevisionRecord \cup {None}]
    /\ pointer \in PointerRecord \cup {None}

(* Either Released is in production, or nothing has been published yet. *)
PromptInit ==
    \E published \in BOOLEAN :
        /\ revisions = [r \in Revisions |->
               IF r = Released /\ published THEN InStatus(r, "PRODUCTION", 4)
               ELSE IF r \in {Released, Staged} THEN InStatus(r, "STAGING", 3) ELSE None]
        /\ pointer = IF published THEN NewPointer(Released, 0) ELSE None

RevisionRow(r) == <<"revision", r>>
SemanticRow(x) == <<"semantic", x>>
PointerRow == <<"pointer", None>>

Operation == [DRAFT |-> "submit_for_review", REVIEW |-> "stage", STAGING |-> "publish",
              PRODUCTION |-> "deprecate"]

(* The commands that make sense to a client that reads the registry now;   *)
(* by the time they hold their rows they may not.                          *)
PromptRequests ==
    LET known == {r \in Revisions : revisions[r] # None}
        next(r) == Operation[revisions[r].status]
    IN {Request("create_revision", "create", x, x, 0) : x \in Semantics}
       \cup {Request(next(r), next(r), r, None, revisions[r].version)
                : r \in {q \in known : revisions[q].status \in DOMAIN Operation}}
       \cup {Request("select_production", "select-production", None, r, pointer.version)
                : r \in {q \in known : pointer # None /\ revisions[q].status = "PRODUCTION"}}

(* Mutant: publish locks the pointer before the revision. *)
PromptRowsSwapped(t) ==
    LET r == t.request IN
    CASE r.op = "create_revision" -> <<KeyRow(t), SemanticRow(r.arg)>>
      [] r.op = "select_production" -> <<KeyRow(t), RevisionRow(r.arg), PointerRow>>
      [] r.op = "publish" -> <<KeyRow(t), PointerRow, RevisionRow(r.target)>>
      [] r.op = "deprecate" -> <<KeyRow(t), RevisionRow(r.target), PointerRow>>
      [] OTHER -> <<KeyRow(t), RevisionRow(r.target)>>

(* The rows each command locks, in order. *)
PromptRows(t) ==
    LET r == t.request IN
    CASE r.op = "create_revision" -> <<KeyRow(t), SemanticRow(r.arg)>>
      [] r.op = "select_production" -> <<KeyRow(t), RevisionRow(r.arg), PointerRow>>
      [] r.op \in {"publish", "deprecate"} -> <<KeyRow(t), RevisionRow(r.target), PointerRow>>
      [] OTHER -> <<KeyRow(t), RevisionRow(r.target)>>

HasSemantic(x) == \E r \in Revisions : revisions[r] # None /\ revisions[r].semantic = x

(* Mutant: a command that selects a revision does not lock it. *)
ReadRevisionUnlocked(c, row) ==
    IF tx[c].request.op = "select_production"
    THEN Look(c, row, revisions[row[2]]) ELSE LockRow(c, row, revisions[row[2]])

(* _get_locked_revision *)
ReadRevision(c, row) == LockRow(c, row, revisions[row[2]])

(* get_pointer *)
ReadPointer(c) == LockRow(c, PointerRow, pointer)

(* get_by_semantic_revision and the unique constraint of the insert *)
ReadSemantic(c, row) == Lock(c, row, HasSemantic(row[2]))

PromptRead(c) ==
    /\ Open(c) /\ ~Answered(tx[c])
    /\ \E row \in Owing(tx[c], PromptRows(tx[c])) :
          CASE row[1] = "key" -> Claim(c)
            [] row[1] = "revision" -> ReadRevision(c, row)
            [] row[1] = "pointer" -> ReadPointer(c)
            [] OTHER -> ReadSemantic(c, row)
    /\ UNCHANGED promptVars

CreateRevision(c) ==
    LET t == tx[c] IN
    /\ Granted(c, "create_revision", PromptRows(t))
    /\ ~t.view[SemanticRow(t.request.arg)] /\ revisions[t.key] = None
    /\ revisions' = [revisions EXCEPT ![t.key] = NewRevision(t.request.arg, t.time)]
    /\ Commit(c)
    /\ UNCHANGED pointer

(* _transition_time: the version the client saw, the one legal successor,  *)
(* and a clock that has not moved back while the command waited.           *)
MayEnter(row, status, version, time) ==
    /\ row # None /\ row.version = version
    /\ row.status \in DOMAIN Successor /\ Successor[row.status] = status
    /\ time >= row.updated

Entered(row, status, time) == [row EXCEPT !.status = status, !.version = @ + 1, !.updated = time]

(* save_lifecycle: UPDATE ... WHERE version = expected *)
SaveLifecycle(r, row, expected) ==
    /\ revisions[r] # None /\ revisions[r].version = expected
    /\ revisions' = [revisions EXCEPT ![r] = row]

(* _transition *)
Transition(c, op, status) ==
    LET t == tx[c]  r == t.request  row == t.view[RevisionRow(r.target)] IN
    /\ Granted(c, op, PromptRows(t))
    /\ MayEnter(row, status, r.version, t.time)
    /\ SaveLifecycle(r.target, Entered(row, status, t.time), r.version)
    /\ Commit(c)
    /\ UNCHANGED pointer

SubmitForReview(c) == Transition(c, "submit_for_review", "REVIEW")

Stage(c) == Transition(c, "stage", "STAGING")

(* PromptProductionPointer.repoint *)
MayRepoint(p, expected, time) == p.version = expected /\ time >= p.updated

Repointed(p, r, time) == [revision |-> r, version |-> p.version + 1, updated |-> time]

(* save_pointer: UPDATE ... WHERE version = expected *)
SavePointer(p, expected) == pointer.version = expected /\ pointer' = p

(* add_pointer: the insert fails when another publication has been first. *)
AddPointer(p) == pointer = None /\ pointer' = p

Publish(c) ==
    LET t == tx[c]  r == t.request
        row == t.view[RevisionRow(r.target)]
        p == t.view[PointerRow]
    IN /\ Granted(c, "publish", PromptRows(t))
       /\ MayEnter(row, "PRODUCTION", r.version, t.time)
       /\ SaveLifecycle(r.target, Entered(row, "PRODUCTION", t.time), r.version)
       /\ IF p = None
          THEN AddPointer(NewPointer(r.target, t.time))
          ELSE MayRepoint(p, p.version, t.time) /\ SavePointer(Repointed(p, r.target, t.time), p.version)
       /\ Commit(c)

(* A selection of the revision that is already selected changes nothing. *)
SelectProduction(c) ==
    LET t == tx[c]  r == t.request
        row == t.view[RevisionRow(r.arg)]
        p == t.view[PointerRow]
    IN /\ Granted(c, "select_production", PromptRows(t))
       /\ row # None /\ p # None /\ row.status = "PRODUCTION"
       /\ p.version = r.version
       /\ IF p.revision = r.arg THEN UNCHANGED pointer
          ELSE MayRepoint(p, r.version, t.time) /\ SavePointer(Repointed(p, r.arg, t.time), r.version)
       /\ Commit(c)
       /\ UNCHANGED revisions

Deprecate(c) ==
    LET t == tx[c]  r == t.request
        row == t.view[RevisionRow(r.target)]
        p == t.view[PointerRow]
    IN /\ Granted(c, "deprecate", PromptRows(t))
       /\ IF p = None THEN TRUE ELSE p.revision # r.target
       /\ MayEnter(row, "DEPRECATED", r.version, t.time)
       /\ SaveLifecycle(r.target, Entered(row, "DEPRECATED", t.time), r.version)
       /\ Commit(c)
       /\ UNCHANGED pointer

PromptNext(c) ==
    \/ starts < MaxPromptCommands /\ \E k \in Keys, r \in PromptRequests : Begin(c, k, r) /\ UNCHANGED promptVars
    \/ PromptRead(c)
    \/ CreateRevision(c) \/ SubmitForReview(c) \/ Stage(c) \/ Publish(c)
    \/ SelectProduction(c) \/ Deprecate(c)
    \/ Leave(c) /\ UNCHANGED promptVars
-----------------------------------------------------------------------------
(* The production pointer names a revision that is in PRODUCTION, so that  *)
(* resolve_production finds one, whichever publications, selections and    *)
(* deprecations race (PromptProductionPointer.repoint, deprecate).         *)
PointerIsProduction ==
    pointer # None => revisions[pointer.revision].status = "PRODUCTION"
-----------------------------------------------------------------------------
(* Why it works *)

(* resolve_production finds the revision, and nothing is in production     *)
(* before the first publication has written the pointer.                   *)
PointerFollows ==
    /\ pointer # None => revisions[pointer.revision] # None
    /\ (\E r \in Revisions : revisions[r] # None /\ revisions[r].status = "PRODUCTION") => pointer # None

PromptRequest(r) ==
    \/ r.op = "create_revision" /\ r.arg \in Semantics
    \/ r.op = "select_production" /\ r.arg \in Revisions
    \/ r.op \in {"submit_for_review", "stage", "publish", "deprecate"} /\ r.target \in Revisions

(* A deprecation that has found its revision in production finds the       *)
(* pointer as well.                                                        *)
PromptView(c) ==
    LET t == tx[c]  row == RevisionRow(t.request.target) IN
    Open(c) =>
        /\ t.key \in Keys /\ PromptRequest(t.request)
        /\ \A r \in Revisions : StillSo(t, RevisionRow(r), revisions[r])
        /\ StillSo(t, PointerRow, pointer)
        /\ t.request.op = "deprecate" /\ PointerRow \in DOMAIN t.view =>
              /\ row \in DOMAIN t.view
              /\ t.view[row] # None /\ t.view[row].status = "PRODUCTION" => t.view[PointerRow] # None
=============================================================================
