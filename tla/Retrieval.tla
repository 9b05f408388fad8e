------------------------------ MODULE Retrieval ------------------------------
(***************************************************************************)
(* Rights-first retrieval: one query, the run it leaves, and the exchange  *)
(* of a preview token.  Its statements are transactions of their own, and  *)
(* between any two of them rights, briefs and assets change and the        *)
(* collection that retrieval is routed to is rebuilt and switched.         *)
(*                                                                         *)
(* Time is the number of changes of what authorises a query, so a decision *)
(* time names the authority it was taken from.  Versions 1 to NRecords     *)
(* have a record in the collection, version 0 has none.  Scores are left   *)
(* out: a ranking is a set, and what depends on the order is a choice.     *)
(***************************************************************************)
EXTENDS CollectionRebuild

CONSTANTS
    ChangingVersions,    \* versions whose authority changes
    BrandMembers,        \* members of the published brand profile
    SameContent,         \* the versions are copies of one another
    CandidateLimit,
    ResultLimit,
    Chunk,               \* _MYSQL_IN_CHUNK_SIZE
    PreviewLifetime,     \* of a token
    ReferenceLifetime,   \* of a signed URL
    MaxChanges           \* bound: changes of authority

Versions == 0..NRecords

ASSUME RetrievalAssumption ==
    /\ ChangingVersions \subseteq Versions /\ BrandMembers \subseteq Versions
    /\ SameContent \in BOOLEAN
    /\ {CandidateLimit, ResultLimit, Chunk, PreviewLifetime, ReferenceLifetime} \subseteq Nat \ {0}
    /\ ResultLimit <= CandidateLimit /\ MaxChanges \in Nat

VARIABLES
    authority,   \* current rights record and status of the asset of each version
    brief,       \* the product brief is CONFIRMED in its current version
    history,     \* ghost: what was authorised at each moment
    query,       \* the request in the retrieval service
    run,         \* RetrievalRunModel with its RetrievalResultModel rows
    preview,     \* the request in the preview service
    issued       \* signed URLs

retrievalVars == <<authority, brief, history, query, run, preview, issued>>
-----------------------------------------------------------------------------
Instant == Len(history)

Authorised(v) == authority[v].granted /\ authority[v].status = "AVAILABLE"

(* eligible_asset_versions and revalidate_asset_versions: a query that     *)
(* names a brief needs its current version confirmed.                      *)
EligibleVersions(q, versions) == {v \in versions : Authorised(v) /\ (q.by_brief => brief)}

Held(v) == <<v, authority[v].record>>

Snapshot == [held |-> {Held(v) : v \in {w \in Versions : Authorised(w)}}, brief |-> brief]

Asleep == [pc |-> "idle", by_brief |-> FALSE, image |-> None, brand |-> FALSE, asked |-> 0,
           eligible |-> {}, collection |-> 0, pending |-> {}, rows |-> {}, recalled |-> {},
           steady |-> {}, torn |-> FALSE, complete |-> TRUE, fused |-> {}, final |-> {}, citations |-> {}]

NoPreview == [pc |-> "idle", version |-> 0, asked |-> 0, decided |-> 0]

RetrievalInit ==
    /\ authority = [v \in Versions |-> [record |-> 1, granted |-> TRUE, status |-> "AVAILABLE"]]
    /\ brief = TRUE
    /\ history = <<[held |-> {<<v, 1>> : v \in Versions}, brief |-> TRUE]>>
    /\ query = Asleep /\ run = None /\ preview = NoPreview /\ issued = {}
-----------------------------------------------------------------------------
(* Authority *)

Recorded == history' = Append(history, Snapshot')

Authorises(v, row) ==
    /\ authority' = [authority EXCEPT ![v] = row]
    /\ UNCHANGED <<brief, query, preview, issued>>

Renew(v) ==
    /\ authority[v].status = "AVAILABLE"
    /\ Authorises(v, [authority[v] EXCEPT !.record = @ + 1, !.granted = TRUE])
    /\ UNCHANGED run

(* A revocation, or the end of the validity *)
Withdraw(v) ==
    /\ authority[v].granted
    /\ Authorises(v, [authority[v] EXCEPT !.granted = FALSE])
    /\ UNCHANGED run

ScheduleDeletion(v) ==
    /\ authority[v].status = "AVAILABLE"
    /\ Authorises(v, [authority[v] EXCEPT !.status = "DELETING"])
    /\ UNCHANGED run

(* Versions that have nothing left in the index *)
Unindexed == {0} \cup {r \in EmbeddingIds : embedding[r].state = "REMOVED"}

(* The objects are gone, and the runs that name the asset go with it.      *)
CompleteDeletion(v) ==
    /\ authority[v].status = "DELETING" /\ v \in Unindexed
    /\ Authorises(v, [authority[v] EXCEPT !.status = "DELETED"])
    /\ run' = IF run # None /\ \E cited \in run.citations : cited.version = v THEN None ELSE run

(* A new version of the brief, or its confirmation *)
ChangeBrief == brief' = ~brief /\ UNCHANGED <<authority, query, run, preview, issued>>

AuthorityNext ==
    /\ Instant <= MaxChanges
    /\ \/ \E v \in ChangingVersions : Renew(v) \/ Withdraw(v) \/ ScheduleDeletion(v) \/ CompleteDeletion(v)
       \/ ChangeBrief
    /\ Recorded
-----------------------------------------------------------------------------
(* The query *)

At(pc) == query.pc = pc

Becomes(row) ==
    /\ query' = row
    /\ UNCHANGED <<authority, brief, history, run, preview, issued>>

(* execute raises: the caller gets no response. *)
Fail == Becomes(Asleep)

Ask ==
    /\ At("idle") /\ run = None
    /\ \E by_brief, brand \in BOOLEAN, image \in {None, 1} :
          Becomes([Asleep EXCEPT !.pc = "initial", !.by_brief = by_brief, !.brand = brand,
                                 !.image = image, !.asked = Instant])

(* Records that the query should find unless it says that it is degraded.  *)
Findable(eligible) == {v \in eligible \cap EmbeddingIds : v \in Served /\ <<routing.collection, v>> \in vectors}

InitialRights ==
    /\ At("initial")
    /\ LET eligible == EligibleVersions(query, Versions) IN
       IF eligible = {} THEN Becomes([query EXCEPT !.pc = "record"])
       ELSE Becomes([query EXCEPT !.pc = "pointer", !.eligible = eligible, !.pending = eligible,
                                  !.steady = Findable(eligible)])

(* load_target: three statements of one READ COMMITTED session, the last   *)
(* of them once per chunk                                                  *)
ReadRouting == At("pointer") /\ Becomes([query EXCEPT !.pc = "collection", !.collection = routing.collection])

ReadCollection ==
    LET row == collections[query.collection] IN
    /\ At("collection")
    /\ IF row.state = "ACTIVE" /\ row.reads THEN Becomes([query EXCEPT !.pc = "rows"]) ELSE Fail

FirstChunk(S) == {v \in S : Cardinality({w \in S : w < v}) < Chunk}

RowsIn(chunk) ==
    {v \in chunk \cap EmbeddingIds : embedding[v].home = query.collection /\ embedding[v].state = "INDEXED"}

ReadRows ==
    LET chunk == FirstChunk(query.pending) IN
    /\ At("rows") /\ chunk # {}
    /\ Becomes([query EXCEPT !.pending = @ \ chunk, !.rows = @ \cup RowsIn(chunk)])

Degraded(row) == [row EXCEPT !.pc = "fuse", !.complete = FALSE]

(* Mutant: no row is an empty channel. *)
ResolveSilently ==
    /\ At("rows") /\ query.pending = {}
    /\ Becomes([query EXCEPT !.pc = IF query.rows = {} THEN "fuse"
                                    ELSE IF query.image = None THEN "search" ELSE "image"])

(* No row is DENSE_INDEX_UNAVAILABLE. *)
ResolveTarget ==
    /\ At("rows") /\ query.pending = {}
    /\ Becomes(IF query.rows = {} THEN Degraded(query)
               ELSE [query EXCEPT !.pc = IF query.image = None THEN "search" ELSE "image"])

(* temporary_input: the rights of the query image, once more *)
ReauthorizeImage ==
    /\ At("image")
    /\ Becomes(IF EligibleVersions(query, {query.image}) = {} THEN Degraded(query) ELSE [query EXCEPT !.pc = "search"])

Dropped(n) ==
    \/ collections[n].state = "RETIRED"
    \/ \E c \in Clients : Handling(c, "retired") /\ rebuilds[runner[c].rebuild].source = n

Capped(S, limit) == {T \in SUBSET S : Cardinality(T) = Min({limit, Cardinality(S)})}

(* embed_query: the provider of the embedding throttles or fails. *)
Unembedded == Becomes(Degraded(query))

(* embed_query and the search in Milvus, fenced by the records *)
Search ==
    /\ At("search")
    /\ \/ Unembedded
       \/ /\ ~Dropped(query.collection)
          /\ \E hits \in Capped({v \in query.rows : <<query.collection, v>> \in vectors}, CandidateLimit) :
                Becomes([query EXCEPT !.pc = "fuse", !.recalled = hits])

(* Required members of the brand profile in the eligible set *)
Required == IF query.brand THEN BrandMembers \cap query.eligible ELSE {}

(* deduplicate_retrieval_candidates: copies of a required member go, and   *)
(* all but one of other copies.                                            *)
Deduplicated(found) ==
    IF ~SameContent THEN {found}
    ELSE IF found \cap Required # {} THEN {found \cap Required}
    ELSE Capped(found, 1)

(* bound_retrieval_candidates: members are kept, whatever their rank. *)
Bounded(found) ==
    {Required \cup others : others \in Capped(found \ Required, CandidateLimit - Cardinality(Required))}

(* The lexical and explicit channels add any eligible version.             *)
Listings == SUBSET query.eligible

(* reciprocal_rank_fuse: every version that some channel ranks, once       *)
Fused(listed) == listed \cup query.recalled \cup Required

Fuse ==
    /\ At("fuse")
    /\ IF Cardinality(Required) > CandidateLimit THEN Fail
       ELSE \E listed \in Listings :
            \E distinct \in Deduplicated(Fused(listed)) :
            \E bounded \in Bounded(distinct) :
               Becomes([query EXCEPT !.pc = "final", !.fused = bounded, !.rows = {}, !.recalled = {},
                                     !.steady = {}, !.torn = FALSE, !.collection = 0])

Cited(v) == [version |-> v, record |-> authority[v].record, decided |-> Instant]

(* Mutant: what was eligible at the beginning is returned. *)
KeepInitialRights ==
    /\ At("final")
    /\ \E selected \in Capped(query.fused, ResultLimit) :
          Becomes([query EXCEPT !.pc = "record", !.final = query.fused,
                                !.citations = {Cited(v) : v \in selected}])

(* revalidate_asset_versions, and the citations from what it returns *)
FinalRights ==
    /\ At("final")
    /\ LET final == EligibleVersions(query, query.fused) IN
       \E selected \in Capped(final, ResultLimit) :
          Becomes([query EXCEPT !.pc = "record", !.final = final,
                                !.citations = {Cited(v) : v \in selected}])

(* MySqlRetrievalRunStore.record *)
RecordRun ==
    /\ At("record")
    /\ run' = [by_brief |-> query.by_brief, asked |-> query.asked, complete |-> query.complete,
               eligible |-> Cardinality(query.eligible), fused |-> Cardinality(query.fused),
               final |-> Cardinality(query.final), citations |-> query.citations,
               expires |-> Instant + PreviewLifetime]
    /\ query' = Asleep
    /\ UNCHANGED <<authority, brief, history, preview, issued>>

QueryNext ==
    \/ Ask \/ InitialRights \/ ReadRouting \/ ReadCollection \/ ReadRows \/ ResolveTarget
    \/ ReauthorizeImage \/ Search \/ Fuse \/ FinalRights \/ RecordRun
-----------------------------------------------------------------------------
(* MySqlRetrievalPreviewService.exchange *)

Exchanging(row) ==
    /\ preview' = row
    /\ UNCHANGED <<authority, brief, history, query, run>>

ExchangeToken ==
    /\ preview.pc = "idle" /\ run # None /\ issued = {} /\ Instant < run.expires
    /\ \E cited \in run.citations :
          Exchanging([pc |-> IF run.by_brief THEN "brief" ELSE "rights", version |-> cited.version,
                      asked |-> Instant, decided |-> 0])
    /\ UNCHANGED issued

ExchangeRights ==
    /\ preview.pc \in {"brief", "rights"}
    /\ Exchanging(IF EligibleVersions([by_brief |-> preview.pc = "brief"], {preview.version}) = {} THEN NoPreview
                  ELSE [preview EXCEPT !.pc = "object", !.decided = Instant])
    /\ UNCHANGED issued

(* The controlled object, in another session, and its signed URL *)
IssueReference ==
    /\ preview.pc = "object"
    /\ Exchanging(NoPreview)
    /\ issued' = IF authority[preview.version].status = "DELETED" THEN issued
                 ELSE issued \cup {[version |-> preview.version, asked |-> preview.asked,
                                    decided |-> preview.decided,
                                    expires |-> preview.decided + ReferenceLifetime]}

PreviewNext == ExchangeToken \/ ExchangeRights \/ IssueReference
-----------------------------------------------------------------------------
(* A rebuild is ready to be activated: every record was backfilled, the    *)
(* rights were scanned and the candidate was validated.                    *)
RebuildValidated ==
    /\ collections = [n \in 0..MaxRebuilds |->
           CASE n = 0 -> NewCollection("ACTIVE", TRUE)
             [] n = 1 -> [NewCollection("READY", FALSE) EXCEPT !.version = 4]
             [] OTHER -> None]
    /\ routing = [collection |-> 0, version |-> 1]
    /\ rebuilds = <<[state |-> "READY", source |-> 0, sourceVersion |-> 1, pointerVersion |-> 1,
                     snapshot |-> 0, backfill |-> NRecords, replayTo |-> 0, replayed |-> 0,
                     rights |-> NRecords, validated |-> 0, accepted |-> TRUE,
                     members |-> EmbeddingIds]>>
    /\ placements = {1} \X EmbeddingIds /\ vectors = {0, 1} \X EmbeddingIds /\ facts = <<>>
    /\ embedding = [r \in EmbeddingIds |->
           [state |-> "INDEXED", usable |-> TRUE, home |-> 0, updated |-> 0]]
    /\ commands = EmptyBag
    /\ runner = [c \in Clients |-> Resting] /\ setbacks = 0

(* Some of the rows that the query needs are read, and some are not.       *)
BetweenChunks == At("rows") /\ query.pending \notin {{}, query.eligible}

(* The switch and the retirement of the source, which nothing disturbs     *)
RebuildBeside ==
    /\ \/ \E c \in Clients : RunnerNext(c)
       \/ \E n \in DOMAIN rebuilds : AdministratorNext(n)
    /\ setbacks' = setbacks
    /\ UNCHANGED <<authority, brief, history, run, preview, issued>>
    /\ query' = [query EXCEPT !.steady = {v \in @ : embedding'[v].state = "INDEXED"},
                              !.torn = @ \/ (BetweenChunks /\ routing' # routing)]

RetrievalNext ==
    \/ /\ AuthorityNext \/ QueryNext \/ PreviewNext
       /\ UNCHANGED <<idempotencyVars, rebuildVars>>
    \/ RebuildBeside
-----------------------------------------------------------------------------
(* Nothing is returned on stale authority: a citation names the rights     *)
(* record that was in force at its decision time, which is not before the  *)
(* question, and a signed URL goes out only for a version authorised since *)
(* its token was shown, and ends its lifetime after that decision          *)
(* (revalidate_asset_versions, exchange).                                  *)
NothingUnauthorised ==
    /\ run # None => \A cited \in run.citations :
          LET moment == history[cited.decided] IN
          /\ cited.decided >= run.asked
          /\ <<cited.version, cited.record>> \in moment.held
          /\ run.by_brief => moment.brief
    /\ \A url \in issued :
          /\ url.decided >= url.asked /\ url.expires <= url.decided + ReferenceLifetime
          /\ \E held \in history[url.decided].held : held[1] = url.version

(* A response that claims complete hybrid retrieval has searched every     *)
(* record that was searchable throughout the query, up to the limit,       *)
(* although the collection is switched and dropped at any moment but one:  *)
(* between two chunks, a switch takes the rows of the rest away unnoticed  *)
(* (load_target, DenseRetrievalSource.recall).                             *)
HonestHybrid ==
    At("fuse") /\ query.complete /\ ~query.torn =>
        Cardinality(query.recalled) >= Min({CandidateLimit, Cardinality(query.steady)})
-----------------------------------------------------------------------------
(* Why nothing is returned on stale authority: a moment that was recorded  *)
(* stays recorded, the last one is the present, and a decision is taken    *)
(* from the present.                                                       *)
Moments == [held : SUBSET (Versions \X Nat), brief : BOOLEAN]

(* The citation c answers the question q by the moments h.                 *)
Founded(h, c, q) ==
    /\ q.asked \in DOMAIN h /\ c.decided \in q.asked..Len(h)
    /\ <<c.version, c.record>> \in h[c.decided].held
    /\ q.by_brief => h[c.decided].brief

AuthorisedAt(h, decided, v) == \E held \in h[decided].held : held[1] = v

SoundQuery(h, q) ==
    /\ DOMAIN q = DOMAIN Asleep /\ q.by_brief \in BOOLEAN
    /\ {q.eligible, q.pending, q.rows, q.recalled, q.fused} \subseteq SUBSET Versions
    /\ q.pc # "idle" => q.asked \in DOMAIN h
    /\ \A c \in q.citations : Founded(h, c, q)

SoundRun(h, r) == r # None => \A c \in r.citations : Founded(h, c, r)

SoundPreview(h, p) ==
    p.pc # "idle" =>
        /\ p.version \in Versions /\ p.asked \in DOMAIN h
        /\ p.pc = "object" => p.decided \in p.asked..Len(h) /\ AuthorisedAt(h, p.decided, p.version)

SoundReference(h, url) ==
    /\ url.asked \in DOMAIN h /\ url.decided \in url.asked..Len(h)
    /\ url.expires = url.decided + ReferenceLifetime
    /\ AuthorisedAt(h, url.decided, url.version)

AuthorityTypes ==
    /\ authority \in [Versions -> [record : Nat, granted : BOOLEAN,
                                   status : {"AVAILABLE", "DELETING", "DELETED"}]]
    /\ brief \in BOOLEAN

RightsInv ==
    /\ AuthorityTypes
    /\ history \in Seq(Moments) /\ history # <<>> /\ history[Instant] = Snapshot
    /\ DOMAIN preview = DOMAIN NoPreview
    /\ SoundQuery(history, query) /\ SoundRun(history, run) /\ SoundPreview(history, preview)
    /\ \A url \in issued : SoundReference(history, url)
=============================================================================
