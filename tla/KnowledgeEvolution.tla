------------------------- MODULE KnowledgeEvolution -------------------------
(***************************************************************************)
(* Knowledge that grows by itself: a scan turns clusters of disliked       *)
(* questions into drafts, a person reviews a draft, an approved one flows  *)
(* back into the knowledge base as a chunk of one shared document (a row   *)
(* in MySQL, a vector in Milvus), and may be withdrawn.                    *)
(*                                                                         *)
(* A request reads everything in the snapshot its transaction began with,  *)
(* and Milvus takes part in no transaction.                                *)
(***************************************************************************)
EXTENDS Naturals, FiniteSets

CONSTANTS
    Evolvers,       \* concurrent requests
    MaxDrafts,      \* bound: drafts the scans make
    MaxReflows,     \* bound: vectors that are inserted
    Quota,          \* KNOWLEDGE_EVOLUTION_WEEKLY_QUOTA; 0 means no limit
    EvoMaxFaults,   \* bound: requests that fail and deletions that Milvus drops
    EvoOverlapFaults \* bound: those where requests may overlap

ASSUME EvolutionAssumption ==
    /\ MaxDrafts \in Nat \ {0} /\ {MaxReflows, Quota, EvoMaxFaults, EvoOverlapFaults} \subseteq Nat
    /\ EvoOverlapFaults <= EvoMaxFaults

VARIABLES
    drafts,         \* drafts[d]: the row, "absent" if there is none yet
    evoDoc,         \* the shared document: "none", "committed", or the request that makes it
    chunks,         \* the chunk rows: an identity and a position in the document
    vectors,        \* the entries of Milvus: a position, and the chunk they were made for
    announced,      \* drafts whose retest event was published
    endorsed,       \* history: drafts a reviewer approved
    inserts,        \* vectors inserted so far; they name the chunks
    evoPc, evoOp,   \* the requests: step and operation,
    evoOn,          \* evoOn[r]: the draft of r, and what else r saw in its snapshot:
    evoSawDoc,      \* the document,
    evoChunk,       \* the chunk it withdraws, or the position of the one it makes
    evoAlone,       \* no two requests at once
    evoFaults

stores == <<drafts, evoDoc, chunks, vectors, announced, endorsed, inserts>>
evoRequests == <<evoPc, evoOp, evoOn, evoSawDoc, evoChunk>>
evoVars == <<stores, evoRequests, evoAlone, evoFaults>>

Drafts == 1..MaxDrafts
EvoOps == {"approve", "reject", "reflow", "withdraw", "retest"}

NoDraft == [status |-> "absent", chunk |-> 0, week |-> FALSE, effective |-> TRUE]
NoChunk == [id |-> 0, idx |-> 0, of |-> 0]

EvolutionTypeOK ==
    /\ \A d \in Drafts :
          /\ drafts[d].status \in {"absent", "draft", "approved", "rejected", "indexed",
                                   "withdrawn"}
          /\ drafts[d].chunk \in 0..MaxReflows
          /\ {drafts[d].week, drafts[d].effective} \subseteq BOOLEAN
    /\ evoDoc \in {"none", "committed"} \cup Evolvers
    /\ \A c \in chunks : c.id \in 1..inserts /\ c.of \in Drafts
    /\ vectors \subseteq [id : 1..inserts, idx : 0..MaxReflows, of : Drafts]
    /\ announced \cup endorsed \subseteq Drafts
    /\ inserts <= MaxReflows /\ evoFaults <= EvoMaxFaults /\ evoAlone \in BOOLEAN
    /\ \A r \in Evolvers : evoOp[r] \in EvoOps /\ evoOn[r] \in Drafts
    /\ \A r \in Evolvers :
          evoPc[r] \in {"idle", "loaded", "document", "inserted", "publish", "forgotten"}

EvolutionInit ==
    /\ drafts = [d \in Drafts |-> NoDraft]
    /\ evoDoc = "none" /\ chunks = {} /\ vectors = {}
    /\ announced = {} /\ endorsed = {} /\ inserts = 0
    /\ evoPc = [r \in Evolvers |-> "idle"]
    /\ evoOp = [r \in Evolvers |-> "approve"] /\ evoOn = [r \in Evolvers |-> 1]
    /\ evoSawDoc = [r \in Evolvers |-> FALSE]
    /\ evoChunk = [r \in Evolvers |-> NoChunk]
    /\ evoAlone \in BOOLEAN /\ evoFaults = 0

\* A request that has ended, well or not.
EvoDone(r) ==
    /\ evoPc' = [evoPc EXCEPT ![r] = "idle"]
    /\ evoOp' = [evoOp EXCEPT ![r] = "approve"] /\ evoOn' = [evoOn EXCEPT ![r] = 1]
    /\ evoSawDoc' = [evoSawDoc EXCEPT ![r] = FALSE]
    /\ evoChunk' = [evoChunk EXCEPT ![r] = NoChunk]
Step(r, place) == evoPc' = [evoPc EXCEPT ![r] = place]

Fails ==
    /\ evoFaults < IF evoAlone THEN EvoMaxFaults ELSE EvoOverlapFaults
    /\ evoFaults' = evoFaults + 1

-----------------------------------------------------------------------------
\* run_scan: every cluster the knowledge base does not answer becomes a draft.
Scan(D) ==
    /\ D # {} /\ \A d \in D : drafts[d].status = "absent"
    /\ \A d \in Drafts \ D : drafts[d].status = "absent" => \A e \in D : e < d
    /\ drafts' = [d \in Drafts |-> IF d \in D THEN [NoDraft EXCEPT !.status = "draft"]
                                   ELSE drafts[d]]
    /\ UNCHANGED <<evoDoc, chunks, vectors, announced, endorsed, inserts, evoRequests,
                   evoAlone, evoFaults>>

\* A week goes by: what was indexed no longer counts for the quota and may be retested.
WeekPasses ==
    /\ \E d \in Drafts : drafts[d].week
    /\ \A r \in Evolvers : evoPc[r] = "idle"
    /\ drafts' = [d \in Drafts |-> [drafts[d] EXCEPT !.week = FALSE]]
    /\ UNCHANGED <<evoDoc, chunks, vectors, announced, endorsed, inserts, evoRequests,
                   evoAlone, evoFaults>>

\* What an operation asks of the row it has loaded.
Accepts(op, row) ==
    CASE op \in {"approve", "reject"} -> row.status = "draft"
      [] op = "reflow"   -> row.status \in {"approved", "indexed"}
      [] op = "withdraw" -> row.status = "indexed"
      [] op = "retest"   -> row.status = "indexed" /\ ~row.week /\ row.effective

\* _weekly_indexed_count.
WeeklyIndexed == {d \in Drafts : drafts[d].status = "indexed" /\ drafts[d].week}
\* Mutant: the last draft too many is let through.
HasQuotaInclusive(n) == Quota = 0 \/ n <= Quota

\* The check against the quota.
HasQuota(n) == Quota = 0 \/ n < Quota

\* What a reflow or a withdrawal sees of the chunks: the number of them, or its own.
ChunkSeen(op, d) ==
    CASE op = "reflow" -> {[id |-> 0, idx |-> Cardinality(chunks), of |-> d]}
      [] op = "withdraw" /\ (\E c \in chunks : c.id = drafts[d].chunk) ->
            {c \in chunks : c.id = drafts[d].chunk}
      [] OTHER -> {NoChunk}

\* A request begins: its snapshot is taken, the row loaded and looked at.
Open(r) ==
    /\ evoPc[r] = "idle"
    /\ evoAlone => \A other \in Evolvers : evoPc[other] = "idle"
    /\ \E d \in Drafts, op \in EvoOps : \E chunk \in ChunkSeen(op, d) :
          /\ Accepts(op, drafts[d])
          /\ op = "reflow" /\ drafts[d].status = "approved" => HasQuota(Cardinality(WeeklyIndexed))
          /\ evoOp' = [evoOp EXCEPT ![r] = op]
          /\ evoOn' = [evoOn EXCEPT ![r] = d]
          /\ evoSawDoc' = [evoSawDoc EXCEPT ![r] = op = "reflow" /\ evoDoc = "committed"]
          /\ evoChunk' = [evoChunk EXCEPT ![r] = chunk]
          /\ Step(r, IF op = "reflow" /\ drafts[d].status = "indexed" THEN "publish"
                     ELSE "loaded")
    /\ UNCHANGED <<stores, evoAlone, evoFaults>>

\* review_draft: the decision is written over whatever the row is by now.
Review(r) ==
    /\ evoPc[r] = "loaded" /\ evoOp[r] \in {"approve", "reject"}
    /\ LET d == evoOn[r]
           verdict == IF evoOp[r] = "approve" THEN "approved" ELSE "rejected" IN
       /\ drafts' = [drafts EXCEPT ![d].status = verdict]
       /\ endorsed' = IF evoOp[r] = "approve" THEN endorsed \cup {d} ELSE endorsed
    /\ EvoDone(r)
    /\ UNCHANGED <<evoDoc, chunks, vectors, announced, inserts, evoAlone, evoFaults>>

\* _retest_indexed_drafts: a draft that is found but helps no more than what there was
\* before loses half its quality.
Retest(r) ==
    /\ evoPc[r] = "loaded" /\ evoOp[r] = "retest"
    /\ drafts' = [drafts EXCEPT ![evoOn[r]].effective = FALSE]
    /\ EvoDone(r)
    /\ UNCHANGED <<evoDoc, chunks, vectors, announced, endorsed, inserts, evoAlone, evoFaults>>

-----------------------------------------------------------------------------
\* ensure_ai_doc: the document is made by the first reflow; a second one that did not see
\* it waits for the first to commit, and is then refused by the primary key.
EnsureDoc(r) ==
    /\ evoPc[r] = "loaded" /\ evoOp[r] = "reflow"
    /\ \/ evoSawDoc[r] /\ UNCHANGED evoDoc
       \/ ~evoSawDoc[r] /\ evoDoc = "none" /\ evoDoc' = r
    /\ Step(r, "document")
    /\ UNCHANGED <<drafts, chunks, vectors, announced, endorsed, inserts, evoOp, evoOn, evoSawDoc,
                   evoChunk, evoAlone, evoFaults>>

DocRefused(r) ==
    /\ evoPc[r] = "loaded" /\ evoOp[r] = "reflow"
    /\ ~evoSawDoc[r] /\ evoDoc = "committed"
    /\ EvoDone(r)
    /\ UNCHANGED <<stores, evoAlone, evoFaults>>

\* persist_chunk: the chunk takes the position behind the chunks it sees; its vector is in
\* Milvus at once, under that position.
PersistChunk(r) ==
    /\ evoPc[r] = "document" /\ inserts < MaxReflows
    /\ inserts' = inserts + 1
    /\ LET chunk == [evoChunk[r] EXCEPT !.id = inserts + 1] IN
       /\ evoChunk' = [evoChunk EXCEPT ![r] = chunk]
       /\ vectors' = vectors \cup {chunk}
    /\ Step(r, "inserted")
    /\ UNCHANGED <<drafts, evoDoc, chunks, announced, endorsed, evoOp, evoOn, evoSawDoc,
                   evoAlone, evoFaults>>

\* reflow_to_kb commits the document, the chunk and the draft.
Index(r) ==
    /\ evoPc[r] = "inserted"
    /\ drafts' = [drafts EXCEPT ![evoOn[r]].status = "indexed", ![evoOn[r]].week = TRUE,
                                ![evoOn[r]].chunk = evoChunk[r].id]
    /\ chunks' = chunks \cup {evoChunk[r]}
    /\ evoDoc' = IF evoDoc = r THEN "committed" ELSE evoDoc
    /\ Step(r, "publish")
    /\ UNCHANGED <<vectors, announced, endorsed, inserts, evoOp, evoOn, evoSawDoc, evoChunk,
                   evoAlone, evoFaults>>

\* A failure before the commit takes back all but the vector.
ReflowFails(r) ==
    /\ evoPc[r] \in {"document", "inserted"} /\ Fails
    /\ evoDoc' = IF evoDoc = r THEN "none" ELSE evoDoc
    /\ EvoDone(r)
    /\ UNCHANGED <<drafts, chunks, vectors, announced, endorsed, inserts, evoAlone>>

\* _publish_llm_user_retests: after the commit, and again when an indexed draft is asked
\* to flow back once more.
Publish(r) ==
    /\ evoPc[r] = "publish"
    /\ announced' = announced \cup {evoOn[r]}
    /\ EvoDone(r)
    /\ UNCHANGED <<drafts, evoDoc, chunks, vectors, endorsed, inserts, evoAlone, evoFaults>>

PublishFails(r) ==
    /\ evoPc[r] = "publish" /\ Fails
    /\ EvoDone(r)
    /\ UNCHANGED <<stores, evoAlone>>

-----------------------------------------------------------------------------
\* The entries that a deletion by primary key finds: document and position.
SameKeyAs(c) == {v \in vectors : v.idx = c.idx}

\* withdraw_draft: the vector goes first; if Milvus cannot be reached, that is only noted.
ForgetVector(r) ==
    /\ evoPc[r] = "loaded" /\ evoOp[r] = "withdraw"
    /\ \/ evoChunk[r] = NoChunk /\ UNCHANGED <<vectors, evoFaults>>
       \/ evoChunk[r] # NoChunk /\ vectors' = vectors \ SameKeyAs(evoChunk[r])
          /\ UNCHANGED evoFaults
       \/ evoChunk[r] # NoChunk /\ UNCHANGED vectors /\ Fails
    /\ Step(r, "forgotten")
    /\ UNCHANGED <<drafts, evoDoc, chunks, announced, endorsed, inserts, evoOp, evoOn, evoSawDoc,
                   evoChunk, evoAlone>>

\* ... and the rows follow in one commit.
WithdrawDraft(r) ==
    /\ evoPc[r] = "forgotten"
    /\ chunks' = {c \in chunks : c.id # evoChunk[r].id}
    /\ drafts' = [drafts EXCEPT ![evoOn[r]].status = "withdrawn"]
    /\ EvoDone(r)
    /\ UNCHANGED <<evoDoc, vectors, announced, endorsed, inserts, evoAlone, evoFaults>>

WithdrawFails(r) ==
    /\ evoPc[r] = "forgotten" /\ Fails
    /\ EvoDone(r)
    /\ UNCHANGED <<stores, evoAlone>>

-----------------------------------------------------------------------------
EvolutionNext ==
    \/ \E D \in SUBSET Drafts : Scan(D)
    \/ WeekPasses
    \/ \E r \in Evolvers :
          \/ Open(r) \/ Review(r) \/ Retest(r)
          \/ EnsureDoc(r) \/ DocRefused(r) \/ PersistChunk(r) \/ Index(r) \/ ReflowFails(r)
          \/ Publish(r) \/ PublishFails(r)
          \/ ForgetVector(r) \/ WithdrawDraft(r) \/ WithdrawFails(r)

EvolutionSpec == EvolutionInit /\ [][EvolutionNext]_evoVars

-----------------------------------------------------------------------------
(* Properties.                                                             *)

Served(d) == \E v \in vectors : v.of = d
InKnowledgeBase(d) == \E c \in chunks : c.of = d

\* However reviews, reflows and withdrawals overlap and fail, nothing gets into Milvus
\* that no reviewer has approved.
ApprovedOnly == \A d \in Drafts : Served(d) \/ InKnowledgeBase(d) => d \in endorsed

\* One request at a time: no more drafts flow back in a week than the quota allows.
QuotaKept ==
    evoAlone /\ Quota > 0 =>
        Cardinality({d \in Drafts : drafts[d].status = "indexed" /\ drafts[d].week}) <= Quota

\* ... an indexed draft has its chunk, and what was withdrawn is gone from both stores, as
\* long as Milvus does what it is told.
WithdrawnNotServed ==
    evoAlone => \A d \in Drafts :
        /\ drafts[d].status = "indexed" => \E c \in chunks : c.id = drafts[d].chunk
        /\ drafts[d].status = "withdrawn" => ~InKnowledgeBase(d)
        /\ drafts[d].status = "withdrawn" /\ evoFaults = 0
              /\ (\A r \in Evolvers : evoPc[r] = "idle") => ~Served(d)

\* What flows back is reviewed, within the quota, and can be taken back.
EvolutionKept == ApprovedOnly /\ QuotaKept /\ WithdrawnNotServed

\* _delete_chunk_from_milvus says that it deletes a single entry, because the drafts share
\* their document: withdrawing a draft leaves the others where they are.  It does not, as
\* positions are given again after a withdrawal.
IndexedIsServed ==
    evoAlone /\ evoFaults = 0 => \A d \in Drafts : drafts[d].status = "indexed" => Served(d)
=============================================================================
