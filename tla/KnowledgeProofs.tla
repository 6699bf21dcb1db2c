-------------------------- MODULE KnowledgeProofs ---------------------------
(***************************************************************************)
(* What holds of the knowledge base, for any number of requests, scans,    *)
(* drafts, vectors and failures and any quota.                             *)
(*                                                                         *)
(* Knowledge that grows by itself: what flows back is reviewed, and while  *)
(* requests do not overlap it is within the quota and can be taken back.   *)
(*                                                                         *)
(* Governance: no scan undoes what a person decided, nothing is counted    *)
(* twice, and a blocked document leaves the index.                         *)
(*                                                                         *)
(* Feedback: what the golden set and the rates say of the votes.           *)
(*                                                                         *)
(* Reports: a finished one is whole, and requests that do not overlap come *)
(* to one report each; the probes of the settings.                         *)
(***************************************************************************)
EXTENDS KnowledgeEvolution, Governance, Feedback, Reports, FiniteSetTheorems,
        SequenceTheorems, TLAPS

-----------------------------------------------------------------------------
(* The inductive invariant.                                                *)

Row == [status : {"absent", "draft", "approved", "rejected", "indexed", "withdrawn"},
        chunk : Nat, week : BOOLEAN, effective : BOOLEAN]
Chunk == [id : Nat, idx : Nat, of : Nat]
Places == {"idle", "loaded", "document", "inserted", "publish", "forgotten"}

TypeInv ==
    /\ drafts \in [Drafts -> Row] /\ endorsed \subseteq Drafts
    /\ chunks \subseteq Chunk /\ IsFiniteSet(chunks) /\ vectors \subseteq Chunk
    /\ inserts \in Nat /\ evoFaults \in Nat /\ evoAlone \in BOOLEAN
    /\ evoPc \in [Evolvers -> Places] /\ evoOp \in [Evolvers -> EvoOps]
    /\ evoOn \in [Evolvers -> Drafts] /\ evoChunk \in [Evolvers -> Chunk]
    /\ \A r \in Evolvers :
          /\ evoPc[r] \in {"document", "inserted"} => evoOp[r] = "reflow"
          /\ evoPc[r] = "forgotten" => evoOp[r] = "withdraw"

Reflowing(r) == evoPc[r] \in {"loaded", "document", "inserted"} /\ evoOp[r] = "reflow"
Withdrawing(r) == evoPc[r] \in {"loaded", "forgotten"} /\ evoOp[r] = "withdraw"

\* Whatever lives of a draft, or is about to, was approved.
ApprovedInv ==
    /\ \A d \in Drafts : drafts[d].status \in {"approved", "indexed"} => d \in endorsed
    /\ \A c \in chunks \cup vectors : c.of \in endorsed
    /\ \A r \in Evolvers : Reflowing(r) => evoOn[r] \in endorsed /\ evoChunk[r].of = evoOn[r]

\* Requests that do not overlap: one works, on the draft as it is.
AtWork(r) ==
    /\ evoPc[r] = "loaded" /\ evoOp[r] \in {"approve", "reject"} =>
          drafts[evoOn[r]].status = "draft"
    /\ Reflowing(r) => /\ drafts[evoOn[r]].status = "approved"
                       /\ HasQuota(Cardinality(WeeklyIndexed))
    /\ evoPc[r] = "inserted" => /\ evoChunk[r].id \in 1..inserts
                                /\ \A c \in chunks : c.id # evoChunk[r].id
    /\ Withdrawing(r) => /\ drafts[evoOn[r]].status = "indexed"
                         /\ evoChunk[r] \in chunks /\ evoChunk[r].of = evoOn[r]

OneInv ==
    /\ \A r, s \in Evolvers : evoPc[r] # "idle" /\ evoPc[s] # "idle" => r = s
    /\ \A r \in Evolvers : AtWork(r)

\* ... the chunks are those of the indexed drafts, one each.
ChunkInv ==
    /\ \A d \in Drafts : drafts[d].status = "indexed" =>
          \E c \in chunks : c.of = d /\ c.id = drafts[d].chunk
    /\ \A c \in chunks : /\ c.id \in 1..inserts
                         /\ drafts[c.of].status = "indexed" /\ drafts[c.of].chunk = c.id
    /\ \A b, c \in chunks : b.id = c.id => b = c

\* ... and until something fails a vector has its chunk, save the one just made; the one that
\* is being withdrawn is gone before its chunk.
VectorInv ==
    evoFaults = 0 =>
        /\ \A v \in vectors : v \in chunks \/ \E r \in Evolvers : evoPc[r] = "inserted" /\ v = evoChunk[r]
        /\ \A r \in Evolvers : evoPc[r] = "forgotten" => evoChunk[r] \notin vectors

WithinQuota == Quota > 0 => Cardinality(WeeklyIndexed) <= Quota

EvolutionInv ==
    /\ TypeInv /\ ApprovedInv
    /\ evoAlone => OneInv /\ ChunkInv /\ VectorInv /\ WithinQuota

-----------------------------------------------------------------------------
(* Sets of drafts.                                                         *)

\* A set of drafts is finite.
LEMMA FewDrafts ==
  ASSUME NEW S, S \subseteq Drafts
  PROVE  IsFiniteSet(S) /\ Cardinality(S) \in Nat
<1>1. IsFiniteSet(Drafts)
  BY EvolutionAssumption, FS_Interval DEF Drafts
<1> QED
  BY <1>1, FS_Subset, FS_CardinalityType

\* A part of it is not larger, and with one draft more it is larger by one at most.
LEMMA OneMore ==
  ASSUME NEW S, NEW T, NEW d, S \subseteq Drafts, T \subseteq Drafts
  PROVE  /\ T \subseteq S => Cardinality(T) <= Cardinality(S)
         /\ T \subseteq S \cup {d} => Cardinality(T) <= Cardinality(S) + 1
<1>1. IsFiniteSet(S) /\ Cardinality(S) \in Nat /\ IsFiniteSet(T) /\ Cardinality(T) \in Nat
  BY FewDrafts
<1>2. T \subseteq S => Cardinality(T) <= Cardinality(S)
  BY <1>1, FS_Subset
<1>3. /\ IsFiniteSet(S \cup {d})
      /\ Cardinality(S \cup {d}) \in {Cardinality(S), Cardinality(S) + 1}
  BY <1>1, FS_AddElement
<1>4. T \subseteq S \cup {d} => Cardinality(T) <= Cardinality(S \cup {d})
  BY <1>3, FS_Subset
<1>5. Cardinality(S \cup {d}) \in Nat
  BY <1>3, FS_CardinalityType
<1> QED
  BY <1>1, <1>2, <1>3, <1>4, <1>5

-----------------------------------------------------------------------------
(* Types.                                                                  *)

\* At the start everything has its type ...
LEMMA TypesInit == EvolutionInit => TypeInv
<1> SUFFICES ASSUME EvolutionInit PROVE TypeInv
  OBVIOUS
<1>1. NoDraft \in Row /\ NoChunk \in Chunk /\ 1 \in Drafts /\ IsFiniteSet({})
  BY EvolutionAssumption, FS_EmptySet DEF NoDraft, Row, NoChunk, Chunk, Drafts
<1> QED
  BY <1>1 DEF EvolutionInit, TypeInv, Places, EvoOps

\* ... and every step keeps it.
LEMMA TypeStep ==
  ASSUME TypeInv, [EvolutionNext]_evoVars
  PROVE  TypeInv'
<1>0. CASE UNCHANGED evoVars
  BY <1>0 DEF evoVars, stores, evoRequests, TypeInv
<1>n. NoDraft \in Row /\ NoChunk \in Chunk /\ 1 \in Drafts
  BY EvolutionAssumption DEF NoDraft, Row, NoChunk, Chunk, Drafts
<1>c. ASSUME NEW c \in Chunk, NEW C, C \subseteq chunks \cup {c}
      PROVE  C \subseteq Chunk /\ IsFiniteSet(C)
  <2>1. IsFiniteSet(chunks \cup {c})
    BY FS_AddElement DEF TypeInv
  <2> QED
    BY <1>c, <2>1, FS_Subset DEF TypeInv
<1> USE <1>n DEF TypeInv, Step, EvoDone, stores, evoRequests, Places, EvoOps
<1>1. ASSUME NEW D \in SUBSET Drafts, Scan(D) PROVE TypeInv'
  <2>1. [NoDraft EXCEPT !.status = "draft"] \in Row
    BY DEF Row, NoDraft
  <2>2. drafts' \in [Drafts -> Row]
    BY <1>1, <2>1 DEF Scan
  <2> QED
    BY <1>1, <2>2 DEF Scan
<1>2. CASE WeekPasses
  <2>0. drafts \in [Drafts -> Row]
    OBVIOUS
  <2>1. drafts' \in [Drafts -> Row]
    <3>1. \A row \in Row : [row EXCEPT !.week = FALSE] \in Row
      BY ONLY TRUE DEF Row
    <3>2. drafts' = [d \in Drafts |-> [drafts[d] EXCEPT !.week = FALSE]]
      BY <1>2 DEF WeekPasses
    <3> QED
      BY ONLY <2>0, <3>1, <3>2
  <2> QED
    BY <1>2, <2>1 DEF WeekPasses
<1>3. ASSUME NEW r \in Evolvers, Open(r) PROVE TypeInv'
  <2>1. PICK d \in Drafts, op \in EvoOps : \E chunk \in ChunkSeen(op, d) :
          /\ evoOp' = [evoOp EXCEPT ![r] = op] /\ evoOn' = [evoOn EXCEPT ![r] = d]
          /\ evoChunk' = [evoChunk EXCEPT ![r] = chunk]
          /\ evoPc' = [evoPc EXCEPT ![r] = IF op = "reflow" /\ drafts[d].status = "indexed"
                                           THEN "publish" ELSE "loaded"]
    <3> HIDE DEF TypeInv
    <3> QED
      BY <1>3, ZenonT(120) DEF Open
  <2>2. ChunkSeen(op, d) \subseteq Chunk
    <3>1. Cardinality(chunks) \in Nat /\ d \in Nat
      BY EvolutionAssumption, FS_CardinalityType DEF Drafts
    <3> QED
      BY <3>1 DEF ChunkSeen, Chunk
  <2> QED
    BY <1>3, <2>1, <2>2 DEF Open
<1>4. ASSUME NEW r \in Evolvers, Review(r) PROVE TypeInv'
  <2>1. drafts' \in [Drafts -> Row] /\ endorsed' \subseteq Drafts
    BY <1>4 DEF Review, Row
  <2> QED
    BY <1>4, <2>1 DEF Review
<1>5. ASSUME NEW r \in Evolvers, Retest(r) PROVE TypeInv'
  <2>1. drafts' \in [Drafts -> Row]
    BY <1>5, ZenonT(120) DEF Retest, Row
  <2> QED
    BY <1>5, <2>1 DEF Retest
<1>6. ASSUME NEW r \in Evolvers, EnsureDoc(r) \/ DocRefused(r) PROVE TypeInv'
  BY <1>6 DEF EnsureDoc, DocRefused
<1>7. ASSUME NEW r \in Evolvers, PersistChunk(r) PROVE TypeInv'
  <2>1. [evoChunk[r] EXCEPT !.id = inserts + 1] \in Chunk
    BY DEF Chunk
  <2> QED
    BY <1>7, <2>1 DEF PersistChunk
<1>8. ASSUME NEW r \in Evolvers, Index(r) PROVE TypeInv'
  <2>1. drafts' \in [Drafts -> Row]
    <3>1. evoChunk[r].id \in Nat /\ evoOn[r] \in Drafts
      BY DEF Chunk
    <3>2. [drafts[evoOn[r]] EXCEPT !.status = "indexed", !.week = TRUE,
                                   !.chunk = evoChunk[r].id] \in Row
      <4> DEFINE row1 == [drafts[evoOn[r]] EXCEPT !.status = "indexed"]
                 row2 == [row1 EXCEPT !.week = TRUE]
      <4>1. row1 \in Row
        BY <3>1 DEF Row
      <4> HIDE DEF row1
      <4>2. row2 \in Row
        BY <4>1 DEF Row
      <4> HIDE DEF row2
      <4>3. [row2 EXCEPT !.chunk = evoChunk[r].id] \in Row
        BY <3>1, <4>2 DEF Row
      <4> QED  BY <4>3 DEF row1, row2
    <3> QED
      BY <1>8, <3>1, <3>2 DEF Index
  <2>2. chunks' \subseteq Chunk /\ IsFiniteSet(chunks')
    BY <1>8, <1>c DEF Index
  <2> QED
    BY <1>8, <2>1, <2>2 DEF Index
<1>9. ASSUME NEW r \in Evolvers,
             ReflowFails(r) \/ Publish(r) \/ PublishFails(r) \/ WithdrawFails(r)
      PROVE  TypeInv'
  BY <1>9 DEF ReflowFails, Publish, PublishFails, WithdrawFails, Fails
<1>10. ASSUME NEW r \in Evolvers, ForgetVector(r) PROVE TypeInv'
  BY <1>10 DEF ForgetVector, Fails
<1>11. ASSUME NEW r \in Evolvers, WithdrawDraft(r) PROVE TypeInv'
  <2>1. drafts' \in [Drafts -> Row]
    BY <1>11 DEF WithdrawDraft, Row
  <2>2. chunks' \subseteq Chunk /\ IsFiniteSet(chunks')
    BY <1>11, <1>c DEF WithdrawDraft
  <2> QED
    BY <1>11, <2>1, <2>2 DEF WithdrawDraft
<1> HIDE DEF TypeInv
<1> QED
  BY <1>0, <1>1, <1>2, <1>3, <1>4, <1>5, <1>6, <1>7, <1>8, <1>9, <1>10, <1>11
     DEF EvolutionNext

-----------------------------------------------------------------------------
(* What flows back is reviewed.                                            *)

\* What a request for a draft sees of the chunks: a withdrawal its chunk, a reflow a new one.
LEMMA SeenChunk ==
  ASSUME NEW d \in Drafts, NEW op \in EvoOps, NEW chunk \in ChunkSeen(op, d)
  PROVE  /\ op = "reflow" => chunk.of = d
         /\ op = "withdraw" /\ (\E c \in chunks : c.id = drafts[d].chunk) =>
               chunk \in chunks /\ chunk.id = drafts[d].chunk
BY DEF ChunkSeen

\* The request r begins: what op does to d, with the chunk it has found.
OpensAs(r, d, op, chunk) ==
    /\ evoPc[r] = "idle" /\ Accepts(op, drafts[d])
    /\ op = "reflow" /\ drafts[d].status = "approved" => HasQuota(Cardinality(WeeklyIndexed))
    /\ evoOp'[r] = op /\ evoOn'[r] = d /\ evoChunk'[r] = chunk
    /\ evoPc'[r] = IF op = "reflow" /\ drafts[d].status = "indexed" THEN "publish" ELSE "loaded"

\* What a request has loaded when it begins.
LEMMA Opened ==
  ASSUME TypeInv, NEW r \in Evolvers, Open(r)
  PROVE  /\ \E d \in Drafts, op \in EvoOps : \E chunk \in ChunkSeen(op, d) :
               OpensAs(r, d, op, chunk)
         /\ \A s \in Evolvers \ {r} :
               /\ evoPc'[s] = evoPc[s] /\ evoOp'[s] = evoOp[s]
               /\ evoOn'[s] = evoOn[s] /\ evoChunk'[s] = evoChunk[s]
         /\ evoAlone => \A s \in Evolvers : evoPc[s] = "idle"
<1>1. PICK d \in Drafts, op \in EvoOps : \E chunk \in ChunkSeen(op, d) :
          /\ Accepts(op, drafts[d])
          /\ op = "reflow" /\ drafts[d].status = "approved" => HasQuota(Cardinality(WeeklyIndexed))
          /\ evoOp' = [evoOp EXCEPT ![r] = op]
          /\ evoOn' = [evoOn EXCEPT ![r] = d]
          /\ evoChunk' = [evoChunk EXCEPT ![r] = chunk]
          /\ Step(r, IF op = "reflow" /\ drafts[d].status = "indexed" THEN "publish" ELSE "loaded")
  BY Zenon DEF Open
<1>2. PICK chunk \in ChunkSeen(op, d) :
          /\ Accepts(op, drafts[d])
          /\ op = "reflow" /\ drafts[d].status = "approved" => HasQuota(Cardinality(WeeklyIndexed))
          /\ evoOp' = [evoOp EXCEPT ![r] = op]
          /\ evoOn' = [evoOn EXCEPT ![r] = d]
          /\ evoChunk' = [evoChunk EXCEPT ![r] = chunk]
          /\ Step(r, IF op = "reflow" /\ drafts[d].status = "indexed" THEN "publish" ELSE "loaded")
  BY <1>1
<1>3. evoPc[r] = "idle" /\ (evoAlone => \A s \in Evolvers : evoPc[s] = "idle")
  BY DEF Open
<1>4. /\ evoOp'[r] = op /\ evoOn'[r] = d /\ evoChunk'[r] = chunk
      /\ evoPc'[r] = IF op = "reflow" /\ drafts[d].status = "indexed" THEN "publish" ELSE "loaded"
      /\ \A s \in Evolvers \ {r} : /\ evoPc'[s] = evoPc[s] /\ evoOp'[s] = evoOp[s]
                                   /\ evoOn'[s] = evoOn[s] /\ evoChunk'[s] = evoChunk[s]
  BY <1>2 DEF TypeInv, Step
<1> QED
  BY <1>2, <1>3, <1>4 DEF OpensAs

\* The request r has ended and keeps nothing; the others are as they were.
LEMMA Ended ==
  ASSUME TypeInv, NEW r \in Evolvers, EvoDone(r)
  PROVE  /\ evoPc'[r] = "idle"
         /\ \A s \in Evolvers \ {r} : /\ evoPc'[s] = evoPc[s] /\ evoOp'[s] = evoOp[s]
                                      /\ evoOn'[s] = evoOn[s] /\ evoChunk'[s] = evoChunk[s]
BY DEF TypeInv, EvoDone

\* Only what a reviewer approved is approved, indexed, a chunk, a vector or on its way there.
LEMMA ApprovedStep ==
  ASSUME TypeInv, ApprovedInv, [EvolutionNext]_evoVars
  PROVE  ApprovedInv'
<1>0. CASE UNCHANGED evoVars
  BY <1>0 DEF evoVars, stores, evoRequests, ApprovedInv, Reflowing
<1>t. /\ drafts \in [Drafts -> Row] /\ evoPc \in [Evolvers -> Places]
      /\ evoOp \in [Evolvers -> EvoOps] /\ evoOn \in [Evolvers -> Drafts]
      /\ evoChunk \in [Evolvers -> Chunk]
      /\ \A r \in Evolvers : evoPc[r] \in {"document", "inserted"} => evoOp[r] = "reflow"
  BY DEF TypeInv
\* The other requests are as they were, and r carries an approved draft.
<1>a. ASSUME NEW r \in Evolvers, endorsed \subseteq endorsed',
             \A d \in Drafts : drafts'[d].status \in {"approved", "indexed"} => d \in endorsed',
             \A c \in chunks' \cup vectors' : c.of \in endorsed',
             \A s \in Evolvers \ {r} : /\ evoPc'[s] = evoPc[s] /\ evoOp'[s] = evoOp[s]
                                       /\ evoOn'[s] = evoOn[s] /\ evoChunk'[s] = evoChunk[s],
             Reflowing(r)' => evoOn'[r] \in endorsed' /\ evoChunk'[r].of = evoOn'[r]
      PROVE  ApprovedInv'
  <2>1. ASSUME NEW s \in Evolvers, Reflowing(s)'
        PROVE  evoOn'[s] \in endorsed' /\ evoChunk'[s].of = evoOn'[s]
    BY <1>a, <2>1 DEF ApprovedInv, Reflowing
  <2> QED
    BY <1>a, <2>1 DEF ApprovedInv
<1> USE <1>t DEF Step
<1>1. ASSUME NEW D \in SUBSET Drafts, Scan(D) PROVE ApprovedInv'
  BY <1>1 DEF Scan, NoDraft, evoRequests, ApprovedInv, Reflowing
<1>2. CASE WeekPasses
  <2>1. \A d \in Drafts : drafts'[d].status = drafts[d].status
    BY <1>2 DEF WeekPasses, Row
  <2> QED
    BY <1>2, <2>1 DEF WeekPasses, evoRequests, ApprovedInv, Reflowing
<1>3. ASSUME NEW r \in Evolvers, Open(r) PROVE ApprovedInv'
  <2>1. UNCHANGED <<drafts, chunks, vectors, endorsed>>
    BY <1>3 DEF Open, stores
  <2>2. Reflowing(r)' => evoOn'[r] \in endorsed /\ evoChunk'[r].of = evoOn'[r]
    <3>0. PICK d \in Drafts, op \in EvoOps : \E chunk \in ChunkSeen(op, d) : OpensAs(r, d, op, chunk)
      BY <1>3, Opened
    <3>1. PICK chunk \in ChunkSeen(op, d) : OpensAs(r, d, op, chunk)
      BY <3>0
    <3>2. op = "reflow" => evoChunk'[r].of = d
      BY <3>1, SeenChunk DEF OpensAs
    <3> QED
      BY <3>1, <3>2 DEF OpensAs, Reflowing, Accepts, ApprovedInv
  <2>3. \A s \in Evolvers \ {r} : /\ evoPc'[s] = evoPc[s] /\ evoOp'[s] = evoOp[s]
                                  /\ evoOn'[s] = evoOn[s] /\ evoChunk'[s] = evoChunk[s]
    BY <1>3, Opened
  <2> QED
    BY <1>a, <2>1, <2>2, <2>3 DEF ApprovedInv
<1>4. ASSUME NEW r \in Evolvers, Review(r) PROVE ApprovedInv'
  BY <1>4, <1>a, Ended DEF Review, ApprovedInv, Reflowing
<1>5. ASSUME NEW r \in Evolvers, Retest(r) PROVE ApprovedInv'
  <2>1. \A d \in Drafts : drafts'[d].status = drafts[d].status
    BY <1>5 DEF Retest, Row
  <2> QED
    BY <1>5, <2>1, <1>a, Ended DEF Retest, ApprovedInv, Reflowing
<1>6. ASSUME NEW r \in Evolvers, EnsureDoc(r) PROVE ApprovedInv'
  BY <1>6 DEF EnsureDoc, ApprovedInv, Reflowing
<1>7. ASSUME NEW r \in Evolvers, DocRefused(r) \/ PublishFails(r) \/ WithdrawFails(r)
      PROVE  ApprovedInv'
  BY <1>7, <1>a, Ended DEF DocRefused, PublishFails, WithdrawFails, stores, ApprovedInv, Reflowing
<1>8. ASSUME NEW r \in Evolvers, PersistChunk(r) PROVE ApprovedInv'
  <2>1. /\ evoOn[r] \in endorsed /\ evoChunk[r].of = evoOn[r] /\ evoOp[r] = "reflow"
    BY <1>8 DEF PersistChunk, ApprovedInv, Reflowing
  <2>2. [evoChunk[r] EXCEPT !.id = inserts + 1].of = evoChunk[r].of
    BY DEF Chunk
  <2> QED
    BY <1>8, <2>1, <2>2 DEF PersistChunk, ApprovedInv, Reflowing
<1>9. ASSUME NEW r \in Evolvers, Index(r) PROVE ApprovedInv'
  <2>1. /\ evoOn[r] \in endorsed /\ evoChunk[r].of = evoOn[r] /\ evoOp[r] = "reflow"
    BY <1>9 DEF Index, ApprovedInv, Reflowing
  <2>2. \A d \in Drafts : d # evoOn[r] => drafts'[d].status = drafts[d].status
    BY <1>9 DEF Index, Row
  <2> QED
    BY <1>9, <2>1, <2>2 DEF Index, ApprovedInv, Reflowing
<1>10. ASSUME NEW r \in Evolvers, ReflowFails(r) \/ Publish(r) PROVE ApprovedInv'
  BY <1>10, <1>a, Ended DEF ReflowFails, Publish, ApprovedInv, Reflowing
<1>11. ASSUME NEW r \in Evolvers, ForgetVector(r) PROVE ApprovedInv'
  BY <1>11 DEF ForgetVector, ApprovedInv, Reflowing
<1>12. ASSUME NEW r \in Evolvers, WithdrawDraft(r) PROVE ApprovedInv'
  <2>1. \A d \in Drafts : drafts'[d].status \in {drafts[d].status, "withdrawn"}
    BY <1>12 DEF WithdrawDraft, Row
  <2> QED
    BY <1>12, <2>1, <1>a, Ended DEF WithdrawDraft, ApprovedInv, Reflowing
<1> QED
  BY <1>0, <1>1, <1>2, <1>3, <1>4, <1>5, <1>6, <1>7, <1>8, <1>9, <1>10, <1>11, <1>12
     DEF EvolutionNext

-----------------------------------------------------------------------------
(* Requests that do not overlap.                                           *)

\* The quota is kept if no draft is indexed but one that there was room for.
LEMMA QuotaStep ==
  ASSUME WithinQuota, NEW d,
         \/ WeeklyIndexed' \subseteq WeeklyIndexed
         \/ /\ WeeklyIndexed' \subseteq WeeklyIndexed \cup {d}
            /\ HasQuota(Cardinality(WeeklyIndexed))
  PROVE  WithinQuota'
<1>1. WeeklyIndexed \subseteq Drafts /\ WeeklyIndexed' \subseteq Drafts
  BY DEF WeeklyIndexed
<1>2. Cardinality(WeeklyIndexed) \in Nat /\ Cardinality(WeeklyIndexed') \in Nat /\ Quota \in Nat
  BY <1>1, FewDrafts, EvolutionAssumption
<1>3. /\ WeeklyIndexed' \subseteq WeeklyIndexed =>
            Cardinality(WeeklyIndexed') <= Cardinality(WeeklyIndexed)
      /\ WeeklyIndexed' \subseteq WeeklyIndexed \cup {d} =>
            Cardinality(WeeklyIndexed') <= Cardinality(WeeklyIndexed) + 1
  BY <1>1, OneMore
<1> QED
  BY <1>2, <1>3 DEF WithinQuota, HasQuota

\* A step of the one request at work leaves chunks and vectors those of the indexed drafts.
LEMMA AloneStep ==
  ASSUME EvolutionInv, evoAlone, [EvolutionNext]_evoVars
  PROVE  OneInv' /\ ChunkInv' /\ VectorInv' /\ WithinQuota'
<1> DEFINE Alone == OneInv /\ ChunkInv /\ VectorInv /\ WithinQuota
<1>t. /\ TypeInv /\ ApprovedInv /\ Alone
      /\ drafts \in [Drafts -> Row] /\ evoPc \in [Evolvers -> Places]
      /\ evoOp \in [Evolvers -> EvoOps] /\ evoOn \in [Evolvers -> Drafts]
      /\ evoChunk \in [Evolvers -> Chunk] /\ inserts \in Nat /\ evoFaults \in Nat
      /\ chunks \subseteq Chunk
      /\ \A r \in Evolvers : /\ evoPc[r] \in {"document", "inserted"} => evoOp[r] = "reflow"
                             /\ evoPc[r] = "forgotten" => evoOp[r] = "withdraw"
      /\ \A r, s \in Evolvers : evoPc[r] # "idle" /\ evoPc[s] # "idle" => r = s
  BY DEF EvolutionInv, TypeInv, OneInv
<1>i. OneInv /\ ChunkInv /\ VectorInv /\ WithinQuota
  BY <1>t
\* r is at work alone, before and after.
<1>o. ASSUME NEW r \in Evolvers, \A s \in Evolvers \ {r} : evoPc[s] = "idle",
             \A s \in Evolvers \ {r} : evoPc'[s] = evoPc[s], AtWork(r)'
      PROVE  OneInv'
  <2>1. ASSUME NEW s \in Evolvers, s # r PROVE AtWork(s)'
    BY <1>o, <2>1 DEF AtWork, Reflowing, Withdrawing
  <2> QED
    BY <1>o, <2>1 DEF OneInv
<1>w. ASSUME NEW r \in Evolvers, evoPc'[r] = "idle" PROVE AtWork(r)'
  BY <1>w DEF AtWork, Reflowing, Withdrawing
\* The drafts keep what the chunks and the quota ask of them.
<1>q. ASSUME UNCHANGED drafts PROVE WithinQuota' /\ UNCHANGED WeeklyIndexed
  <2>1. UNCHANGED WeeklyIndexed
    BY <1>q DEF WeeklyIndexed
  <2> QED
    BY <1>i, <2>1 DEF WithinQuota
<1> HIDE DEF Alone
<1> USE <1>t DEF Step
<1>0. CASE UNCHANGED evoVars
  <2>1. UNCHANGED WeeklyIndexed
    BY <1>0 DEF WeeklyIndexed, evoVars, stores
  <2> QED
    BY <1>i, <1>0, <2>1 DEF evoVars, stores, evoRequests, OneInv, AtWork, Reflowing, Withdrawing,
       ChunkInv, VectorInv, WithinQuota
<1>1. ASSUME NEW D \in SUBSET Drafts, Scan(D)
      PROVE  OneInv' /\ ChunkInv' /\ VectorInv' /\ WithinQuota'
  <2>1. /\ \A d \in Drafts : drafts[d].status # "absent" => drafts'[d] = drafts[d]
        /\ \A d \in Drafts : drafts[d].status = "absent" => drafts'[d].status \in {"absent", "draft"}
        /\ UNCHANGED <<chunks, vectors, inserts, evoRequests, evoFaults>>
    BY <1>1 DEF Scan, NoDraft
  <2>2. UNCHANGED WeeklyIndexed
    BY <2>1 DEF WeeklyIndexed
  <2>3. OneInv'
    BY <1>i, <2>1, <2>2 DEF OneInv, AtWork, Reflowing, Withdrawing, evoRequests
  <2>4. ChunkInv'
    <3>1. \A d \in Drafts : drafts'[d].status = "indexed" <=> drafts[d].status = "indexed"
      BY <2>1
    <3>2. \A c \in chunks : c.of \in Drafts
      BY DEF ApprovedInv, TypeInv
    <3> QED
      BY <1>i, <2>1, <3>1, <3>2 DEF ChunkInv
  <2> QED
    BY <1>i, <2>1, <2>2, <2>3, <2>4 DEF VectorInv, WithinQuota, evoRequests
<1>2. CASE WeekPasses
  <2>1. /\ \A d \in Drafts : /\ drafts'[d].status = drafts[d].status
                             /\ drafts'[d].chunk = drafts[d].chunk /\ ~drafts'[d].week
        /\ UNCHANGED <<chunks, vectors, inserts, evoRequests, evoFaults>>
        /\ \A r \in Evolvers : evoPc[r] = "idle"
    BY <1>2 DEF WeekPasses, Row
  <2>2. WeeklyIndexed' = {}
    BY <2>1 DEF WeeklyIndexed
  <2>3. OneInv'
    BY <2>1 DEF OneInv, AtWork, Reflowing, Withdrawing, evoRequests
  <2>4. ChunkInv'
    <3>1. \A c \in chunks : c.of \in Drafts
      BY DEF ApprovedInv, TypeInv
    <3> QED
      BY <1>i, <2>1, <3>1 DEF ChunkInv
  <2>5. VectorInv'
    BY <1>i, <2>1 DEF VectorInv, evoRequests
  <2> QED
    BY <1>i, <2>2, <2>3, <2>4, <2>5, QuotaStep
<1>3. ASSUME NEW r \in Evolvers, Open(r)
      PROVE  OneInv' /\ ChunkInv' /\ VectorInv' /\ WithinQuota'
  <2>1. UNCHANGED <<drafts, chunks, vectors, inserts, evoFaults>>
    BY <1>3 DEF Open, stores
  <2>o. PICK d \in Drafts, op \in EvoOps : \E chunk \in ChunkSeen(op, d) : OpensAs(r, d, op, chunk)
    BY <1>3, Opened
  <2>p. PICK chunk \in ChunkSeen(op, d) : OpensAs(r, d, op, chunk)
    BY <2>o
  <2>2. /\ evoPc[r] = "idle" /\ Accepts(op, drafts[d])
        /\ op = "reflow" /\ drafts[d].status = "approved" => HasQuota(Cardinality(WeeklyIndexed))
        /\ evoOp'[r] = op /\ evoOn'[r] = d /\ evoChunk'[r] \in ChunkSeen(op, d)
        /\ evoPc'[r] = IF op = "reflow" /\ drafts[d].status = "indexed" THEN "publish"
                       ELSE "loaded"
        /\ \A s \in Evolvers \ {r} : evoPc'[s] = evoPc[s]
        /\ \A s \in Evolvers : evoPc[s] = "idle"
    BY <1>3, <2>p, Opened DEF OpensAs
  <2>3. op = "withdraw" => /\ drafts[d].status = "indexed"
                           /\ evoChunk'[r] \in chunks /\ evoChunk'[r].of = d
    <3>1. ASSUME op = "withdraw" PROVE drafts[d].status = "indexed"
      BY <2>2, <3>1 DEF Accepts
    <3>2. ASSUME op = "withdraw"
          PROVE  \E c \in chunks : c.of = d /\ c.id = drafts[d].chunk
      BY <1>i, <3>1, <3>2 DEF ChunkInv
    <3>3. ASSUME op = "withdraw"
          PROVE  evoChunk'[r] \in chunks /\ evoChunk'[r].id = drafts[d].chunk
      BY <2>2, <3>2, <3>3, SeenChunk
    <3> QED
      BY <1>i, <3>1, <3>2, <3>3 DEF ChunkInv
  <2>4. AtWork(r)'
    BY <1>q, <2>1, <2>2, <2>3 DEF AtWork, Reflowing, Withdrawing, Accepts
  <2>5. \A s \in Evolvers : evoPc[s] = "idle" /\ evoPc'[s] \notin {"inserted", "forgotten"}
    BY <2>2
  <2> QED
    BY <1>i, <1>o, <1>q, <2>1, <2>2, <2>4, <2>5 DEF ChunkInv, VectorInv
\* A step of r, the only request at work.
<1>4. ASSUME NEW r \in Evolvers, evoPc[r] # "idle",
             \A s \in Evolvers \ {r} : evoPc'[s] = evoPc[s], AtWork(r)'
      PROVE  OneInv'
  BY <1>o, <1>4
\* ... that leaves the drafts and the chunks, and inserts no vector.
<1>5. ASSUME NEW r \in Evolvers, evoPc[r] # "idle", EvoDone(r),
             UNCHANGED <<drafts, chunks, vectors, inserts>>,
             evoFaults' # 0 \/ (UNCHANGED evoFaults /\ evoPc[r] # "inserted")
      PROVE  OneInv' /\ ChunkInv' /\ VectorInv' /\ WithinQuota'
  <2>1. evoPc'[r] = "idle" /\ \A s \in Evolvers \ {r} : evoPc'[s] = evoPc[s] /\ evoPc[s] = "idle"
    BY <1>5, Ended
  <2>2. VectorInv'
    BY <1>i, <1>5, <2>1 DEF VectorInv
  <2> QED
    BY <1>i, <1>4, <1>5, <1>q, <1>w, <2>1, <2>2 DEF ChunkInv
<1>6. ASSUME NEW r \in Evolvers,
             DocRefused(r) \/ ReflowFails(r) \/ Publish(r) \/ PublishFails(r) \/ WithdrawFails(r)
      PROVE  OneInv' /\ ChunkInv' /\ VectorInv' /\ WithinQuota'
  <2>1. /\ evoPc[r] # "idle" /\ EvoDone(r) /\ UNCHANGED <<drafts, chunks, vectors, inserts>>
        /\ evoFaults' # 0 \/ (UNCHANGED evoFaults /\ evoPc[r] # "inserted")
    <3>1. CASE DocRefused(r) \/ Publish(r)
      BY <3>1 DEF DocRefused, Publish, stores
    <3>2. CASE ReflowFails(r) \/ PublishFails(r) \/ WithdrawFails(r)
      <4>1. Fails => evoFaults' # 0
        BY DEF Fails
      <4> QED
        BY <3>2, <4>1 DEF ReflowFails, PublishFails, WithdrawFails, stores
    <3> QED
      BY <1>6, <3>1, <3>2
  <2> QED
    BY <1>5, <2>1
\* A step after which r is done, the draft of r has another status, the indexed are the same.
<1>7. ASSUME NEW r \in Evolvers, Review(r) \/ Retest(r)
      PROVE  OneInv' /\ ChunkInv' /\ VectorInv' /\ WithinQuota'
  <2>1. /\ evoPc[r] = "loaded" /\ EvoDone(r) /\ UNCHANGED <<chunks, vectors, inserts, evoFaults>>
    BY <1>7 DEF Review, Retest
  <2>2. \A d \in Drafts : /\ drafts'[d].chunk = drafts[d].chunk /\ drafts'[d].week = drafts[d].week
                          /\ drafts'[d].status = "indexed" <=> drafts[d].status = "indexed"
    <3>1. CASE Review(r)
      <4>1. drafts[evoOn[r]].status = "draft"
        BY <1>i, <3>1 DEF Review, OneInv, AtWork
      <4> QED
        BY <3>1, <4>1 DEF Review, Row
    <3>2. CASE Retest(r)
      BY <3>2 DEF Retest, Row
    <3> QED
      BY <1>7, <3>1, <3>2
  <2>3. evoPc'[r] = "idle" /\ \A s \in Evolvers \ {r} : evoPc'[s] = evoPc[s] /\ evoPc[s] = "idle"
    BY <2>1, Ended
  <2>4. ChunkInv'
    <3>1. \A c \in chunks : c.of \in Drafts
      BY DEF ApprovedInv, TypeInv
    <3> QED
      BY <1>i, <2>1, <2>2, <3>1 DEF ChunkInv
  <2>5. VectorInv'
    BY <1>i, <2>1, <2>3 DEF VectorInv
  <2>6. UNCHANGED WeeklyIndexed
    BY <2>2 DEF WeeklyIndexed
  <2> QED
    BY <1>i, <1>4, <1>w, <2>1, <2>3, <2>4, <2>5, <2>6 DEF WithinQuota
<1>8. ASSUME NEW r \in Evolvers, EnsureDoc(r)
      PROVE  OneInv' /\ ChunkInv' /\ VectorInv' /\ WithinQuota'
  <2>1. /\ evoPc[r] = "loaded" /\ evoOp[r] = "reflow" /\ evoPc' = [evoPc EXCEPT ![r] = "document"]
        /\ UNCHANGED <<drafts, chunks, vectors, inserts, evoOp, evoOn, evoChunk, evoFaults>>
    BY <1>8 DEF EnsureDoc
  <2>2. AtWork(r)'
    BY <1>i, <1>q, <2>1 DEF OneInv, AtWork, Reflowing, Withdrawing
  <2> QED
    BY <1>i, <1>4, <1>q, <2>1, <2>2 DEF ChunkInv, VectorInv
<1>9. ASSUME NEW r \in Evolvers, PersistChunk(r)
      PROVE  OneInv' /\ ChunkInv' /\ VectorInv' /\ WithinQuota'
  <2> DEFINE chunk == [evoChunk[r] EXCEPT !.id = inserts + 1]
  <2>1. /\ evoPc[r] = "document" /\ evoPc' = [evoPc EXCEPT ![r] = "inserted"]
        /\ inserts' = inserts + 1 /\ evoChunk' = [evoChunk EXCEPT ![r] = chunk]
        /\ vectors' = vectors \cup {chunk}
        /\ UNCHANGED <<drafts, chunks, evoOp, evoOn, evoFaults>>
    BY <1>9 DEF PersistChunk
  <2>2. chunk.id = inserts + 1
    BY DEF Chunk
  <2>3. AtWork(r)'
    BY <1>i, <1>q, <2>1, <2>2 DEF OneInv, AtWork, Reflowing, Withdrawing, ChunkInv
  <2>4. ChunkInv'
    BY <1>i, <2>1 DEF ChunkInv
  <2>5. VectorInv'
    <3>1. evoChunk'[r] = chunk /\ evoPc'[r] = "inserted"
      BY <2>1
    <3>2. \A s \in Evolvers : evoPc[s] # "inserted" /\ evoPc'[s] # "forgotten"
      BY <2>1
    <3> QED
      BY <1>i, <2>1, <3>1, <3>2 DEF VectorInv
  <2> QED
    BY <1>4, <1>q, <2>1, <2>3, <2>4, <2>5
<1>10. ASSUME NEW r \in Evolvers, Index(r)
       PROVE  OneInv' /\ ChunkInv' /\ VectorInv' /\ WithinQuota'
  <2> DEFINE d == evoOn[r]
  <2>1. /\ evoPc[r] = "inserted" /\ evoPc' = [evoPc EXCEPT ![r] = "publish"]
        /\ drafts' = [drafts EXCEPT ![d].status = "indexed", ![d].week = TRUE,
                                    ![d].chunk = evoChunk[r].id]
        /\ chunks' = chunks \cup {evoChunk[r]}
        /\ UNCHANGED <<vectors, inserts, evoOp, evoOn, evoChunk, evoFaults>>
    BY <1>10 DEF Index
  <2>2. /\ d \in Drafts /\ evoOp[r] = "reflow" /\ evoChunk[r].of = d
        /\ drafts[d].status = "approved" /\ HasQuota(Cardinality(WeeklyIndexed))
        /\ evoChunk[r].id \in 1..inserts /\ \A c \in chunks : c.id # evoChunk[r].id
    BY <1>i, <2>1 DEF OneInv, AtWork, Reflowing, ApprovedInv
  <2>3. /\ drafts'[d].status = "indexed" /\ drafts'[d].chunk = evoChunk[r].id
        /\ \A e \in Drafts : e # d => drafts'[e] = drafts[e]
    BY <2>1, <2>2 DEF Row
  <2>4. AtWork(r)'
    BY <2>1 DEF AtWork, Reflowing, Withdrawing
  <2>5. ChunkInv'
    <3>1. \A c \in chunks : c.of \in Drafts /\ c.of # d
      BY <1>i, <2>2 DEF ApprovedInv, TypeInv, ChunkInv
    <3> QED
      BY <1>i, <2>1, <2>2, <2>3, <3>1, SMTT(30) DEF ChunkInv
  <2>6. VectorInv'
    BY <1>i, <2>1 DEF VectorInv
  <2>7. WeeklyIndexed' \subseteq WeeklyIndexed \cup {d}
    BY <2>3 DEF WeeklyIndexed
  <2> QED
    BY <1>i, <1>4, <2>1, <2>2, <2>4, <2>5, <2>6, <2>7, QuotaStep
<1>11. ASSUME NEW r \in Evolvers, ForgetVector(r)
       PROVE  OneInv' /\ ChunkInv' /\ VectorInv' /\ WithinQuota'
  <2>1. /\ evoPc[r] = "loaded" /\ evoOp[r] = "withdraw"
        /\ evoPc' = [evoPc EXCEPT ![r] = "forgotten"]
        /\ UNCHANGED <<drafts, chunks, inserts, evoOp, evoOn, evoChunk>>
    BY <1>11 DEF ForgetVector
  <2>2. evoChunk[r] \in chunks /\ evoChunk[r] # NoChunk
    BY <1>i, <2>1 DEF OneInv, AtWork, Withdrawing, ChunkInv, NoChunk
  <2>3. \/ vectors' = vectors \ SameKeyAs(evoChunk[r]) /\ UNCHANGED evoFaults
        \/ evoFaults' # 0
    BY <1>11, <2>2 DEF ForgetVector, Fails
  <2>4. AtWork(r)'
    BY <1>i, <2>1 DEF OneInv, AtWork, Reflowing, Withdrawing
  <2>5. VectorInv'
    <3>1. CASE vectors' = vectors \ SameKeyAs(evoChunk[r]) /\ UNCHANGED evoFaults
      <4>1. vectors' \subseteq vectors /\ evoChunk[r] \notin vectors'
        BY <3>1 DEF SameKeyAs
      <4>2. \A s \in Evolvers : evoPc[s] # "inserted" /\ (evoPc'[s] = "forgotten" => s = r)
        BY <2>1
      <4> QED
        BY <1>i, <2>1, <3>1, <4>1, <4>2 DEF VectorInv
    <3>2. CASE evoFaults' # 0
      BY <3>2 DEF VectorInv
    <3> QED
      BY <2>3, <3>1, <3>2
  <2> QED
    BY <1>i, <1>4, <1>q, <2>1, <2>4, <2>5 DEF ChunkInv
<1>12. ASSUME NEW r \in Evolvers, WithdrawDraft(r)
       PROVE  OneInv' /\ ChunkInv' /\ VectorInv' /\ WithinQuota'
  <2> DEFINE d == evoOn[r]
  <2>1. /\ evoPc[r] = "forgotten" /\ EvoDone(r)
        /\ chunks' = {c \in chunks : c.id # evoChunk[r].id}
        /\ drafts' = [drafts EXCEPT ![d].status = "withdrawn"]
        /\ UNCHANGED <<vectors, inserts, evoFaults>>
    BY <1>12 DEF WithdrawDraft
  <2>2. d \in Drafts /\ evoChunk[r] \in chunks /\ evoChunk[r].of = d
    BY <1>i, <2>1 DEF OneInv, AtWork, Withdrawing
  <2>3. /\ drafts'[d].status = "withdrawn" /\ \A e \in Drafts : e # d => drafts'[e] = drafts[e]
    BY <2>1, <2>2 DEF Row
  <2>4. \A c \in chunks : c.id = evoChunk[r].id <=> c = evoChunk[r]
    BY <1>i, <2>2 DEF ChunkInv
  <2>5. evoPc'[r] = "idle" /\ \A s \in Evolvers \ {r} : evoPc'[s] = evoPc[s] /\ evoPc[s] = "idle"
    BY <2>1, Ended
  <2>6. ChunkInv'
    <3>1. \A c \in chunks' : c \in chunks /\ c.of \in Drafts /\ c.of # d
      <4>1. \A c \in chunks : c.of = d => c.id = evoChunk[r].id
        BY <1>i, <2>2 DEF ChunkInv
      <4> QED
        BY <2>1, <4>1 DEF ApprovedInv, TypeInv
    <3>2. \A e \in Drafts : drafts'[e].status = "indexed" =>
             \E c \in chunks' : c.of = e /\ c.id = drafts'[e].chunk
      <4>1. ASSUME NEW e \in Drafts, drafts'[e].status = "indexed"
            PROVE  \E c \in chunks' : c.of = e /\ c.id = drafts'[e].chunk
        <5>1. e # d /\ drafts'[e] = drafts[e]
          BY <2>3, <4>1
        <5>2. PICK c \in chunks : c.of = e /\ c.id = drafts[e].chunk
          BY <1>i, <4>1, <5>1 DEF ChunkInv
        <5> QED
          BY <2>1, <2>2, <2>4, <5>1, <5>2
      <4> QED
        BY <4>1
    <3> QED
      BY <1>i, <2>1, <2>3, <3>1, <3>2 DEF ChunkInv
  <2>7. VectorInv'
    BY <1>i, <2>1, <2>4, <2>5 DEF VectorInv
  <2>8. WeeklyIndexed' \subseteq WeeklyIndexed
    BY <2>3 DEF WeeklyIndexed
  <2> QED
    BY <1>i, <1>4, <1>w, <2>1, <2>5, <2>6, <2>7, <2>8, QuotaStep
<1> QED
  BY <1>0, <1>1, <1>2, <1>3, <1>6, <1>7, <1>8, <1>9, <1>10, <1>11, <1>12 DEF EvolutionNext

-----------------------------------------------------------------------------
(* Theorems.                                                               *)

\* The invariant holds at the start ...
LEMMA Initially == EvolutionInit => EvolutionInv
<1> SUFFICES ASSUME EvolutionInit PROVE EvolutionInv
  OBVIOUS
<1>1. TypeInv
  BY TypesInit
<1>2. /\ \A d \in Drafts : drafts[d].status = "absent"
      /\ chunks = {} /\ vectors = {} /\ \A r \in Evolvers : evoPc[r] = "idle"
  BY DEF EvolutionInit, NoDraft
<1>3. ApprovedInv /\ OneInv /\ ChunkInv /\ VectorInv
  BY <1>2 DEF ApprovedInv, OneInv, AtWork, Reflowing, Withdrawing, ChunkInv, VectorInv
<1>4. WithinQuota
  <2>1. WeeklyIndexed = {}
    BY <1>2 DEF WeeklyIndexed
  <2> QED
    BY <2>1, FS_EmptySet, EvolutionAssumption DEF WithinQuota
<1> QED
  BY <1>1, <1>3, <1>4 DEF EvolutionInv

\* ... and every step keeps it.
LEMMA Inductive == EvolutionInv /\ [EvolutionNext]_evoVars => EvolutionInv'
<1> SUFFICES ASSUME EvolutionInv, [EvolutionNext]_evoVars PROVE EvolutionInv'
  OBVIOUS
<1>1. TypeInv' /\ ApprovedInv'
  BY TypeStep, ApprovedStep DEF EvolutionInv
<1>2. evoAlone' = evoAlone
  BY DEF EvolutionNext, evoVars, Scan, WeekPasses, Open, Review, Retest, EnsureDoc, DocRefused,
     PersistChunk, Index, ReflowFails, Publish, PublishFails, ForgetVector, WithdrawDraft,
     WithdrawFails
<1> QED
  BY <1>1, <1>2, AloneStep DEF EvolutionInv

\* For any number of requests, drafts, vectors and failures and any quota: nothing is in the
\* knowledge base or in Milvus that no reviewer approved; while requests do not overlap no week
\* indexes more drafts than the quota allows, an indexed draft has its chunk, and a withdrawn
\* one is gone from both stores unless something failed.
THEOREM EvolutionsKept == EvolutionSpec => []EvolutionKept
<1>1. ASSUME EvolutionInv PROVE ApprovedOnly
  BY <1>1 DEF EvolutionInv, ApprovedInv, ApprovedOnly, Served, InKnowledgeBase
<1>2. ASSUME EvolutionInv PROVE QuotaKept
  BY <1>2 DEF EvolutionInv, WithinQuota, QuotaKept, WeeklyIndexed
<1>3. ASSUME EvolutionInv PROVE WithdrawnNotServed
  <2>1. SUFFICES ASSUME evoAlone PROVE WithdrawnNotServed
    BY DEF WithdrawnNotServed
  <2>2. ASSUME NEW d \in Drafts, drafts[d].status = "withdrawn"
        PROVE  /\ ~InKnowledgeBase(d)
               /\ evoFaults = 0 /\ (\A r \in Evolvers : evoPc[r] = "idle") => ~Served(d)
    BY <1>3, <2>1, <2>2 DEF EvolutionInv, ChunkInv, VectorInv, InKnowledgeBase, Served
  <2> QED
    BY <1>3, <2>1, <2>2 DEF EvolutionInv, ChunkInv, WithdrawnNotServed
<1>4. EvolutionInv => EvolutionKept
  BY <1>1, <1>2, <1>3 DEF EvolutionKept
<1> QED
  BY <1>4, Initially, Inductive, PTL DEF EvolutionSpec

-----------------------------------------------------------------------------
(* The governance of a document: the inductive invariant.                  *)

Statuses == {"absent", "open", "confirmed", "processing", "resolved", "ignored"}
TrailEntry == [from : Statuses, to : Statuses]
Issue == [status : Statuses, count : Nat, trail : Seq(TrailEntry)]
Columns == DOMAIN NoMeta

GovTypeInv ==
    /\ DOMAIN meta = Columns /\ issueRows \in [Kinds -> Issue]
    /\ indexed \in BOOLEAN /\ cleanups \in Nat /\ govFaults \in Nat
    /\ govPc \in [Curators -> {"idle", "loaded", "emit", "quality", "locked"}]
    /\ govOp \in [Curators -> GovOps] /\ govKind \in [Curators -> Kinds]
    /\ found \in [Curators -> SUBSET ScanKinds] /\ sawMeta = [w \in Curators |-> sawMeta[w]]
    /\ sawCount \in [Curators -> [Kinds -> Nat]] /\ sightings \in [Kinds -> Nat]
    /\ \A w \in Curators : govPc[w] = "locked" => sawMeta[w] \in TrailEntry

\* Who holds the lock of an issue holds it alone, and the issue is as it was then.
LockInv ==
    /\ \A v, w \in Curators : govPc[v] = "locked" /\ govPc[w] = "locked" /\ v # w =>
          govKind[v] # govKind[w]
    /\ \A w \in Curators : govPc[w] = "locked" =>
          /\ issueRows[govKind[w]].status # "absent"
          /\ sawMeta[w].from = issueRows[govKind[w]].status

\* What a worker has loaded was true at some time.
SeenInv == \A w \in Curators, k \in Kinds \ {"event"} : sawCount[w][k] <= sightings[k]

\* The counts that a worker has loaded and will write on.
CountsOn(w) ==
    \/ govPc[w] = "loaded" /\ govOp[w] = "scan"
    \/ govPc[w] = "emit" /\ govOp[w] # "upsert" /\ found[w] = {}
    \/ govPc[w] = "quality"

\* Requests and scans that do not overlap: one works, on the rows as they are.
GovAloneInv ==
    govAlone =>
        /\ \A v, w \in Curators : govPc[v] # "idle" /\ govPc[w] # "idle" => v = w
        /\ \A w \in Curators : govPc[w] = "loaded" => sawMeta[w] = meta
        /\ \A w \in Curators : CountsOn(w) =>
              \A k \in Kinds \ {"event"} : sawCount[w][k] = issueRows[k].count

\* A blocked document that is still in the index is about to be cleaned: a clean-up waits,
\* or the request that blocked it has yet to order one.
CleanInv ==
    /\ cleanups > 0 => cleanupOrdered
    /\ ~indexed => byHand \/ (cleanupOrdered /\ ~dryRun)
    /\ ~dryRun /\ govFaults = 0 /\ ~parsedAgain /\ meta.status \in BLOCKED_VERSION_STATUSES =>
          \/ ~indexed \/ cleanups > 0
          \/ \E w \in Curators : govPc[w] = "emit" /\ govOp[w] = "upsert"

GovInv ==
    /\ GovTypeInv /\ LockInv /\ AuditChain /\ SeenInv /\ CountsSightings /\ GovAloneInv
    /\ DatesInOrder /\ CleanInv

-----------------------------------------------------------------------------
(* Types.                                                                  *)

\* An upsert keeps the columns of the row it changes.
LEMMA UpsertedColumns ==
  ASSUME NEW m, NEW edit, NEW t, DOMAIN m = Columns
  PROVE  DOMAIN Upserted(m, edit, t) = Columns
BY DEF Upserted

\* The worker w has ended, the others are as they were.
LEMMA GovEnded ==
  ASSUME GovTypeInv, NEW w \in Curators, GovDone(w)
  PROVE  /\ govPc'[w] = "idle" /\ sawCount'[w] = [k \in Kinds |-> 0]
         /\ \A v \in Curators \ {w} :
               /\ govPc'[v] = govPc[v] /\ govOp'[v] = govOp[v] /\ govKind'[v] = govKind[v]
               /\ sawMeta'[v] = sawMeta[v] /\ found'[v] = found[v] /\ sawCount'[v] = sawCount[v]
BY DEF GovTypeInv, GovDone, GovStep

\* At the start everything has its type ...
LEMMA GovTypesInit == GovernanceInit => GovTypeInv
<1>1. BareIssue \in Issue
  BY DEF BareIssue, Issue, Statuses
<1> QED
  BY <1>1 DEF GovernanceInit, GovTypeInv, Columns, GovOps, Kinds, ScanKinds

\* ... and every step keeps it.
LEMMA GovTypeStep ==
  ASSUME GovTypeInv, [GovernanceNext]_govVars
  PROVE  GovTypeInv'
<1>0. CASE UNCHANGED govVars
  BY <1>0 DEF govVars, govRows, govWork, govHistory, govMode, GovTypeInv
<1>n. NewIssue \in Issue /\ Counts \in [Kinds -> Nat] /\ "event" \in Kinds /\ "quality_low" \in Kinds
  <2>1. NewIssue \in Issue
    <3>1. NewIssue = [status |-> "open", count |-> 1, trail |-> <<>>]
      <4>1. ASSUME NEW issue, issue = [status |-> "absent", count |-> 0, trail |-> <<>>]
            PROVE  [issue EXCEPT !.status = "open", !.count = 1]
                      = [status |-> "open", count |-> 1, trail |-> <<>>]
        <5>1. [issue EXCEPT !.status = "open"]
                 = [status |-> "open", count |-> 0, trail |-> <<>>]
          BY <4>1
        <5>2. [[status |-> "open", count |-> 0, trail |-> <<>>] EXCEPT !.count = 1]
                 = [status |-> "open", count |-> 1, trail |-> <<>>]
          OBVIOUS
        <5> QED
          BY <5>1, <5>2, Zenon
      <4> QED
        BY <4>1 DEF NewIssue, BareIssue
    <3>2. <<>> \in Seq(TrailEntry)
      OBVIOUS
    <3> QED
      BY <3>1, <3>2 DEF Issue, Statuses
  <2>2. "event" \in Kinds /\ "quality_low" \in Kinds
    BY DEF Kinds
  <2>3. \A k \in Kinds : issueRows[k].count \in Nat
    BY DEF GovTypeInv, Issue
  <2> QED
    BY <2>1, <2>2, <2>3 DEF Counts
<1>d. ASSUME NEW w \in Curators, GovDone(w),
             UNCHANGED <<meta, issueRows, indexed, cleanups, govFaults, sightings>>
      PROVE  GovTypeInv'
  BY <1>d DEF GovDone, GovStep, GovTypeInv, GovOps, Kinds
<1>s. ASSUME NEW issue \in Issue, NEW n \in Nat PROVE Sighted(issue, n) \in Issue
  BY DEF Sighted, Issue
<1>1. CASE GovTick \/ CleanUp \/ Execute \/ ParseAgain
  <2>1. UNCHANGED <<meta, issueRows, govWork, sightings>>
    BY <1>1 DEF GovTick, CleanUp, Execute, ParseAgain, govRows, govHistory
  <2>2. indexed' \in BOOLEAN /\ cleanups' \in Nat
    <3>1. CASE GovTick
      BY <3>1 DEF GovTick, govRows, GovTypeInv
    <3>2. CASE CleanUp
      <4>1. indexed' = indexed \/ indexed' = FALSE
        BY <3>2, Zenon DEF CleanUp
      <4>2. indexed' \in BOOLEAN
        BY <4>1, Zenon DEF GovTypeInv
      <4>3. cleanups' \in Nat
        BY <3>2 DEF CleanUp, GovTypeInv
      <4> QED
        BY <4>2, <4>3
    <3>3. CASE Execute \/ ParseAgain
      BY <3>3 DEF Execute, ParseAgain, GovTypeInv
    <3> QED
      BY <1>1, <3>1, <3>2, <3>3
  <2>3. govFaults' \in Nat
    BY <1>1 DEF GovTick, CleanUp, Execute, ParseAgain, GovFails, GovTypeInv
  <2> QED
    BY <2>1, <2>2, <2>3 DEF govWork, GovTypeInv
<1>2. CASE GovRestart
  BY <1>2 DEF GovRestart, GovFails, govHistory, GovTypeInv, GovOps, Kinds
<1>3. ASSUME NEW w \in Curators, GovOpen(w) PROVE GovTypeInv'
  <2>1. PICK op \in {"upsert", "scan"} :
          /\ govOp' = [govOp EXCEPT ![w] = op]
          /\ IF op = "upsert"
             THEN UNCHANGED <<found, sawCount>>
             ELSE /\ \E clash \in Conflicts(meta) :
                        found' = [found EXCEPT ![w] = Lifecycle(meta, govNow) \cup clash]
                  /\ sawCount' = [sawCount EXCEPT ![w] = Counts]
    BY <1>3, Zenon DEF GovOpen
  <2>2. found' \in [Curators -> SUBSET ScanKinds] /\ sawCount' \in [Curators -> [Kinds -> Nat]]
    <3>1. Lifecycle(meta, govNow) \subseteq ScanKinds
      BY Zenon DEF Lifecycle, ScanKinds
    <3>2. \A clash \in Conflicts(meta) : clash \subseteq ScanKinds
      BY DEF Conflicts, ScanKinds
    <3>3. CASE op = "upsert"
      BY <2>1, <3>3 DEF GovTypeInv
    <3>4. CASE op = "scan"
      <4>1. PICK clash \in Conflicts(meta) :
              found' = [found EXCEPT ![w] = Lifecycle(meta, govNow) \cup clash]
        BY <2>1, <3>4, Zenon
      <4>2. Lifecycle(meta, govNow) \cup clash \subseteq ScanKinds
        BY <3>1, <3>2, <4>1
      <4>3. sawCount' = [sawCount EXCEPT ![w] = Counts]
        BY <2>1, <3>4, Zenon
      <4> HIDE DEF Counts
      <4> QED
        BY <1>n, <4>1, <4>2, <4>3 DEF GovTypeInv
    <3> QED
      BY <3>3, <3>4
  <2> QED
    BY <1>3, <2>1, <2>2 DEF GovOpen, GovStep, govRows, govHistory, GovTypeInv, GovOps
<1>4. ASSUME NEW w \in Curators, Upsert(w) PROVE GovTypeInv'
  <2>1. DOMAIN meta' = Columns
    <3>1. PICK edit \in Edits :
            meta' = IF sawMeta[w] = NoMeta THEN Upserted(NewMeta, edit, govNow)
                    ELSE Flushed(meta, sawMeta[w], Upserted(sawMeta[w], edit, govNow))
      BY <1>4 DEF Upsert
    <3>2. DOMAIN Upserted(NewMeta, edit, govNow) = Columns
      BY UpsertedColumns DEF NewMeta, Columns
    <3>3. \A new : DOMAIN Flushed(meta, sawMeta[w], new) = Columns
      BY DEF Flushed, GovTypeInv
    <3> QED
      BY <3>1, <3>2, <3>3
  <2> QED
    BY <1>4, <2>1 DEF Upsert, GovStep, govHistory, GovTypeInv
<1>5. ASSUME NEW w \in Curators, UpsertRefused(w) \/ PersistRefused(w) PROVE GovTypeInv'
  <2>1. GovDone(w) /\ UNCHANGED <<meta, issueRows, indexed, cleanups, govFaults, sightings>>
    BY <1>5, Zenon DEF UpsertRefused, PersistRefused, govRows, govHistory
  <2> QED
    BY <1>d, <2>1
<1>6. ASSUME NEW w \in Curators, Persist(w) PROVE GovTypeInv'
  <2>1. issueRows' \in [Kinds -> Issue] /\ sightings' \in [Kinds -> Nat]
    <3>1. \A k \in Kinds : sawCount[w][k] \in Nat /\ issueRows[k] \in Issue
      BY DEF GovTypeInv
    <3>2. \A k \in Kinds : Sighted(issueRows[k], sawCount[w][k]) \in Issue
      BY <1>s, <3>1
    <3>3. issueRows' \in [Kinds -> Issue]
      BY <1>6, <1>n, <3>1, <3>2 DEF Persist
    <3>4. \A k \in Kinds : sightings[k] \in Nat
      BY DEF GovTypeInv
    <3> QED
      BY <1>6, <3>3, <3>4 DEF Persist
  <2> QED
    BY <1>6, <2>1 DEF Persist, GovStep, GovTypeInv
<1>7. ASSUME NEW w \in Curators, AfterEmit(w), issueRows' \in [Kinds -> Issue], cleanups' \in Nat,
             govFaults' \in Nat, UNCHANGED <<meta, indexed, sightings>>
      PROVE  GovTypeInv'
  <2>1. CASE govOp[w] = "upsert"
    <3>1. GovDone(w)
      BY <1>7, <2>1, Zenon DEF AfterEmit
    <3> QED
      BY <1>7, <3>1 DEF GovDone, GovStep, GovTypeInv, GovOps, Kinds
  <2>2. CASE govOp[w] # "upsert"
    <3>1. /\ govPc' = [govPc EXCEPT ![w] = "quality"]
          /\ sawCount' = IF found[w] = {} THEN sawCount ELSE [sawCount EXCEPT ![w] = Counts]
          /\ UNCHANGED <<govOp, govKind, sawMeta, found>>
      BY <1>7, <2>2 DEF AfterEmit, GovStep
    <3>2. sawCount' \in [Curators -> [Kinds -> Nat]]
      BY <1>n, <3>1 DEF GovTypeInv
    <3> QED
      BY <1>7, <3>1, <3>2 DEF GovTypeInv
  <2> QED
    BY <2>1, <2>2
<1>8. ASSUME NEW w \in Curators, Emit(w) \/ EmitNothing(w) PROVE GovTypeInv'
  <2>1. /\ AfterEmit(w) /\ UNCHANGED <<meta, indexed, sightings>>
        /\ cleanups' \in Nat /\ govFaults' \in Nat
    BY <1>8 DEF Emit, EmitNothing, GovFails, govRows, govHistory, GovTypeInv
  <2>2. \/ UNCHANGED issueRows
        \/ issueRows' = [issueRows EXCEPT !["event"] = IF @.status = "absent" THEN NewIssue ELSE @]
    BY <1>8 DEF Emit, EmitNothing, govRows
  <2>3. issueRows' \in [Kinds -> Issue]
    BY <1>n, <2>2 DEF GovTypeInv
  <2> QED
    BY <1>7, <2>1, <2>3
<1>9. ASSUME NEW w \in Curators, Aggregate(w) PROVE GovTypeInv'
  <2>1. issueRows' \in [Kinds -> Issue] /\ sightings' \in [Kinds -> Nat]
    <3>1. Sighted(issueRows["quality_low"], sawCount[w]["quality_low"]) \in Issue
      BY <1>n, <1>s DEF GovTypeInv
    <3>2. \/ UNCHANGED <<issueRows, sightings>>
          \/ \E issue \in Issue :
                /\ issueRows' = [issueRows EXCEPT !["quality_low"] = issue]
                /\ sightings' = [sightings EXCEPT !["quality_low"] = @ + 1]
      BY <1>9, <1>n, <3>1 DEF Aggregate
    <3>3. CASE UNCHANGED <<issueRows, sightings>>
      BY <3>3 DEF GovTypeInv
    <3>4. ASSUME NEW issue \in Issue,
                 issueRows' = [issueRows EXCEPT !["quality_low"] = issue],
                 sightings' = [sightings EXCEPT !["quality_low"] = @ + 1]
          PROVE  issueRows' \in [Kinds -> Issue] /\ sightings' \in [Kinds -> Nat]
      BY <1>n, <3>4 DEF GovTypeInv
    <3> QED
      BY <3>2, <3>3, <3>4
  <2>2. GovDone(w) /\ UNCHANGED <<meta, indexed, cleanups, govFaults>>
    BY <1>9, Zenon DEF Aggregate
  <2> QED
    BY <2>1, <2>2 DEF GovDone, GovStep, GovTypeInv, GovOps, Kinds
<1>10. ASSUME NEW w \in Curators, LockIssue(w) PROVE GovTypeInv'
  <2>1. PICK k \in Kinds : \E to \in Transitions(k, issueRows[k].status) :
           /\ govKind' = [govKind EXCEPT ![w] = k]
           /\ sawMeta' = [sawMeta EXCEPT ![w] = [from |-> issueRows[k].status, to |-> to]]
    BY <1>10 DEF LockIssue
  <2>2. \A to \in Transitions(k, issueRows[k].status) :
           [from |-> issueRows[k].status, to |-> to] \in TrailEntry
    BY DEF Transitions, TrailEntry, Statuses, GovTypeInv, Issue
  <2>3. PICK to \in Transitions(k, issueRows[k].status) :
           sawMeta' = [sawMeta EXCEPT ![w] = [from |-> issueRows[k].status, to |-> to]]
    BY <2>1
  <2>4. /\ govKind' = [govKind EXCEPT ![w] = k] /\ govOp' = [govOp EXCEPT ![w] = "review"]
        /\ govPc' = [govPc EXCEPT ![w] = "locked"]
        /\ UNCHANGED <<meta, issueRows, indexed, cleanups, govFaults, sawCount, found, sightings>>
    BY <1>10, <2>1, Zenon DEF LockIssue, GovStep, govRows, govHistory
  <2>5. \A v \in Curators : govPc'[v] = "locked" => sawMeta'[v] \in TrailEntry
    BY <2>2, <2>3, <2>4 DEF GovTypeInv
  <2>6. sawMeta' = [v \in Curators |-> sawMeta'[v]]
    BY <2>3 DEF GovTypeInv
  <2> QED
    BY <2>4, <2>5, <2>6 DEF GovTypeInv, GovOps
<1>11. ASSUME NEW w \in Curators, ReviewIssue(w) PROVE GovTypeInv'
  <2> DEFINE k == govKind[w]
             entry == sawMeta[w]
             kept == IF k = "event" /\ entry.from = entry.to THEN <<>> ELSE <<entry>>
  <2>1. k \in Kinds /\ entry \in TrailEntry /\ issueRows[k] \in Issue
    BY <1>11 DEF ReviewIssue, GovTypeInv
  <2>2. issueRows[k].trail \o kept \in Seq(TrailEntry) /\ entry.to \in Statuses
    <3>1. kept \in Seq(TrailEntry)
      <4>1. <<entry>> \in Seq(TrailEntry) /\ <<>> \in Seq(TrailEntry)
        BY <2>1
      <4> QED
        BY <4>1, Zenon
    <3>2. issueRows[k].trail \in Seq(TrailEntry) /\ entry.to \in Statuses
      BY <2>1 DEF Issue, TrailEntry
    <3> QED
      BY <3>1, <3>2
  <2>3. [issueRows[k] EXCEPT !.status = entry.to, !.trail = @ \o kept] \in Issue
    BY <2>1, <2>2 DEF Issue
  <2>4. issueRows' = [issueRows EXCEPT ![k].status = entry.to, ![k].trail = @ \o kept]
    BY <1>11 DEF ReviewIssue
  <2>5. issueRows' \in [Kinds -> Issue]
    BY <2>1, <2>3, <2>4 DEF GovTypeInv
  <2> QED
    BY <1>11, <2>5 DEF ReviewIssue, GovDone, GovStep, govHistory, GovTypeInv, GovOps, Kinds
<1> QED
  BY <1>0, <1>1, <1>2, <1>3, <1>4, <1>5, <1>6, <1>8, <1>9, <1>10, <1>11 DEF GovernanceNext

-----------------------------------------------------------------------------
(* Workers.                                                                *)

\* What a worker does.
GovAct(w) ==
    \/ GovOpen(w) \/ Upsert(w) \/ UpsertRefused(w) \/ Persist(w) \/ PersistRefused(w)
    \/ Emit(w) \/ EmitNothing(w) \/ Aggregate(w) \/ LockIssue(w) \/ ReviewIssue(w)

\* A step is a worker's, or it leaves the workers alone, or the process restarts.
LEMMA GovCases ==
  ASSUME [GovernanceNext]_govVars
  PROVE  \/ UNCHANGED govVars \/ GovTick \/ CleanUp \/ Execute \/ ParseAgain \/ GovRestart
         \/ \E w \in Curators : GovAct(w)
BY Zenon DEF GovernanceNext, GovAct

\* What follows an event: the worker ends, or goes on with the quality of the document.
LEMMA GovEmitted ==
  ASSUME GovTypeInv, NEW w \in Curators, AfterEmit(w)
  PROVE  \/ govOp[w] = "upsert" /\ GovDone(w)
         \/ /\ govOp[w] # "upsert" /\ govPc' = [govPc EXCEPT ![w] = "quality"]
            /\ sawCount' = IF found[w] = {} THEN sawCount ELSE [sawCount EXCEPT ![w] = Counts]
            /\ UNCHANGED <<govOp, govKind, sawMeta, found>>
BY Zenon DEF AfterEmit, GovStep

\* No worker touches another one.
LEMMA GovOthers ==
  ASSUME GovTypeInv, NEW w \in Curators, GovAct(w)
  PROVE  \A v \in Curators \ {w} :
            /\ govPc'[v] = govPc[v] /\ govOp'[v] = govOp[v] /\ govKind'[v] = govKind[v]
            /\ sawMeta'[v] = sawMeta[v] /\ found'[v] = found[v] /\ sawCount'[v] = sawCount[v]
<1>1. CASE GovDone(w)
  BY <1>1, GovEnded
<1>2. CASE GovOpen(w)
  <2>1. /\ govPc' = [govPc EXCEPT ![w] = "loaded"] /\ UNCHANGED govKind
        /\ sawMeta' = [sawMeta EXCEPT ![w] = meta]
    BY <1>2, Zenon DEF GovOpen, GovStep
  <2>2. PICK op \in {"upsert", "scan"} :
          /\ govOp' = [govOp EXCEPT ![w] = op]
          /\ IF op = "upsert"
             THEN UNCHANGED <<found, sawCount>>
             ELSE /\ \E clash \in Conflicts(meta) :
                        found' = [found EXCEPT ![w] = Lifecycle(meta, govNow) \cup clash]
                  /\ sawCount' = [sawCount EXCEPT ![w] = Counts]
    BY <1>2, Zenon DEF GovOpen
  <2>3. CASE op = "upsert"
    BY <2>1, <2>2, <2>3 DEF GovTypeInv
  <2>4. CASE op = "scan"
    <3>1. PICK what : found' = [found EXCEPT ![w] = what]
      BY <2>2, <2>4, Zenon
    <3>2. sawCount' = [sawCount EXCEPT ![w] = Counts]
      BY <2>2, <2>4, Zenon
    <3> HIDE DEF Counts
    <3> QED
      BY <2>1, <2>2, <3>1, <3>2 DEF GovTypeInv
  <2> QED
    BY <2>3, <2>4
<1>3. CASE Upsert(w) \/ Persist(w)
  <2>1. /\ govPc' = [govPc EXCEPT ![w] = "emit"]
        /\ UNCHANGED <<govOp, govKind, sawMeta, found, sawCount>>
    BY <1>3, Zenon DEF Upsert, Persist, GovStep
  <2> QED
    BY <2>1 DEF GovTypeInv
<1>4. CASE Emit(w) \/ EmitNothing(w)
  <2>1. AfterEmit(w)
    BY <1>4, Zenon DEF Emit, EmitNothing
  <2>2. CASE govOp[w] # "upsert"
    BY <2>1, <2>2, GovEmitted DEF GovTypeInv
  <2> QED
    BY <1>1, <2>1, <2>2, GovEmitted
<1>5. CASE LockIssue(w)
  <2>1. /\ govPc' = [govPc EXCEPT ![w] = "locked"] /\ govOp' = [govOp EXCEPT ![w] = "review"]
        /\ UNCHANGED <<found, sawCount>>
    BY <1>5, Zenon DEF LockIssue, GovStep
  <2>2. PICK k, entry : /\ govKind' = [govKind EXCEPT ![w] = k]
                        /\ sawMeta' = [sawMeta EXCEPT ![w] = entry]
    BY <1>5, Zenon DEF LockIssue
  <2> QED
    BY <2>1, <2>2 DEF GovTypeInv
<1>6. CASE UpsertRefused(w) \/ PersistRefused(w) \/ Aggregate(w) \/ ReviewIssue(w)
  <2>1. GovDone(w)
    BY <1>6, Zenon DEF UpsertRefused, PersistRefused, Aggregate, ReviewIssue
  <2> QED
    BY <1>1, <2>1
<1> QED
  BY <1>2, <1>3, <1>4, <1>5, <1>6 DEF GovAct

-----------------------------------------------------------------------------
(* Locks and trails.                                                       *)

\* A trail leads from "open" to the status.
Chain(trail, status) ==
    /\ \A i \in 1..Len(trail) : trail[i].from = IF i = 1 THEN "open" ELSE trail[i - 1].to
    /\ status = IF trail = <<>> THEN "open" ELSE trail[Len(trail)].to

\* An entry that starts where the trail ends prolongs it.
LEMMA ChainGrows ==
  ASSUME NEW trail \in Seq(TrailEntry), NEW entry \in TrailEntry, Chain(trail, entry.from)
  PROVE  Chain(trail \o <<entry>>, entry.to)
<1> DEFINE longer == trail \o <<entry>>
           n == Len(trail)
<1>1. longer = Append(trail, entry) /\ n \in Nat
  OBVIOUS
<1>2. Len(longer) = n + 1 /\ longer # <<>> /\ longer[n + 1] = entry
  BY <1>1
<1>3. \A i \in 1..n : longer[i] = trail[i]
  BY <1>1
<1>4. n = 0 <=> trail = <<>>
  OBVIOUS
<1>5. entry.from = IF n = 0 THEN "open" ELSE longer[n].to
  BY <1>1, <1>3, <1>4 DEF Chain
<1>6. \A i \in 1..n : longer[i].from = IF i = 1 THEN "open" ELSE longer[i - 1].to
  BY <1>1, <1>3 DEF Chain
<1> HIDE DEF longer, n
<1>7. \A i \in 1..Len(longer) : longer[i].from = IF i = 1 THEN "open" ELSE longer[i - 1].to
  BY <1>1, <1>2, <1>5, <1>6
<1>8. entry.to = IF longer = <<>> THEN "open" ELSE longer[Len(longer)].to
  BY <1>2
<1> QED
  BY <1>7, <1>8 DEF Chain, longer

\* A step that reviews nothing: an issue keeps its status and its trail, or is made.
Unreviewed ==
    \A k \in Kinds :
        \/ /\ issueRows'[k].status = issueRows[k].status
           /\ issueRows'[k].trail = issueRows[k].trail
        \/ /\ issueRows[k].status = "absent"
           /\ issueRows'[k].status = "open" /\ issueRows'[k].trail = <<>>

\* A step that takes no lock.
NoLock ==
    \A w \in Curators : govPc'[w] = "locked" =>
        govPc[w] = "locked" /\ govKind'[w] = govKind[w] /\ sawMeta'[w] = sawMeta[w]

\* Such a step breaks no chain and no lock.
LEMMA UnreviewedStep ==
  ASSUME GovTypeInv, LockInv, AuditChain, Unreviewed, NoLock
  PROVE  LockInv' /\ AuditChain'
<1>1. LockInv'
  <2>1. \A v, w \in Curators : govPc'[v] = "locked" /\ govPc'[w] = "locked" /\ v # w =>
           govKind'[v] # govKind'[w]
    BY DEF LockInv, NoLock
  <2>2. ASSUME NEW w \in Curators, govPc'[w] = "locked"
        PROVE  /\ issueRows'[govKind'[w]].status # "absent"
               /\ sawMeta'[w].from = issueRows'[govKind'[w]].status
    <3>1. govPc[w] = "locked" /\ govKind'[w] = govKind[w] /\ sawMeta'[w] = sawMeta[w]
      BY <2>2 DEF NoLock
    <3>2. govKind[w] \in Kinds
      BY DEF GovTypeInv
    <3>3. issueRows[govKind[w]].status # "absent"
      BY <3>1 DEF LockInv
    <3>4. issueRows'[govKind[w]].status = issueRows[govKind[w]].status
      BY <3>2, <3>3 DEF Unreviewed
    <3> QED
      BY <3>1, <3>3, <3>4 DEF LockInv
  <2> QED
    BY <2>1, <2>2, Zenon DEF LockInv
<1>2. AuditChain'
  <2>1. SUFFICES ASSUME NEW k \in Kinds, issueRows'[k].status # "absent"
        PROVE  LET trail == issueRows'[k].trail IN
               /\ \A i \in 1..Len(trail) :
                     trail[i].from = IF i = 1 THEN "open" ELSE trail[i - 1].to
               /\ issueRows'[k].status = IF trail = <<>> THEN "open" ELSE trail[Len(trail)].to
    BY Zenon DEF AuditChain
  <2>2. CASE issueRows'[k].status = "open" /\ issueRows'[k].trail = <<>>
    BY <2>2
  <2>3. CASE issueRows'[k].status = issueRows[k].status /\ issueRows'[k].trail = issueRows[k].trail
    BY <2>1, <2>3, ZenonT(60) DEF AuditChain
  <2> QED
    BY <2>2, <2>3 DEF Unreviewed
<1> QED
  BY <1>1, <1>2

\* Only a review changes the status of an issue and its trail.
LEMMA UnreviewedActs ==
  ASSUME GovTypeInv, NEW w \in Curators, GovAct(w), ~ReviewIssue(w)
  PROVE  Unreviewed
<1>k. \A k \in Kinds : issueRows[k] \in Issue /\ sawCount[w][k] \in Nat
  BY DEF GovTypeInv
<1>n. NewIssue.status = "open" /\ NewIssue.trail = <<>>
  BY DEF NewIssue, BareIssue
<1>s. ASSUME NEW k \in Kinds, NEW n \in Nat
      PROVE  /\ Sighted(issueRows[k], n).status = issueRows[k].status
             /\ Sighted(issueRows[k], n).trail = issueRows[k].trail
  BY <1>k DEF Sighted, Issue
<1>0. CASE UNCHANGED issueRows
  BY <1>0 DEF Unreviewed
<1>1. CASE Persist(w)
  <2>1. ASSUME NEW k \in Kinds
        PROVE  /\ issueRows'[k] = IF k \notin found[w] THEN issueRows[k]
                                  ELSE IF sawCount[w][k] = 0 THEN NewIssue
                                  ELSE Sighted(issueRows[k], sawCount[w][k])
               /\ k \in found[w] /\ sawCount[w][k] = 0 => issueRows[k].status = "absent"
    BY <1>1, Zenon DEF Persist
  <2> HIDE DEF NewIssue, Sighted
  <2> QED
    BY <1>k, <1>n, <1>s, <2>1 DEF Unreviewed
<1>2. CASE Emit(w)
  <2>1. \/ UNCHANGED issueRows
        \/ issueRows' = [issueRows EXCEPT !["event"] =
                            IF issueRows["event"].status = "absent" THEN NewIssue
                            ELSE issueRows["event"]]
    BY <1>2, Zenon DEF Emit
  <2>2. DOMAIN issueRows = Kinds
    BY DEF GovTypeInv
  <2> HIDE DEF NewIssue
  <2> QED
    BY <1>0, <1>n, <2>1, <2>2 DEF Unreviewed
<1>3. CASE Aggregate(w)
  <2> DEFINE seen == sawCount[w]["quality_low"]
  <2>1. \/ UNCHANGED issueRows
        \/ /\ seen = 0 => issueRows["quality_low"].status = "absent"
           /\ issueRows' = [issueRows EXCEPT !["quality_low"] =
                            IF seen = 0 THEN NewIssue ELSE Sighted(issueRows["quality_low"], seen)]
    BY <1>3, Zenon DEF Aggregate
  <2>2. DOMAIN issueRows = Kinds /\ "quality_low" \in Kinds
    BY DEF GovTypeInv, Kinds
  <2> HIDE DEF NewIssue, Sighted
  <2> QED
    BY <1>0, <1>k, <1>n, <1>s, <2>1, <2>2 DEF Unreviewed
<1>4. CASE \/ GovOpen(w) \/ Upsert(w) \/ UpsertRefused(w) \/ PersistRefused(w) \/ EmitNothing(w)
           \/ LockIssue(w)
  <2>1. UNCHANGED issueRows
    BY <1>4, Zenon DEF GovOpen, Upsert, UpsertRefused, PersistRefused, EmitNothing, LockIssue,
       govRows
  <2> QED
    BY <1>0, <2>1
<1> QED
  BY <1>1, <1>2, <1>3, <1>4 DEF GovAct

\* Only LockIssue takes a lock.
LEMMA NoLockActs ==
  ASSUME GovTypeInv, NEW w \in Curators, GovAct(w), ~LockIssue(w)
  PROVE  NoLock /\ govPc'[w] # "locked"
<1>1. govPc'[w] \in {"idle", "loaded", "emit", "quality"}
  <2>1. CASE GovDone(w)
    BY <2>1, GovEnded
  <2>2. CASE GovOpen(w) \/ Upsert(w) \/ Persist(w)
    <3>1. govPc' = [govPc EXCEPT ![w] = "loaded"] \/ govPc' = [govPc EXCEPT ![w] = "emit"]
      BY <2>2, Zenon DEF GovOpen, Upsert, Persist, GovStep
    <3> QED
      BY <3>1 DEF GovTypeInv
  <2>3. CASE Emit(w) \/ EmitNothing(w)
    <3>1. AfterEmit(w)
      BY <2>3, Zenon DEF Emit, EmitNothing
    <3>2. CASE govPc' = [govPc EXCEPT ![w] = "quality"]
      BY <3>2 DEF GovTypeInv
    <3> QED
      BY <2>1, <3>1, <3>2, GovEmitted
  <2>4. CASE UpsertRefused(w) \/ PersistRefused(w) \/ Aggregate(w) \/ ReviewIssue(w)
    BY <2>1, <2>4, Zenon DEF UpsertRefused, PersistRefused, Aggregate, ReviewIssue
  <2> QED
    BY <2>2, <2>3, <2>4 DEF GovAct
<1>2. \A v \in Curators : govPc'[v] = "locked" => v # w
  BY <1>1
<1> QED
  BY <1>1, <1>2, GovOthers DEF NoLock

\* A review starts from the status its worker has locked.
LEMMA LockStep ==
  ASSUME GovTypeInv, LockInv, AuditChain, [GovernanceNext]_govVars
  PROVE  LockInv' /\ AuditChain'
<1>1. CASE UNCHANGED govVars \/ GovTick \/ CleanUp \/ Execute \/ ParseAgain
  <2>1. UNCHANGED <<issueRows, govWork>>
    BY <1>1, Zenon DEF govVars, govRows, GovTick, CleanUp, Execute, ParseAgain
  <2>2. Unreviewed /\ NoLock
    BY <2>1 DEF govWork, Unreviewed, NoLock
  <2> QED
    BY <2>2, UnreviewedStep
<1>2. CASE GovRestart
  <2>1. UNCHANGED issueRows /\ govPc' = [w \in Curators |-> "idle"]
    BY <1>2, Zenon DEF GovRestart
  <2>2. Unreviewed /\ NoLock
    BY <2>1 DEF Unreviewed, NoLock
  <2> QED
    BY <2>2, UnreviewedStep
<1>3. ASSUME NEW w \in Curators, GovAct(w), ~LockIssue(w), ~ReviewIssue(w)
      PROVE  LockInv' /\ AuditChain'
  BY <1>3, UnreviewedActs, NoLockActs, UnreviewedStep
<1>4. ASSUME NEW w \in Curators, LockIssue(w)
      PROVE  LockInv' /\ AuditChain'
  <2>1. PICK k \in Kinds :
          /\ issueRows[k].status # "absent" /\ Unlocked(k)
          /\ govKind' = [govKind EXCEPT ![w] = k]
          /\ \E to \in Transitions(k, issueRows[k].status) :
                sawMeta' = [sawMeta EXCEPT ![w] = [from |-> issueRows[k].status, to |-> to]]
    BY <1>4, Zenon DEF LockIssue
  <2>2. PICK to : sawMeta' = [sawMeta EXCEPT ![w] = [from |-> issueRows[k].status, to |-> to]]
    BY <2>1, Zenon
  <2>3. UNCHANGED issueRows /\ govPc' = [govPc EXCEPT ![w] = "locked"]
    BY <1>4, Zenon DEF LockIssue, govRows, GovStep
  <2>4. \A v \in Curators \ {w} :
           govPc'[v] = govPc[v] /\ govKind'[v] = govKind[v] /\ sawMeta'[v] = sawMeta[v]
    BY <1>4, GovOthers, Zenon DEF GovAct
  <2>5. govKind'[w] = k /\ sawMeta'[w].from = issueRows[k].status
    BY <2>1, <2>2 DEF GovTypeInv
  <2>6. \A v, x \in Curators : govPc'[v] = "locked" /\ govPc'[x] = "locked" /\ v # x =>
           govKind'[v] # govKind'[x]
    BY <2>1, <2>4, <2>5 DEF LockInv, Unlocked
  <2>7. \A v \in Curators : govPc'[v] = "locked" =>
          /\ issueRows'[govKind'[v]].status # "absent"
          /\ sawMeta'[v].from = issueRows'[govKind'[v]].status
    BY <2>1, <2>3, <2>4, <2>5 DEF LockInv
  <2>8. AuditChain'
    BY <2>3 DEF AuditChain
  <2> QED
    BY <2>6, <2>7, <2>8, Zenon DEF LockInv
<1>5. ASSUME NEW w \in Curators, ReviewIssue(w)
      PROVE  LockInv' /\ AuditChain'
  <2> DEFINE k == govKind[w]
             entry == sawMeta[w]
             kept == IF k = "event" /\ entry.from = entry.to THEN <<>> ELSE <<entry>>
             old == issueRows[k]
             new == issueRows'[k]
  <2>1. govPc[w] = "locked" /\ k \in Kinds /\ entry \in TrailEntry /\ old \in Issue
    BY <1>5 DEF ReviewIssue, GovTypeInv
  <2>2. issueRows' = [issueRows EXCEPT ![k].status = entry.to, ![k].trail = @ \o kept]
    BY <1>5 DEF ReviewIssue
  <2>3. /\ new.status = entry.to /\ new.trail = old.trail \o kept
        /\ \A j \in Kinds \ {k} : issueRows'[j] = issueRows[j]
    BY <2>1, <2>2 DEF GovTypeInv, Issue
  <2>4. old.status # "absent" /\ entry.from = old.status
    BY <2>1 DEF LockInv
  <2>5. LockInv'
    <3>1. \A v \in Curators : govPc'[v] = "locked" =>
             /\ v # w /\ govPc[v] = "locked" /\ govKind'[v] = govKind[v] /\ sawMeta'[v] = sawMeta[v]
             /\ govKind[v] \in Kinds \ {k}
      <4>1. ASSUME NEW v \in Curators, govPc'[v] = "locked"
            PROVE  v # w /\ govPc[v] = "locked" /\ govKind'[v] = govKind[v] /\ sawMeta'[v] = sawMeta[v]
        BY <1>5, <4>1, GovEnded DEF ReviewIssue
      <4>2. \A v \in Curators : v # w /\ govPc[v] = "locked" => govKind[v] \in Kinds \ {k}
        BY <2>1 DEF LockInv, GovTypeInv
      <4> QED
        BY <4>1, <4>2
    <3> QED
      BY <2>3, <3>1, SMTT(30) DEF LockInv
  <2>6. Chain(new.trail, new.status)
    <3>1. old.trail \in Seq(TrailEntry) /\ Chain(old.trail, old.status)
      BY <2>1, <2>4 DEF Issue, AuditChain, Chain
    <3> HIDE DEF new, old, entry, k
    <3>2. CASE k = "event" /\ entry.from = entry.to
      BY <2>3, <2>4, <3>1, <3>2, ConcatEmptySeq
    <3>3. CASE ~(k = "event" /\ entry.from = entry.to)
      BY <2>1, <2>3, <2>4, <3>1, <3>3, ChainGrows
    <3> QED
      BY <3>2, <3>3
  <2>7. ASSUME NEW j \in Kinds, issueRows'[j].status # "absent"
        PROVE  Chain(issueRows'[j].trail, issueRows'[j].status)
    <3>1. CASE j = k
      BY <2>6, <3>1
    <3>2. CASE j # k
      BY <2>3, <2>7, <3>2, SMTT(30) DEF AuditChain, Chain
    <3> QED
      BY <3>1, <3>2
  <2>8. AuditChain'
    BY <2>7, Zenon DEF AuditChain, Chain
  <2> QED
    BY <2>5, <2>8
<1> QED
  BY <1>1, <1>2, <1>3, <1>4, <1>5, GovCases

-----------------------------------------------------------------------------
(* Counts.                                                                 *)

\* What can be counted.
Counted == Kinds \ {"event"}

\* A scan counts on from what it has loaded, once for every sighting; nothing else counts.
LEMMA CountActs ==
  ASSUME GovTypeInv, NEW w \in Curators, GovAct(w), NEW k \in Counted
  PROVE  \/ /\ issueRows'[k].count = issueRows[k].count /\ sightings'[k] = sightings[k]
         \/ /\ issueRows'[k].count = sawCount[w][k] + 1 /\ sightings'[k] = sightings[k] + 1
            /\ CountsOn(w) /\ ((Persist(w) /\ found[w] # {}) \/ Aggregate(w))
<1>k. /\ k \in Kinds /\ k # "event" /\ issueRows[k] \in Issue /\ sawCount[w][k] \in Nat
      /\ DOMAIN issueRows = Kinds /\ DOMAIN sightings = Kinds
  BY DEF Counted, GovTypeInv
<1>n. NewIssue.count = 1
  BY DEF NewIssue, BareIssue
<1>s. ASSUME NEW issue \in Issue, NEW n PROVE Sighted(issue, n).count = n + 1
  BY DEF Sighted, Issue
<1>1. CASE Persist(w)
  <2>1. /\ issueRows'[k] = IF k \notin found[w] THEN issueRows[k]
                           ELSE IF sawCount[w][k] = 0 THEN NewIssue
                           ELSE Sighted(issueRows[k], sawCount[w][k])
        /\ sightings'[k] = IF k \in found[w] THEN sightings[k] + 1 ELSE sightings[k]
    BY <1>1, <1>k, Zenon DEF Persist
  <2>2. CountsOn(w)
    BY <1>1, Zenon DEF Persist, CountsOn
  <2> HIDE DEF NewIssue, Sighted, Issue
  <2> QED
    BY <1>1, <1>k, <1>n, <1>s, <2>1, <2>2
<1>2. CASE Emit(w)
  <2>1. \/ UNCHANGED issueRows
        \/ issueRows' = [issueRows EXCEPT !["event"] =
                            IF issueRows["event"].status = "absent" THEN NewIssue
                            ELSE issueRows["event"]]
    BY <1>2, Zenon DEF Emit
  <2>2. UNCHANGED sightings
    BY <1>2, Zenon DEF Emit
  <2> QED
    BY <1>k, <2>1, <2>2
<1>3. CASE Aggregate(w)
  <2> DEFINE q == "quality_low"
             seen == sawCount[w][q]
  <2>1. \/ UNCHANGED <<issueRows, sightings>>
        \/ /\ issueRows' = [issueRows EXCEPT ![q] =
                            IF seen = 0 THEN NewIssue ELSE Sighted(issueRows[q], seen)]
           /\ sightings' = [sightings EXCEPT ![q] = sightings[q] + 1]
    BY <1>3, Zenon DEF Aggregate
  <2>2. CountsOn(w)
    BY <1>3, Zenon DEF Aggregate, CountsOn
  <2> HIDE DEF NewIssue, Sighted, Issue
  <2> QED
    BY <1>3, <1>k, <1>n, <1>s, <2>1, <2>2
<1>4. CASE ReviewIssue(w)
  <2>1. /\ UNCHANGED sightings /\ govKind[w] \in Kinds
        /\ \E to, trail : issueRows' = [issueRows EXCEPT ![govKind[w]].status = to,
                                                       ![govKind[w]].trail = trail]
    BY <1>4 DEF ReviewIssue, govHistory, GovTypeInv
  <2>2. issueRows[govKind[w]] \in Issue
    BY <2>1 DEF GovTypeInv
  <2> QED
    BY <1>k, <2>1, <2>2 DEF Issue
<1>5. CASE \/ GovOpen(w) \/ Upsert(w) \/ UpsertRefused(w) \/ PersistRefused(w) \/ EmitNothing(w)
           \/ LockIssue(w)
  <2>1. UNCHANGED <<issueRows, sightings>>
    BY <1>5, Zenon DEF GovOpen, Upsert, UpsertRefused, PersistRefused, EmitNothing, LockIssue,
       govRows, govHistory
  <2> QED
    BY <2>1
<1> QED
  BY <1>1, <1>2, <1>3, <1>4, <1>5 DEF GovAct

\* A worker keeps the counts it has loaded, forgets them or loads those of now.
LEMMA SeenActs ==
  ASSUME GovTypeInv, NEW w \in Curators, GovAct(w)
  PROVE  \/ sawCount'[w] = sawCount[w]
         \/ sawCount'[w] = [k \in Kinds |-> 0] /\ govPc'[w] = "idle"
         \/ sawCount'[w] = Counts
<1>1. CASE GovDone(w)
  BY <1>1, GovEnded
<1>2. CASE GovOpen(w)
  <2>1. UNCHANGED sawCount \/ sawCount' = [sawCount EXCEPT ![w] = Counts]
    BY <1>2, Zenon DEF GovOpen
  <2> HIDE DEF Counts
  <2> QED
    BY <2>1 DEF GovTypeInv
<1>3. CASE Emit(w) \/ EmitNothing(w)
  <2>1. AfterEmit(w)
    BY <1>3, Zenon DEF Emit, EmitNothing
  <2>2. CASE UNCHANGED sawCount \/ sawCount' = [sawCount EXCEPT ![w] = Counts]
    <3> HIDE DEF Counts
    <3> QED
      BY <2>2 DEF GovTypeInv
  <2> QED
    BY <1>1, <2>1, <2>2, GovEmitted
<1>4. CASE UpsertRefused(w) \/ PersistRefused(w) \/ Aggregate(w) \/ ReviewIssue(w)
  BY <1>1, <1>4, Zenon DEF UpsertRefused, PersistRefused, Aggregate, ReviewIssue
<1>5. CASE Upsert(w) \/ Persist(w) \/ LockIssue(w)
  BY <1>5, Zenon DEF Upsert, Persist, LockIssue
<1> QED
  BY <1>2, <1>3, <1>4, <1>5 DEF GovAct

\* The mode is chosen at the start.
LEMMA GovModeKept ==
  ASSUME [GovernanceNext]_govVars
  PROVE  govAlone' = govAlone /\ dryRun' = dryRun
BY GovCases, Zenon DEF GovAct, govVars, govMode, GovTick, CleanUp, Execute, ParseAgain, GovRestart,
   GovOpen, Upsert, UpsertRefused, Persist, PersistRefused, Emit, EmitNothing, Aggregate, LockIssue,
   ReviewIssue

\* A step of no worker leaves the issues and their history alone.
LEMMA GovQuietStep ==
  ASSUME \/ UNCHANGED govVars \/ GovTick \/ CleanUp \/ Execute \/ ParseAgain \/ GovRestart
  PROVE  /\ UNCHANGED <<meta, issueRows, sightings>>
         /\ \/ UNCHANGED <<govPc, govOp, sawMeta, sawCount, found>>
            \/ /\ govPc' = [w \in Curators |-> "idle"]
               /\ sawCount' = [w \in Curators |-> [k \in Kinds |-> 0]]
BY Zenon DEF govVars, govRows, govWork, govHistory, GovTick, CleanUp, Execute, ParseAgain,
   GovRestart

\* No issue is counted more often than it was seen; exactly as often while nothing overlaps.
LEMMA CountStep ==
  ASSUME GovTypeInv, SeenInv, CountsSightings, GovAloneInv, [GovernanceNext]_govVars
  PROVE  SeenInv' /\ CountsSightings'
<1>m. govAlone' = govAlone
  BY GovModeKept
<1>t. /\ \A k \in Counted : issueRows[k].count \in Nat /\ sightings[k] \in Nat
      /\ \A w \in Curators, k \in Counted : sawCount[w][k] \in Nat /\ sawCount[w][k] <= sightings[k]
      /\ \A k \in Counted : /\ issueRows[k].count <= sightings[k]
                            /\ govAlone => issueRows[k].count = sightings[k]
      /\ Counted \subseteq Kinds
  BY DEF GovTypeInv, Issue, Counted, SeenInv, CountsSightings
<1>1. CASE \/ UNCHANGED govVars \/ GovTick \/ CleanUp \/ Execute \/ ParseAgain \/ GovRestart
  <2>1. UNCHANGED <<issueRows, sightings>>
    BY <1>1, GovQuietStep
  <2>2. \A w \in Curators, k \in Counted : sawCount'[w][k] = sawCount[w][k] \/ sawCount'[w][k] = 0
    BY <1>1, <1>t, GovQuietStep
  <2>3. SeenInv'
    BY <1>t, <2>1, <2>2 DEF SeenInv, Counted
  <2> QED
    BY <1>m, <2>1, <2>3 DEF CountsSightings
<1>2. ASSUME NEW w \in Curators, GovAct(w)
      PROVE  SeenInv' /\ CountsSightings'
  <2>1. ASSUME NEW k \in Counted
        PROVE  /\ issueRows'[k].count <= sightings'[k]
               /\ sightings[k] <= sightings'[k]
               /\ govAlone => issueRows'[k].count = sightings'[k]
    <3>1. CASE issueRows'[k].count = issueRows[k].count /\ sightings'[k] = sightings[k]
      BY <1>t, <3>1
    <3>2. CASE /\ issueRows'[k].count = sawCount[w][k] + 1 /\ sightings'[k] = sightings[k] + 1
               /\ CountsOn(w)
      <4>1. govAlone => sawCount[w][k] = issueRows[k].count
        BY <3>2 DEF GovAloneInv, Counted
      <4> HIDE DEF CountsOn
      <4> QED
        BY <1>t, <3>2, <4>1
    <3> QED
      BY <1>2, <3>1, <3>2, CountActs
  <2>2. ASSUME NEW v \in Curators, NEW k \in Counted
        PROVE  sawCount'[v][k] <= sightings'[k]
    <3>1. sightings'[k] \in Nat
      BY <1>2, <1>t, CountActs
    <3>2. CASE sawCount'[v] = sawCount[v]
      BY <1>t, <2>1, <3>1, <3>2
    <3>3. CASE sawCount'[v] = [j \in Kinds |-> 0]
      BY <1>t, <3>1, <3>3
    <3>4. CASE sawCount'[v] = Counts
      <4>1. sawCount'[v][k] = issueRows[k].count
        BY <1>t, <3>4 DEF Counts
      <4> QED
        BY <1>t, <2>1, <3>1, <4>1
    <3> QED
      BY <1>2, <3>2, <3>3, <3>4, SeenActs, GovOthers
  <2>3. SeenInv'
    BY <2>2 DEF SeenInv, Counted
  <2> QED
    BY <1>m, <2>1, <2>3 DEF CountsSightings, Counted
<1> QED
  BY <1>1, <1>2, GovCases

-----------------------------------------------------------------------------
(* One worker at a time.                                                   *)

\* Who works goes on, except who begins while all are idle.
LEMMA AloneActs ==
  ASSUME GovTypeInv, GovAloneInv, govAlone, NEW w \in Curators, GovAct(w)
  PROVE  \A v \in Curators \ {w} : govPc[v] = "idle" /\ govPc'[v] = "idle"
<1>1. CASE govPc[w] # "idle"
  BY <1>1, GovOthers DEF GovAloneInv
<1>2. CASE govPc[w] = "idle"
  <2>1. GovOpen(w) \/ LockIssue(w)
    BY <1>2 DEF GovAct, Upsert, UpsertRefused, Persist, PersistRefused, Emit, EmitNothing,
       Aggregate, ReviewIssue
  <2>2. \A v \in Curators : govPc[v] = "idle"
    BY <2>1, Zenon DEF GovOpen, LockIssue
  <2> QED
    BY <2>2, GovOthers
<1> QED
  BY <1>1, <1>2

\* Whoever is about to count has loaded the counts that the issues have.
LEMMA CountsOnActs ==
  ASSUME GovTypeInv, GovAloneInv, govAlone, NEW w \in Curators, GovAct(w), CountsOn(w)',
         NEW k \in Counted
  PROVE  sawCount'[w][k] = issueRows'[k].count
<1>k. k \in Kinds
  BY DEF Counted
<1>c. Counts[k] = issueRows[k].count
  BY <1>k DEF Counts
<1>i. govPc'[w] # "idle" /\ govPc'[w] # "locked"
  BY DEF CountsOn
<1>d. ~GovDone(w)
  BY <1>i, GovEnded
<1>1. CASE GovOpen(w)
  <2>1. UNCHANGED issueRows /\ govPc' = [govPc EXCEPT ![w] = "loaded"]
    BY <1>1, Zenon DEF GovOpen, govRows, GovStep
  <2>2. govPc'[w] = "loaded"
    BY <2>1 DEF GovTypeInv
  <2>3. govOp'[w] = "scan"
    BY <2>2 DEF CountsOn
  <2>4. govOp' # [govOp EXCEPT ![w] = "upsert"]
    BY <2>3 DEF GovTypeInv
  <2>5. sawCount' = [sawCount EXCEPT ![w] = Counts]
    BY <1>1, <2>4, Zenon DEF GovOpen
  <2> HIDE DEF Counts
  <2>6. sawCount'[w] = Counts
    BY <2>5 DEF GovTypeInv
  <2> QED
    BY <1>c, <2>1, <2>6
<1>2. CASE Upsert(w)
  <2>1. govPc' = [govPc EXCEPT ![w] = "emit"] /\ govOp'[w] = "upsert"
    BY <1>2, Zenon DEF Upsert, GovStep
  <2> QED
    BY <2>1 DEF CountsOn, GovTypeInv
<1>3. CASE Persist(w)
  <2>1. /\ govPc[w] = "loaded" /\ govOp[w] = "scan" /\ govPc' = [govPc EXCEPT ![w] = "emit"]
        /\ UNCHANGED <<govOp, sawCount, found>>
    BY <1>3, Zenon DEF Persist, GovStep
  <2>2. found[w] = {}
    BY <2>1 DEF CountsOn, GovTypeInv
  <2>3. issueRows'[k].count = issueRows[k].count
    BY <1>3, <2>1, <2>2, CountActs, Zenon DEF Aggregate
  <2>4. sawCount[w][k] = issueRows[k].count
    BY <2>1 DEF GovAloneInv, CountsOn, Counted
  <2> QED
    BY <2>1, <2>3, <2>4
<1>4. CASE Emit(w) \/ EmitNothing(w)
  <2>1. govPc[w] = "emit" /\ AfterEmit(w)
    BY <1>4, Zenon DEF Emit, EmitNothing
  <2>2. /\ govOp[w] # "upsert"
        /\ sawCount' = IF found[w] = {} THEN sawCount ELSE [sawCount EXCEPT ![w] = Counts]
    BY <1>d, <2>1, GovEmitted
  <2>3. issueRows'[k].count = issueRows[k].count
    BY <2>1, CountActs, Zenon DEF Persist, Aggregate
  <2>4. CASE found[w] = {}
    <3>1. sawCount[w][k] = issueRows[k].count
      BY <2>1, <2>2, <2>4 DEF GovAloneInv, CountsOn, Counted
    <3> QED
      BY <2>2, <2>3, <2>4, <3>1
  <2>5. CASE found[w] # {}
    <3>1. sawCount' = [sawCount EXCEPT ![w] = Counts]
      BY <2>2, <2>5
    <3> HIDE DEF Counts
    <3>2. sawCount'[w] = Counts
      BY <3>1 DEF GovTypeInv
    <3> QED
      BY <1>c, <2>3, <3>2
  <2> QED
    BY <2>4, <2>5
<1>5. CASE LockIssue(w)
  <2>1. govPc' = [govPc EXCEPT ![w] = "locked"]
    BY <1>5, Zenon DEF LockIssue, GovStep
  <2> QED
    BY <1>i, <2>1 DEF GovTypeInv
<1>6. CASE UpsertRefused(w) \/ PersistRefused(w) \/ Aggregate(w) \/ ReviewIssue(w)
  BY <1>d, <1>6, Zenon DEF UpsertRefused, PersistRefused, Aggregate, ReviewIssue
<1> QED
  BY <1>1, <1>2, <1>3, <1>4, <1>5, <1>6 DEF GovAct

\* Only a request changes the metadata.
LEMMA MetaActs ==
  ASSUME GovTypeInv, NEW w \in Curators, GovAct(w), ~Upsert(w)
  PROVE  meta' = meta
BY Zenon DEF GovAct, GovOpen, UpsertRefused, Persist, PersistRefused, Emit, EmitNothing, Aggregate,
   LockIssue, ReviewIssue, govRows

\* Whoever has just loaded the metadata has them as they are.
LEMMA LoadedActs ==
  ASSUME GovTypeInv, NEW w \in Curators, GovAct(w), govPc'[w] = "loaded"
  PROVE  sawMeta'[w] = meta'
<1>1. GovOpen(w)
  <2>1. ~GovDone(w)
    BY GovEnded
  <2>2. ~(Upsert(w) \/ Persist(w))
    <3>1. govPc' # [govPc EXCEPT ![w] = "emit"]
      BY DEF GovTypeInv
    <3> QED
      BY <3>1, Zenon DEF Upsert, Persist, GovStep
  <2>3. ~(Emit(w) \/ EmitNothing(w))
    <3>1. govPc' # [govPc EXCEPT ![w] = "quality"]
      BY DEF GovTypeInv
    <3> QED
      BY <2>1, <3>1, GovEmitted, Zenon DEF Emit, EmitNothing
  <2>4. ~LockIssue(w)
    <3>1. govPc' # [govPc EXCEPT ![w] = "locked"]
      BY DEF GovTypeInv
    <3> QED
      BY <3>1, Zenon DEF LockIssue, GovStep
  <2>5. ~(UpsertRefused(w) \/ PersistRefused(w) \/ Aggregate(w) \/ ReviewIssue(w))
    BY <2>1, Zenon DEF UpsertRefused, PersistRefused, Aggregate, ReviewIssue
  <2> QED
    BY <2>2, <2>3, <2>4, <2>5 DEF GovAct
<1>2. UNCHANGED meta /\ sawMeta' = [sawMeta EXCEPT ![w] = meta]
  BY <1>1, Zenon DEF GovOpen, govRows
<1> QED
  BY <1>2 DEF GovTypeInv

\* Without overlap whoever works does so on the rows as they are.
LEMMA GovAloneStep ==
  ASSUME GovTypeInv, GovAloneInv, [GovernanceNext]_govVars
  PROVE  GovAloneInv'
<1>1. SUFFICES ASSUME govAlone PROVE GovAloneInv'
  BY GovModeKept DEF GovAloneInv
<1>2. CASE \/ UNCHANGED govVars \/ GovTick \/ CleanUp \/ Execute \/ ParseAgain \/ GovRestart
  <2>1. UNCHANGED <<meta, issueRows>>
    BY <1>2, GovQuietStep
  <2>2. CASE UNCHANGED <<govPc, govOp, sawMeta, sawCount, found>>
    BY <1>1, <2>1, <2>2, GovModeKept DEF GovAloneInv, CountsOn
  <2>3. CASE govPc' = [w \in Curators |-> "idle"]
    BY <2>3 DEF GovAloneInv, CountsOn
  <2> QED
    BY <1>2, <2>2, <2>3, GovQuietStep
<1>3. ASSUME NEW w \in Curators, GovAct(w) PROVE GovAloneInv'
  <2>1. \A v \in Curators : v # w => govPc'[v] = "idle"
    BY <1>1, <1>3, AloneActs
  <2>2. \A v \in Curators : govPc'[v] = "loaded" => sawMeta'[v] = meta'
    BY <1>3, <2>1, LoadedActs
  <2>3. \A v \in Curators : CountsOn(v)' => v = w
    BY <2>1 DEF CountsOn
  <2>4. \A v \in Curators : CountsOn(v)' =>
           \A k \in Counted : sawCount'[v][k] = issueRows'[k].count
    BY <1>1, <1>3, <2>3, CountsOnActs
  <2>5. \A v, x \in Curators : govPc'[v] # "idle" /\ govPc'[x] # "idle" => v = x
    BY <2>1
  <2> QED
    BY <2>2, <2>4, <2>5, Zenon DEF GovAloneInv, Counted
<1> QED
  BY <1>2, <1>3, GovCases

\* A request alone writes the row it has checked.
LEMMA DatesStep ==
  ASSUME GovTypeInv, GovAloneInv, DatesInOrder, [GovernanceNext]_govVars
  PROVE  DatesInOrder'
<1>1. SUFFICES ASSUME govAlone PROVE WellFormed(meta')
  BY GovModeKept DEF DatesInOrder
<1>2. CASE meta' = meta
  BY <1>1, <1>2 DEF DatesInOrder
<1>3. ASSUME NEW w \in Curators, Upsert(w) PROVE WellFormed(meta')
  <2>1. sawMeta[w] = meta
    BY <1>1, <1>3 DEF Upsert, GovAloneInv
  <2>2. PICK new : /\ WellFormed(new)
                   /\ meta' = IF meta = NoMeta THEN new ELSE Flushed(meta, meta, new)
    BY <1>3, <2>1, Zenon DEF Upsert
  <2>3. CASE meta = NoMeta
    BY <2>2, <2>3
  <2>4. CASE meta # NoMeta
    <3>1. {"perm", "until", "from"} \subseteq DOMAIN meta
      BY DEF GovTypeInv, Columns, NoMeta
    <3>2. meta' = [c \in DOMAIN meta |-> IF new[c] = meta[c] THEN meta[c] ELSE new[c]]
      BY <2>2, <2>4, Zenon DEF Flushed
    <3>3. meta'.perm = new.perm /\ meta'.until = new.until /\ meta'.from = new.from
      BY <3>1, <3>2
    <3> QED
      BY <2>2, <3>3 DEF WellFormed
  <2> QED
    BY <2>3, <2>4
<1> QED
  BY <1>2, <1>3, MetaActs, GovQuietStep, GovCases

-----------------------------------------------------------------------------
(* The clean-up of the index.                                              *)

\* A request that is about to say whether its document is blocked.
Telling(w) == govPc[w] = "emit" /\ govOp[w] = "upsert"

\* What leaves the document in the index, or takes it out, by order of somebody.
LEMMA OrderedStep ==
  ASSUME GovTypeInv, CleanInv, [GovernanceNext]_govVars
  PROVE  /\ cleanups' > 0 => cleanupOrdered'
         /\ ~indexed' => byHand' \/ (cleanupOrdered' /\ ~dryRun')
<1>t. cleanups \in Nat /\ dryRun' = dryRun
  BY GovModeKept DEF GovTypeInv
<1>1. CASE UNCHANGED govVars \/ GovTick
  <2>1. UNCHANGED <<cleanups, cleanupOrdered, indexed, byHand>>
    BY <1>1, Zenon DEF govVars, GovTick, govRows, govHistory
  <2> QED
    BY <1>t, <2>1 DEF CleanInv
<1>2. CASE CleanUp
  <2>1. /\ cleanups > 0 /\ cleanups' = cleanups - 1 /\ (indexed' = indexed \/ ~dryRun)
        /\ UNCHANGED <<cleanupOrdered, byHand>>
    BY <1>2, Zenon DEF CleanUp, govHistory
  <2> QED
    BY <1>t, <2>1 DEF CleanInv
<1>3. CASE Execute
  BY <1>3, <1>t DEF Execute, CleanInv
<1>4. CASE ParseAgain
  BY <1>4, <1>t DEF ParseAgain, CleanInv
<1>5. CASE GovRestart
  <2>1. cleanups' = 0 /\ UNCHANGED <<indexed, cleanupOrdered, byHand>>
    BY <1>5, Zenon DEF GovRestart, govHistory
  <2> QED
    BY <1>t, <2>1 DEF CleanInv
<1>6. ASSUME NEW w \in Curators, GovAct(w)
      PROVE  /\ UNCHANGED <<indexed, byHand>>
             /\ \/ UNCHANGED <<cleanups, cleanupOrdered>>
                \/ cleanups' = cleanups + 1 /\ cleanupOrdered' = TRUE
  <2>1. CASE Emit(w)
    BY <2>1, Zenon DEF Emit
  <2>2. CASE ~Emit(w)
    BY <1>6, <2>2, Zenon DEF GovAct, GovOpen, Upsert, UpsertRefused, Persist, PersistRefused,
       EmitNothing, Aggregate, LockIssue, ReviewIssue, govRows, govHistory
  <2> QED
    BY <2>1, <2>2
<1>7. ASSUME NEW w \in Curators, GovAct(w)
      PROVE  /\ cleanups' > 0 => cleanupOrdered'
             /\ ~indexed' => byHand' \/ (cleanupOrdered' /\ ~dryRun')
  BY <1>6, <1>7, <1>t DEF CleanInv
<1> QED
  BY <1>1, <1>2, <1>3, <1>4, <1>5, <1>7, GovCases

\* A document that is blocked now is cleaned, will be, or somebody is about to tell.
LEMMA BlockedStep ==
  ASSUME GovTypeInv, CleanInv, [GovernanceNext]_govVars,
         ~dryRun, govFaults' = 0, ~parsedAgain', meta'.status \in BLOCKED_VERSION_STATUSES
  PROVE  ~indexed' \/ cleanups' > 0 \/ \E w \in Curators : Telling(w)'
<1>t. cleanups \in Nat /\ govFaults \in Nat
  BY DEF GovTypeInv
<1>f. ~GovFails /\ govFaults = 0 /\ ~parsedAgain
  <2>1. ~GovFails
    BY <1>t DEF GovFails
  <2>2. govFaults' = govFaults \/ GovFails
    BY GovCases, Zenon DEF GovAct, govVars, GovTick, CleanUp, Execute, ParseAgain, GovRestart, GovOpen,
       Upsert, UpsertRefused, Persist, PersistRefused, Emit, EmitNothing, Aggregate, LockIssue,
       ReviewIssue
  <2>3. parsedAgain' = parsedAgain \/ parsedAgain' = TRUE
    BY GovCases, Zenon DEF GovAct, govVars, govHistory, GovTick, CleanUp, Execute, ParseAgain,
       GovRestart, GovOpen, Upsert, UpsertRefused, Persist, PersistRefused, Emit, EmitNothing,
       Aggregate, LockIssue, ReviewIssue
  <2> QED
    BY <2>1, <2>2, <2>3
<1>i. meta.status \in BLOCKED_VERSION_STATUSES =>
         ~indexed \/ cleanups > 0 \/ \E w \in Curators : Telling(w)
  BY <1>f DEF CleanInv, Telling
<1>1. CASE UNCHANGED govVars \/ GovTick
  <2>1. UNCHANGED <<meta, cleanups, indexed, govPc, govOp>>
    BY <1>1, Zenon DEF govVars, GovTick, govRows, govWork
  <2> QED
    BY <1>i, <2>1 DEF Telling
<1>2. CASE CleanUp \/ Execute
  BY <1>2, <1>f, Zenon DEF CleanUp, Execute
<1>3. CASE ParseAgain \/ GovRestart
  BY <1>3, <1>f, Zenon DEF ParseAgain, GovRestart
<1>4. ASSUME NEW w \in Curators, Upsert(w) PROVE Telling(w)'
  <2>1. govPc' = [govPc EXCEPT ![w] = "emit"] /\ govOp'[w] = "upsert"
    BY <1>4, Zenon DEF Upsert, GovStep
  <2> QED
    BY <2>1 DEF Telling, GovTypeInv
<1>5. ASSUME NEW w \in Curators, Emit(w) PROVE cleanups' > 0
  BY <1>5, <1>t, <1>f DEF Emit
<1>6. ASSUME NEW w \in Curators, GovAct(w), ~Upsert(w), ~Emit(w)
      PROVE  ~indexed' \/ cleanups' > 0 \/ \E v \in Curators : Telling(v)'
  <2>1. UNCHANGED <<meta, cleanups, indexed>>
    BY <1>6, Zenon DEF GovAct, GovOpen, UpsertRefused, Persist, PersistRefused, EmitNothing,
       Aggregate, LockIssue, ReviewIssue, govRows
  <2>2. ~Telling(w)
    <3>1. CASE EmitNothing(w)
      BY <2>1, <3>1, Zenon DEF EmitNothing, Blocks, Telling
    <3>2. CASE ~EmitNothing(w)
      BY <1>6, <3>2 DEF GovAct, GovOpen, UpsertRefused, Persist, PersistRefused, Aggregate,
         LockIssue, ReviewIssue, Telling
    <3> QED
      BY <3>1, <3>2
  <2>3. \A v \in Curators : Telling(v) => Telling(v)'
    BY <1>6, <2>2, GovOthers DEF Telling
  <2> QED
    BY <1>i, <2>1, <2>3
<1> QED
  BY <1>1, <1>2, <1>3, <1>4, <1>5, <1>6, GovCases

-----------------------------------------------------------------------------
(* Theorems.                                                               *)

\* The invariant holds at the start ...
LEMMA GovInitially == GovernanceInit => GovInv
<1> SUFFICES ASSUME GovernanceInit PROVE GovInv
  OBVIOUS
<1>1. GovTypeInv
  BY GovTypesInit
<1>2. /\ \A k \in Kinds : issueRows[k] = BareIssue /\ sightings[k] = 0
      /\ \A w \in Curators : govPc[w] = "idle" /\ sawCount[w] = [k \in Kinds |-> 0]
      /\ meta = NoMeta /\ indexed /\ cleanups = 0
  BY DEF GovernanceInit
<1>3. LockInv /\ GovAloneInv
  BY <1>2 DEF LockInv, GovAloneInv, CountsOn
<1>4. AuditChain /\ CountsSightings /\ SeenInv
  BY <1>2 DEF AuditChain, CountsSightings, SeenInv, BareIssue
<1>5. DatesInOrder /\ CleanInv
  BY <1>2 DEF DatesInOrder, WellFormed, CleanInv, NoMeta, BLOCKED_VERSION_STATUSES
<1> QED
  BY <1>1, <1>3, <1>4, <1>5 DEF GovInv

\* ... and every step keeps it.
LEMMA GovInductive == GovInv /\ [GovernanceNext]_govVars => GovInv'
<1> SUFFICES ASSUME GovInv, [GovernanceNext]_govVars PROVE GovInv'
  OBVIOUS
<1>1. GovTypeInv' /\ LockInv' /\ AuditChain' /\ SeenInv' /\ CountsSightings'
  BY GovTypeStep, LockStep, CountStep DEF GovInv
<1>2. GovAloneInv' /\ DatesInOrder'
  BY GovAloneStep, DatesStep DEF GovInv
<1>3. CleanInv'
  <2>1. GovTypeInv /\ CleanInv
    BY DEF GovInv
  <2> QED
    BY <2>1, OrderedStep, BlockedStep, GovModeKept DEF CleanInv, Telling
<1> QED
  BY <1>1, <1>2, <1>3 DEF GovInv

\* For any number of requests, scans, sightings, restarts and lost clean-ups: the reviews of an
\* issue form an unbroken chain however they overlap with scans; an issue is never counted more
\* often than it was seen; requests that do not overlap leave the dates in order; and when all
\* has come to rest without a fault, a blocked document is out of the index.
THEOREM GovernancesKept == GovernanceSpec => []GovernanceKept
<1>1. ASSUME GovInv PROVE BlockedIsCleaned
  <2>1. CleanInv /\ cleanups \in Nat
    BY <1>1 DEF GovInv, GovTypeInv
  <2> QED
    BY <2>1 DEF BlockedIsCleaned, CleanInv, GovQuiet
<1>2. GovInv => GovernanceKept
  BY <1>1 DEF GovInv, GovernanceKept
<1> QED
  BY <1>2, GovInitially, GovInductive, PTL DEF GovernanceSpec

-----------------------------------------------------------------------------
(* Feedback and the regression set.                                        *)

VoteRows == [about : Disputed, tenant : FbTenants, vote : {"like", "dislike"},
             sources : BOOLEAN, madeUp : Verdicts, found : Labels]

Rates == {p \in Nat \X Nat : p[1] <= p[2]}

VotesInv ==
    /\ votes \in Seq(VoteRows)
    /\ \A i \in judging : i \in DOMAIN votes /\ votes[i].vote = "dislike"

\* The file that was cut short is taken for an empty one, and is whole until the first time.
GoldenInv ==
    /\ golden \in [readable : BOOLEAN, holds : Seq(Disputed)]
    /\ ~golden.readable => golden.holds = <<>>
    /\ tears \in Nat /\ (tears = 0 => golden.readable)

FeedbackInv ==
    /\ VotesInv /\ GoldenInv
    /\ GoldenOnce /\ GoldenForAWhile /\ JudgedIfDisliked
    /\ fixRate \in Rates /\ lastRate \in Rates

LEMMA VoteStep ==
  ASSUME FeedbackInv, NEW q \in Disputed, NEW t \in FbTenants, NEW vote \in {"like", "dislike"},
         NEW sources \in BOOLEAN, Vote(q, t, vote, sources)
  PROVE  FeedbackInv'
<1> DEFINE row == [about |-> q, tenant |-> t, vote |-> vote, sources |-> sources,
                   madeUp |-> "none", found |-> "none"]
<1>1. /\ VotesInv /\ GoldenInv /\ GoldenOnce /\ GoldenForAWhile /\ JudgedIfDisliked
      /\ fixRate \in Rates /\ lastRate \in Rates
      /\ votes' = Append(votes, row)
      /\ judging' = IF vote = "dislike" THEN judging \cup {Len(votes) + 1} ELSE judging
      /\ UNCHANGED <<golden, fixRate, lastRate, tears, everGolden>>
  BY DEF FeedbackInv, Vote
<1>2. row \in VoteRows
  BY DEF VoteRows, Verdicts, Labels
<1>3. row.vote = vote /\ row.madeUp = "none" /\ row.found = "none"
  OBVIOUS
<1> HIDE DEF row
<1>4. /\ votes' \in Seq(VoteRows) /\ DOMAIN votes' = DOMAIN votes \cup {Len(votes) + 1}
      /\ votes'[Len(votes) + 1] = row /\ \A i \in DOMAIN votes : votes'[i] = votes[i]
  BY <1>1, <1>2 DEF VotesInv
<1>5. VotesInv'
  BY <1>1, <1>3, <1>4 DEF VotesInv
<1>6. JudgedIfDisliked'
  BY <1>1, <1>3, <1>4, Zenon DEF JudgedIfDisliked
<1>7. GoldenInv' /\ GoldenOnce' /\ GoldenForAWhile'
  BY <1>1 DEF GoldenInv, GoldenOnce, GoldenForAWhile
<1> QED
  BY <1>1, <1>5, <1>6, <1>7 DEF FeedbackInv

LEMMA JudgeAnswerStep ==
  ASSUME FeedbackInv, NEW i, JudgeAnswer(i)
  PROVE  FeedbackInv'
<1>1. /\ VotesInv /\ GoldenInv /\ GoldenOnce /\ GoldenForAWhile /\ JudgedIfDisliked
      /\ fixRate \in Rates /\ lastRate \in Rates
      /\ i \in judging /\ judging' = judging \ {i}
      /\ UNCHANGED <<golden, fixRate, lastRate, tears, everGolden>>
  BY DEF FeedbackInv, JudgeAnswer
<1>2. GoldenInv' /\ GoldenOnce' /\ GoldenForAWhile'
  BY <1>1 DEF GoldenInv, GoldenOnce, GoldenForAWhile
<1>3. VotesInv' /\ JudgedIfDisliked'
  <2>1. CASE votes' = votes
    BY <1>1, <2>1 DEF VotesInv, JudgedIfDisliked
  <2>2. ASSUME NEW verdict \in Verdicts, NEW label \in Labels,
               label # "none" => votes[i].sources,
               votes' = [votes EXCEPT ![i].madeUp = verdict, ![i].found = label]
        PROVE  VotesInv' /\ JudgedIfDisliked'
    <3>1. votes \in Seq(VoteRows) /\ i \in DOMAIN votes /\ votes[i].vote = "dislike"
      BY <1>1 DEF VotesInv
    <3>2. votes[i] \in VoteRows
      BY <3>1
    <3> DEFINE row == [votes[i] EXCEPT !.madeUp = verdict, !.found = label]
    <3>3. row \in VoteRows
      BY <3>2 DEF VoteRows
    <3>4. /\ row.vote = votes[i].vote /\ row.sources = votes[i].sources
          /\ row.madeUp = verdict /\ row.found = label
      BY <3>2 DEF VoteRows
    <3>5. votes' = [votes EXCEPT ![i] = row]
      BY <2>2, <3>1, <3>2 DEF VoteRows
    <3> HIDE DEF row
    <3>6. /\ votes' \in Seq(VoteRows) /\ DOMAIN votes' = DOMAIN votes
          /\ votes'[i] = row /\ \A j \in DOMAIN votes \ {i} : votes'[j] = votes[j]
      BY <3>1, <3>3, <3>5
    <3>7. VotesInv'
      BY <1>1, <3>1, <3>4, <3>6 DEF VotesInv
    <3>8. ASSUME NEW j \in DOMAIN votes'
          PROVE  /\ votes'[j].madeUp # "none" \/ votes'[j].found # "none"
                        => votes'[j].vote = "dislike"
                 /\ votes'[j].found # "none" => votes'[j].sources
      <4>1. CASE j # i
        BY <1>1, <3>6, <4>1, Zenon DEF JudgedIfDisliked
      <4>2. CASE j = i
        <5>1. votes'[j].vote = "dislike"
          BY <3>1, <3>4, <3>6, <4>2
        <5>2. votes'[j].found # "none" => votes'[j].sources
          BY <2>2, <3>4, <3>6, <4>2, Zenon
        <5> QED
          BY <5>1, <5>2
      <4> QED
        BY <4>1, <4>2
    <3> QED
      BY <3>7, <3>8, Zenon DEF JudgedIfDisliked
  <2> QED
    BY <2>1, <2>2 DEF JudgeAnswer
<1> QED
  BY <1>1, <1>2, <1>3 DEF FeedbackInv

LEMMA MarkGoldenStep ==
  ASSUME FeedbackInv, NEW i, NEW t, MarkGolden(i, t)
  PROVE  FeedbackInv'
<1> DEFINE new == Append(GoldenNow, votes[i].about)
<1>1. /\ VotesInv /\ GoldenInv /\ GoldenOnce /\ GoldenForAWhile /\ JudgedIfDisliked
      /\ fixRate \in Rates /\ lastRate \in Rates
      /\ i \in DOMAIN votes /\ votes[i].about \notin Range(GoldenNow)
      /\ UNCHANGED <<votes, judging, fixRate, lastRate>>
  BY DEF FeedbackInv, MarkGolden, AlreadyThere
<1>2. VotesInv' /\ JudgedIfDisliked'
  BY <1>1 DEF VotesInv, JudgedIfDisliked
<1>3. /\ GoldenNow \in Seq(Disputed) /\ GoldenNow = golden.holds
      /\ votes[i].about \in Disputed
  <2>1. votes[i] \in VoteRows
    BY <1>1 DEF VotesInv
  <2>2. votes[i].about \in Disputed
    BY <2>1 DEF VoteRows
  <2> QED
    BY <1>1, <2>2 DEF GoldenInv, GoldenNow
<1>4. CASE golden' = [readable |-> TRUE, holds |-> new] /\ UNCHANGED tears
           /\ everGolden' = everGolden \cup Range(new)
  <2>1. /\ new \in Seq(Disputed) /\ DOMAIN new = DOMAIN golden.holds \cup {Len(golden.holds) + 1}
        /\ new[Len(golden.holds) + 1] = votes[i].about
        /\ \A j \in DOMAIN golden.holds : new[j] = golden.holds[j]
    BY <1>3
  <2> HIDE DEF new
  <2>2. golden'.holds = new /\ golden' \in [readable : BOOLEAN, holds : Seq(Disputed)]
        /\ golden'.readable
    BY <1>4, <2>1
  <2>3. GoldenInv'
    BY <1>1, <1>4, <2>2 DEF GoldenInv
  <2>4. GoldenOnce'
    BY <1>1, <1>3, <2>1, <2>2 DEF GoldenOnce, Range
  <2>5. Range(golden.holds) \subseteq Range(new)
    BY <2>1 DEF Range
  <2>6. GoldenForAWhile'
    BY <1>1, <1>4, <2>2, <2>5 DEF GoldenForAWhile
  <2> QED
    BY <1>1, <1>2, <2>3, <2>4, <2>6 DEF FeedbackInv
<1>5. CASE golden' = [readable |-> FALSE, holds |-> <<>>] /\ tears' = tears + 1
           /\ UNCHANGED everGolden
  <2>1. golden'.holds = <<>> /\ ~golden'.readable
        /\ golden' \in [readable : BOOLEAN, holds : Seq(Disputed)]
    BY <1>5
  <2>2. tears' \in Nat /\ tears' # 0
    BY <1>1, <1>5 DEF GoldenInv
  <2>3. GoldenInv'
    BY <2>1, <2>2 DEF GoldenInv
  <2>4. GoldenOnce' /\ GoldenForAWhile'
    BY <2>1, <2>2 DEF GoldenOnce, GoldenForAWhile
  <2> QED
    BY <1>1, <1>2, <2>3, <2>4 DEF FeedbackInv
<1> QED
  BY <1>4, <1>5 DEF MarkGolden

\* What is mended was disliked, and there are finitely many votes.
LEMMA MendedIsLess ==
  ASSUME VotesInv, NEW t
  PROVE  Rate(t) \in Rates
<1> DEFINE voters == {j \in DOMAIN votes : votes[j].vote = "dislike"}
           about == [j \in voters |-> votes[j].about]
<1>1. IsFiniteSet(voters)
  <2>1. IsFiniteSet(1..Len(votes)) /\ voters \subseteq 1..Len(votes)
    BY FS_Interval DEF VotesInv
  <2> QED
    BY <2>1, FS_Subset
<1>2. about \in Surjection(voters, Having("dislike"))
  BY DEF Surjection, Having
<1>3. IsFiniteSet(Having("dislike"))
  BY <1>1, <1>2, FS_Surjection
<1>4. Mended(t) \cap Having("like") \subseteq Having("dislike")
  BY DEF Mended
<1>5. /\ Cardinality(Mended(t) \cap Having("like")) \in Nat
      /\ Cardinality(Having("dislike")) \in Nat
      /\ Cardinality(Mended(t) \cap Having("like")) <= Cardinality(Having("dislike"))
  BY <1>3, <1>4, FS_Subset, FS_CardinalityType
<1> QED
  BY <1>5 DEF Rate, Rates, NoRate

LEMMA SetFixRateStep ==
  ASSUME FeedbackInv, SetFixRate
  PROVE  FeedbackInv'
<1>1. /\ VotesInv /\ GoldenInv /\ GoldenOnce /\ GoldenForAWhile /\ JudgedIfDisliked
      /\ fixRate \in Rates /\ lastRate \in Rates
      /\ UNCHANGED <<votes, judging, golden, tears, everGolden>>
  BY DEF FeedbackInv, SetFixRate
<1>2. lastRate' \in Rates /\ fixRate' \in Rates
  BY <1>1, MendedIsLess DEF SetFixRate
<1> QED
  BY <1>1, <1>2 DEF FeedbackInv, VotesInv, GoldenInv, GoldenOnce, GoldenForAWhile,
                    JudgedIfDisliked

\* The matrix counts what is listed: a made-up answer is one that is judged, of which little
\* was found.
LEMMA MatrixAgreesAlways ==
  ASSUME VotesInv
  PROVE  MatrixAgrees
<1>1. ASSUME NEW t \in FbTenants, NEW i \in DOMAIN votes
      PROVE  (i \in Judged(t) /\ Cell(i) = "made_up") <=> (Suspicious(i) /\ votes[i].tenant = t)
  <2>1. votes[i] \in VoteRows
    BY DEF VotesInv
  <2>2. votes[i].found \in Labels
    BY <2>1 DEF VoteRows
  <2> QED
    BY <2>2 DEF Judged, Cell, Suspicious, Labels
<1>2. \A t \in FbTenants : Judged(t) \subseteq DOMAIN votes
  BY DEF Judged
<1> QED
  BY <1>1, <1>2, Zenon DEF MatrixAgrees

\* What is said of the votes, the regression set and the gauge holds for any questions,
\* tenants and bounds: the invariant adds that a file that was cut short counts as empty.
THEOREM FeedbackStaysKept == FeedbackSpec => []FeedbackKept
<1>1. FeedbackInit => FeedbackInv
  BY DEF FeedbackInit, FeedbackInv, VotesInv, GoldenInv, GoldenOnce, GoldenForAWhile, Range,
         JudgedIfDisliked, Rates, NoRate
<1>2. FeedbackInv /\ [FeedbackNext]_feedbackVars => FeedbackInv'
  <2> SUFFICES ASSUME FeedbackInv, [FeedbackNext]_feedbackVars PROVE FeedbackInv'
    OBVIOUS
  <2>1. CASE \E q \in Disputed, t \in FbTenants, s \in BOOLEAN :
               Vote(q, t, "like", s) \/ Vote(q, t, "dislike", s)
    BY <2>1, VoteStep
  <2>2. CASE \E i \in 1..MaxVotes : JudgeAnswer(i)
    BY <2>2, JudgeAnswerStep
  <2>3. CASE \E i \in 1..MaxVotes, t \in FbTenants : MarkGolden(i, t)
    BY <2>3, MarkGoldenStep
  <2>4. CASE SetFixRate
    BY <2>4, SetFixRateStep
  <2>5. ASSUME UNCHANGED <<votes, judging, golden, fixRate, lastRate, tears, everGolden>>
        PROVE  FeedbackInv'
    BY <2>5 DEF FeedbackInv, VotesInv, GoldenInv, GoldenOnce, GoldenForAWhile, JudgedIfDisliked
  <2> QED
    BY <2>1, <2>2, <2>3, <2>4, <2>5 DEF FeedbackNext, Mend, MakeReport, feedbackVars
<1>3. FeedbackInv => FeedbackKept
  BY MatrixAgreesAlways DEF FeedbackInv, FeedbackKept, RateIsARate, Rates
<1> QED
  BY <1>1, <1>2, <1>3, PTL DEF FeedbackSpec

-----------------------------------------------------------------------------
(* The reports.                                                            *)

RowsOfReports ==
    [status : {"none", "generating", "gone"} \cup Concluded, type : Types, by : Creators,
     sections : Nat, text : Nat, error : BOOLEAN]
Copies == [of : 0..MaxReports, saw : RowsOfReports, begun : BOOLEAN]

ReportTypes ==
    /\ reports \in [ReportIds -> RowsOfReports]
    /\ readers \in [Readers -> Copies]
    /\ writings \in Seq(Copies)

\* A copy is of a report that had been asked for, whoever asked.
SameReport(now, saw) ==
    /\ now.status # "none"
    /\ now.status = "gone" \/ (now.by = saw.by /\ now.type = saw.type)

\* Who wants a report made again knows how it ended; who writes one has read it after it was
\* asked for.
CopyInv ==
    /\ \A c \in Readers : readers[c].of # 0 =>
          /\ readers[c].saw.status \in Concluded
          /\ <<readers[c].of, readers[c].saw.status>> \in notices
          /\ SameReport(reports[readers[c].of], readers[c].saw)
    /\ \A w \in DOMAIN writings :
          /\ writings[w].of # 0 => reports[writings[w].of].status # "none"
          /\ writings[w].begun =>
                /\ writings[w].of # 0
                /\ writings[w].saw.status \in {"generating"} \cup Concluded
                /\ SameReport(reports[writings[w].of], writings[w].saw)

\* A report in work has a writing that is going to end it.
WorkedOnInv ==
    \A r \in ReportIds :
        reports[r].status = "generating" /\ r \notin unfinished =>
            \E w \in DOMAIN writings :
                /\ writings[w].of = r
                /\ writings[w].begun => writings[w].saw.status = "generating"

\* Who writes a report alone has the row as it is.
WritesAlone(w) ==
    LET row == reports[writings[w].of] IN
    /\ \A v \in DOMAIN writings : writings[v].of = writings[w].of => v = w
    /\ row.status = "gone" \/ (row.status = "generating" /\ ~row.error)
    /\ row.status # "gone" /\ writings[w].begun => writings[w].saw = row

AloneInv ==
    writtenAlone => \A w \in DOMAIN writings : writings[w].of # 0 => WritesAlone(w)

\* The loop has counted before it creates, and people create other reports.
Unnoticed ==
    {r \in ReportIds : /\ reports[r].by = "system" /\ reports[r].status = "generating"
                       /\ \A s \in Concluded : <<r, s>> \notin notices}
LoopInv ==
    /\ \A r \in ReportIds : reports[r].by = "system" /\ reports[r].status \notin {"none", "gone"}
                                => reports[r].type \in AutoTypes
    /\ \A r, q \in Unnoticed : r = q
    /\ loopCounted => Unnoticed = {}

RowsInv ==
    /\ ReportTypes /\ CopyInv /\ WorkedOnInv /\ AloneInv /\ LoopInv
    /\ FinishedIsWhole /\ AskersKnow

LEMMA SameRow ==
  ASSUME NEW a \in RowsOfReports, NEW b \in RowsOfReports,
         a.status = b.status, a.type = b.type, a.by = b.by, a.sections = b.sections,
         a.text = b.text, a.error = b.error
  PROVE  a = b
BY DEF RowsOfReports

LEMMA FlushedReport ==
  ASSUME NEW now \in RowsOfReports, NEW read \in RowsOfReports, NEW new \in RowsOfReports
  PROVE  LET row == Flushed(now, read, new) IN
         /\ row \in RowsOfReports
         /\ row.status = IF new.status = read.status THEN now.status ELSE new.status
         /\ row.type = IF new.type = read.type THEN now.type ELSE new.type
         /\ row.by = IF new.by = read.by THEN now.by ELSE new.by
         /\ row.sections = IF new.sections = read.sections THEN now.sections ELSE new.sections
         /\ row.text = IF new.text = read.text THEN now.text ELSE new.text
         /\ row.error = IF new.error = read.error THEN now.error ELSE new.error
BY DEF Flushed, RowsOfReports

\* A row nobody changed meanwhile becomes what was made of it.
LEMMA FlushedUnchanged ==
  ASSUME NEW now \in RowsOfReports, NEW new \in RowsOfReports
  PROVE  Flushed(now, now, new) = new
BY DEF Flushed, RowsOfReports

LEMMA BlankReports ==
  /\ NoReport \in RowsOfReports /\ NoReport.status = "none" /\ ~NoReport.error
  /\ AtRest \in Copies /\ AtRest.of = 0 /\ ~AtRest.begun
BY ReportAssumption DEF NoReport, RowsOfReports, AtRest, Copies, Types, Creators, Nothing

LEMMA CopiesTyped ==
  ASSUME ReportTypes
  PROVE  /\ \A r \in ReportIds : reports[r] \in RowsOfReports
         /\ \A c \in Readers : readers[c] \in Copies /\ readers[c].saw \in RowsOfReports
                                  /\ (readers[c].of # 0 => readers[c].of \in ReportIds)
         /\ \A w \in DOMAIN writings :
               writings[w] \in Copies /\ writings[w].saw \in RowsOfReports
                  /\ writings[w].begun \in BOOLEAN
                  /\ (writings[w].of # 0 => writings[w].of \in ReportIds)
<1>1. \A x \in Copies : /\ x.saw \in RowsOfReports /\ x.begun \in BOOLEAN
                        /\ x.of # 0 => x.of \in ReportIds
  BY ReportAssumption DEF Copies, ReportIds
<1>2. \A w \in DOMAIN writings : writings[w] \in Copies
  BY DEF ReportTypes
<1>3. \A c \in Readers : readers[c] \in Copies
  BY DEF ReportTypes
<1> QED
  BY <1>1, <1>2, <1>3 DEF ReportTypes

\* A report keeps its creator and its type, and what is gone stays gone.
Lasts(q) ==
    /\ reports[q].status # "none" => reports'[q].status # "none"
    /\ reports[q].status = "gone" => reports'[q].status = "gone"
    /\ reports[q].status # "none" /\ reports'[q].status # "gone" =>
          reports'[q].by = reports[q].by /\ reports'[q].type = reports[q].type

LEMMA CopyStep ==
  ASSUME ReportTypes, CopyInv, notices \subseteq notices',
         \A q \in ReportIds : Lasts(q),
         \A c \in Readers :
            \/ readers'[c] = readers[c] \/ readers'[c].of = 0
            \/ /\ readers'[c].saw.status \in Concluded
               /\ <<readers'[c].of, readers'[c].saw.status>> \in notices'
               /\ SameReport(reports'[readers'[c].of], readers'[c].saw),
         \A w \in DOMAIN writings' :
            \/ w \in DOMAIN writings /\ writings'[w] = writings[w]
            \/ /\ ~writings'[w].begun
               /\ writings'[w].of # 0 => reports'[writings'[w].of].status # "none"
            \/ /\ writings'[w].of # 0
               /\ writings'[w].saw.status \in {"generating"} \cup Concluded
               /\ SameReport(reports'[writings'[w].of], writings'[w].saw)
  PROVE  CopyInv'
<1>1. ASSUME NEW q \in ReportIds, NEW saw, SameReport(reports[q], saw)
      PROVE  SameReport(reports'[q], saw)
  BY <1>1 DEF SameReport, Lasts
<1>2. ASSUME NEW c \in Readers, readers'[c].of # 0
      PROVE  /\ readers'[c].saw.status \in Concluded
             /\ <<readers'[c].of, readers'[c].saw.status>> \in notices'
             /\ SameReport(reports'[readers'[c].of], readers'[c].saw)
  <2>1. CASE readers'[c] = readers[c]
    <3>1. readers[c].of \in ReportIds
      BY <1>2, <2>1, CopiesTyped
    <3>2. /\ readers[c].saw.status \in Concluded
          /\ <<readers[c].of, readers[c].saw.status>> \in notices
          /\ SameReport(reports[readers[c].of], readers[c].saw)
      BY <1>2, <2>1 DEF CopyInv
    <3> QED
      BY <1>1, <2>1, <3>1, <3>2
  <2> QED
    BY <1>2, <2>1
<1>3. ASSUME NEW w \in DOMAIN writings'
      PROVE  /\ writings'[w].of # 0 => reports'[writings'[w].of].status # "none"
             /\ writings'[w].begun =>
                /\ writings'[w].of # 0
                /\ writings'[w].saw.status \in {"generating"} \cup Concluded
                /\ SameReport(reports'[writings'[w].of], writings'[w].saw)
  <2>1. CASE w \in DOMAIN writings /\ writings'[w] = writings[w]
    <3>1. writings[w].of # 0 => writings[w].of \in ReportIds
      BY <2>1, CopiesTyped
    <3>2. /\ writings[w].of # 0 => reports[writings[w].of].status # "none"
          /\ writings[w].begun =>
                /\ writings[w].of # 0
                /\ writings[w].saw.status \in {"generating"} \cup Concluded
                /\ SameReport(reports[writings[w].of], writings[w].saw)
      BY <2>1 DEF CopyInv
    <3>3. writings[w].of # 0 => reports'[writings[w].of].status # "none"
      BY <3>1, <3>2 DEF Lasts
    <3> QED
      BY <1>1, <2>1, <3>1, <3>2, <3>3, Zenon
  <2>2. CASE ~writings'[w].begun /\
             (writings'[w].of # 0 => reports'[writings'[w].of].status # "none")
    BY <2>2
  <2>3. CASE /\ writings'[w].of # 0
             /\ writings'[w].saw.status \in {"generating"} \cup Concluded
             /\ SameReport(reports'[writings'[w].of], writings'[w].saw)
    BY <2>3 DEF SameReport
  <2> QED
    BY <2>1, <2>2, <2>3
<1> QED
  BY <1>2, <1>3, Zenon DEF CopyInv

LEMMA LoopStep ==
  ASSUME LoopInv, Unnoticed' \subseteq Unnoticed, loopCounted' => loopCounted,
         \A r \in ReportIds :
            reports'[r].by = "system" /\ reports'[r].status \notin {"none", "gone"} =>
                reports[r] = reports'[r] \/ reports'[r].type \in AutoTypes
  PROVE  LoopInv'
<1>1. \A r \in ReportIds : reports'[r].by = "system" /\ reports'[r].status \notin {"none", "gone"}
                                => reports'[r].type \in AutoTypes
  BY DEF LoopInv
<1>2. (\A r, q \in Unnoticed' : r = q) /\ (loopCounted' => Unnoticed' = {})
  BY DEF LoopInv
<1> QED
  BY <1>1, <1>2 DEF LoopInv

LEMMA FalseIsFalse ==
  ASSUME NEW a \in RowsOfReports, NEW b \in RowsOfReports, ~a.error, ~b.error
  PROVE  a.error = b.error
<1>1. a.error \in BOOLEAN /\ b.error \in BOOLEAN
  BY DEF RowsOfReports
<1> QED
  BY <1>1, Zenon

LEMMA AnnouncedTyped ==
  ASSUME ReportTypes, NEW r \in ReportIds, NEW current, Announce(r, current),
         reports' \in [ReportIds -> RowsOfReports], readers' \in [Readers -> Copies]
  PROVE  ReportTypes' /\ \A w \in DOMAIN writings' :
            \/ w \in DOMAIN writings /\ writings'[w] = writings[w]
            \/ ~writings'[w].begun /\ writings'[w].of = r
<1> DEFINE new == [AtRest EXCEPT !.of = r]
<1>1. new.of = r /\ ~new.begun /\ new \in Copies
  <2>1. r \in 0..MaxReports /\ NoReport \in RowsOfReports
    BY ReportAssumption, BlankReports DEF ReportIds
  <2> QED
    BY <2>1 DEF AtRest, Copies
<1>2. writings' = Append(writings, new) \/ writings' = writings
  BY DEF Announce
<1> HIDE DEF new
<1>3. CASE writings' = Append(writings, new)
  <2>1. writings \in Seq(Copies)
    BY DEF ReportTypes
  <2>2. /\ writings' \in Seq(Copies) /\ DOMAIN writings = 1..Len(writings)
        /\ DOMAIN writings' = 1..(Len(writings) + 1)
        /\ \A w \in 1..Len(writings) : writings'[w] = writings[w]
        /\ writings'[Len(writings) + 1] = new
    BY <1>1, <1>3, <2>1
  <2>3. \A w \in DOMAIN writings' : w \in DOMAIN writings \/ w = Len(writings) + 1
    BY <2>1, <2>2
  <2> QED
    BY <1>1, <2>2, <2>3 DEF ReportTypes
<1>4. CASE writings' = writings
  BY <1>4 DEF ReportTypes
<1> QED
  BY <1>2, <1>3, <1>4

\* A new writing is nobody's yet, and nobody else is at the report if it was as it was read.
LEMMA AnnounceStep ==
  ASSUME RowsInv, ReportTypes', NEW r \in ReportIds, NEW row, NEW current \in BOOLEAN,
         Announce(r, current), reports' = [reports EXCEPT ![r] = row],
         row.status = "generating", current => ~row.error,
         \A w \in DOMAIN writings : writings[w].of = r /\ WritesAlone(w) => row = reports[r]
  PROVE  WorkedOnInv' /\ AloneInv'
<1>1. /\ ReportTypes /\ CopyInv /\ WorkedOnInv /\ AloneInv
      /\ reports'[r] = row /\ \A q \in ReportIds \ {r} : reports'[q] = reports[q]
      /\ r # 0
  BY ReportAssumption DEF RowsInv, ReportTypes, ReportIds
<1>2. CASE /\ writings' = Append(writings, [AtRest EXCEPT !.of = r])
           /\ writtenAlone' = (writtenAlone /\ current
                                /\ \A w \in DOMAIN writings : writings[w].of # r)
           /\ UNCHANGED <<unfinished, faultsLeft>>
  <2> DEFINE n == Len(writings) + 1
  <2>1. [AtRest EXCEPT !.of = r].of = r /\ ~[AtRest EXCEPT !.of = r].begun
        /\ [AtRest EXCEPT !.of = r] \in Copies
    <3>1. r \in 0..MaxReports /\ NoReport \in RowsOfReports
      BY ReportAssumption, BlankReports DEF ReportIds
    <3> QED
      BY <3>1 DEF AtRest, Copies
  <2>2. /\ DOMAIN writings' = DOMAIN writings \cup {n}
        /\ writings'[n].of = r /\ ~writings'[n].begun
        /\ \A w \in DOMAIN writings : writings'[w] = writings[w]
        /\ n \notin DOMAIN writings
    BY <1>1, <1>2, <2>1 DEF ReportTypes
  <2> HIDE DEF n
  <2>3. WorkedOnInv'
    <3> SUFFICES ASSUME NEW q \in ReportIds, reports'[q].status = "generating",
                        q \notin unfinished'
                 PROVE  \E w \in DOMAIN writings' :
                           /\ writings'[w].of = q
                           /\ writings'[w].begun => writings'[w].saw.status = "generating"
      BY DEF WorkedOnInv
    <3>1. CASE q = r
      BY <2>2, <3>1
    <3>2. CASE q # r
      BY <1>1, <1>2, <2>2, <3>2 DEF WorkedOnInv
    <3> QED
      BY <3>1, <3>2
  <2>4. AloneInv'
    <3> SUFFICES ASSUME writtenAlone', NEW w \in DOMAIN writings', writings'[w].of # 0
                 PROVE  WritesAlone(w)'
      BY DEF AloneInv
    <3>1. writtenAlone /\ current /\ \A v \in DOMAIN writings : writings[v].of # r
      BY <1>2
    <3>2. CASE w = n
      BY <1>1, <2>2, <3>1, <3>2 DEF WritesAlone
    <3>3. CASE w # n
      <4>1. w \in DOMAIN writings /\ writings'[w] = writings[w] /\ writings[w].of # r
        BY <2>2, <3>1, <3>3
      <4>2. writings[w].of \in ReportIds \ {r}
        BY <1>1, <3>3, <4>1, CopiesTyped
      <4>3. reports'[writings[w].of] = reports[writings[w].of]
        BY <1>1, <4>2
      <4>4. WritesAlone(w)
        BY <1>1, <3>1, <4>1 DEF AloneInv
      <4> QED
        BY <2>2, <4>1, <4>3, <4>4, Zenon DEF WritesAlone
    <3> QED
      BY <3>2, <3>3
  <2> QED
    BY <2>3, <2>4
<1>3. CASE unfinished' = unfinished \cup {r} /\ UNCHANGED <<writings, writtenAlone>>
  <2>1. WorkedOnInv'
    BY <1>1, <1>3 DEF WorkedOnInv
  <2>2. AloneInv'
    <3> SUFFICES ASSUME writtenAlone, NEW w \in DOMAIN writings, writings[w].of # 0
                 PROVE  WritesAlone(w)'
      BY <1>3 DEF AloneInv
    <3>1. WritesAlone(w) /\ writings[w].of \in ReportIds
      BY <1>1, CopiesTyped DEF AloneInv
    <3>2. reports'[writings[w].of] = reports[writings[w].of]
      BY <1>1, <3>1 DEF WritesAlone
    <3> QED
      BY <1>3, <3>1, <3>2, Zenon DEF WritesAlone
  <2> QED
    BY <2>1, <2>2
<1> QED
  BY <1>2, <1>3 DEF Announce, ReportFault

LEMMA CreateStep ==
  ASSUME RowsInv, NEW r \in ReportIds, NEW type \in Types, NEW by \in Creators,
         Create(r, type, by),
         \/ by = "person" /\ loopCounted' = loopCounted
         \/ type \in AutoTypes /\ loopCounted /\ loopCounted' = FALSE
  PROVE  RowsInv'
<1> DEFINE row == [NoReport EXCEPT !.status = "generating", !.type = type, !.by = by]
<1>1. /\ ReportTypes /\ CopyInv /\ WorkedOnInv /\ AloneInv /\ LoopInv
      /\ FinishedIsWhole /\ AskersKnow
      /\ reports[r].status = "none" /\ reports' = [reports EXCEPT ![r] = row]
      /\ Announce(r, TRUE) /\ UNCHANGED <<readers, notices>>
  BY DEF RowsInv, Create
<1>2. row \in RowsOfReports
  BY BlankReports DEF RowsOfReports
<1>3. row.status = "generating" /\ row.by = by /\ row.type = type /\ ~row.error
  BY BlankReports DEF NoReport
<1> HIDE DEF row
<1>4. /\ reports'[r] = row /\ \A q \in ReportIds \ {r} : reports'[q] = reports[q]
      /\ reports' \in [ReportIds -> RowsOfReports]
  BY <1>1, <1>2 DEF ReportTypes
<1>5. ReportTypes' /\ \A w \in DOMAIN writings' :
         \/ w \in DOMAIN writings /\ writings'[w] = writings[w]
         \/ ~writings'[w].begun /\ writings'[w].of = r
  BY <1>1, <1>4, AnnouncedTyped DEF ReportTypes
<1>6. WorkedOnInv' /\ AloneInv'
  <2>1. \A w \in DOMAIN writings : writings[w].of # r
    BY <1>1 DEF CopyInv, ReportIds
  <2> QED
    BY <1>1, <1>3, <1>5, <2>1, AnnounceStep
<1>7. CopyInv'
  <2>1. \A q \in ReportIds : Lasts(q)
    BY <1>1, <1>4 DEF Lasts
  <2> QED
    BY <1>1, <1>3, <1>4, <1>5, <2>1, CopyStep
<1>8. LoopInv'
  <2>1. CASE by = "person" /\ loopCounted' = loopCounted
    <3>1. Unnoticed' = Unnoticed
      BY <1>1, <1>3, <1>4, <2>1 DEF Unnoticed
    <3> QED
      BY <1>1, <1>3, <1>4, <2>1, <3>1, LoopStep
  <2>2. CASE type \in AutoTypes /\ loopCounted /\ loopCounted' = FALSE
    <3>1. Unnoticed = {} /\ \A q \in ReportIds :
             reports[q].by = "system" /\ reports[q].status \notin {"none", "gone"}
                => reports[q].type \in AutoTypes
      BY <1>1, <2>2 DEF LoopInv
    <3>2. Unnoticed' \subseteq {r}
      BY <1>1, <1>4, <3>1 DEF Unnoticed
    <3>3. \A q \in ReportIds :
             reports'[q].by = "system" /\ reports'[q].status \notin {"none", "gone"}
                => reports'[q].type \in AutoTypes
      BY <1>3, <1>4, <2>2, <3>1
    <3> QED
      BY <2>2, <3>2, <3>3 DEF LoopInv
  <2> QED
    BY <2>1, <2>2
<1>9. FinishedIsWhole'
  <2>1. writtenAlone' => writtenAlone
    BY <1>1 DEF Announce
  <2>2. \A q \in ReportIds : reports'[q].status = "done" =>
           reports[q].status = "done" /\ reports'[q] = reports[q]
    BY <1>3, <1>4
  <2> QED
    BY <1>1, <2>1, <2>2, Zenon DEF FinishedIsWhole, Whole
<1>10. AskersKnow'
  BY <1>1, <1>3, <1>4 DEF AskersKnow, Concluded
<1> QED
  BY <1>5, <1>6, <1>7, <1>8, <1>9, <1>10 DEF RowsInv

LEMMA WriteAgainStep ==
  ASSUME RowsInv, NEW c \in Readers, WriteAgain(c)
  PROVE  RowsInv'
<1> DEFINE r == readers[c].of
           saw == readers[c].saw
           new == [saw EXCEPT !.status = "generating", !.error = FALSE]
           row == Flushed(reports[r], saw, new)
<1>1. /\ ReportTypes /\ CopyInv /\ WorkedOnInv /\ AloneInv /\ LoopInv
      /\ FinishedIsWhole /\ AskersKnow
      /\ r # 0 /\ readers' = [readers EXCEPT ![c] = AtRest]
      /\ UNCHANGED <<loopCounted, notices>>
  BY DEF RowsInv, WriteAgain
<1>2. r \in ReportIds /\ saw \in RowsOfReports /\ reports[r] \in RowsOfReports
  BY <1>1, CopiesTyped
<1>3. readers' \in [Readers -> Copies] /\ \A d \in Readers :
         readers'[d] = readers[d] \/ readers'[d].of = 0
  BY <1>1, BlankReports DEF ReportTypes
<1>4. CASE /\ reports[r].status = "gone"
           /\ UNCHANGED <<reports, writings, unfinished, writtenAlone, faultsLeft>>
  <2>1. ReportTypes'
    BY <1>1, <1>3, <1>4 DEF ReportTypes
  <2>2. \A q \in ReportIds : Lasts(q)
    BY <1>4 DEF Lasts
  <2>3. CopyInv'
    BY <1>1, <1>3, <1>4, <2>2, CopyStep
  <2>4. WorkedOnInv' /\ AloneInv' /\ LoopInv' /\ FinishedIsWhole' /\ AskersKnow'
    BY <1>1, <1>4 DEF WorkedOnInv, AloneInv, WritesAlone, LoopInv, Unnoticed, FinishedIsWhole,
                      Whole, AskersKnow
  <2> QED
    BY <2>1, <2>3, <2>4 DEF RowsInv
<1>5. CASE /\ reports[r].status # "gone" /\ reports' = [reports EXCEPT ![r] = row]
           /\ Announce(r, reports[r] = saw)
  <2>1. /\ saw.status \in Concluded /\ <<r, saw.status>> \in notices
        /\ SameReport(reports[r], saw)
    BY <1>1 DEF CopyInv
  <2>2. /\ new \in RowsOfReports /\ new.status = "generating" /\ ~new.error
        /\ new.type = saw.type /\ new.by = saw.by /\ new.sections = saw.sections
        /\ new.text = saw.text
    BY <1>2 DEF RowsOfReports
  <2> HIDE DEF new
  <2>3. /\ row \in RowsOfReports
        /\ row.status = "generating" /\ row.type = reports[r].type /\ row.by = reports[r].by
        /\ row.sections = reports[r].sections /\ row.text = reports[r].text
        /\ row.error = IF new.error = saw.error THEN reports[r].error ELSE new.error
        /\ reports[r] = saw => row = new
    <3>1. saw.status # "generating"
      BY <2>1 DEF Concluded
    <3> HIDE DEF r, saw
    <3>2. /\ row \in RowsOfReports
          /\ row.status = IF new.status = saw.status THEN reports[r].status ELSE new.status
          /\ row.type = IF new.type = saw.type THEN reports[r].type ELSE new.type
          /\ row.by = IF new.by = saw.by THEN reports[r].by ELSE new.by
          /\ row.sections = IF new.sections = saw.sections THEN reports[r].sections
                            ELSE new.sections
          /\ row.text = IF new.text = saw.text THEN reports[r].text ELSE new.text
          /\ row.error = IF new.error = saw.error THEN reports[r].error ELSE new.error
      BY <1>2, <2>2, FlushedReport
    <3>3. reports[r] = saw => row = new
      BY <1>2, <2>2, FlushedUnchanged
    <3> HIDE DEF row
    <3> QED
      BY <2>2, <3>1, <3>2, <3>3
  <2> HIDE DEF row, r, saw
  <2>4. /\ reports'[r] = row /\ \A q \in ReportIds \ {r} : reports'[q] = reports[q]
        /\ reports' \in [ReportIds -> RowsOfReports]
    BY <1>1, <1>2, <1>5, <2>3 DEF ReportTypes
  <2>5. ReportTypes' /\ \A w \in DOMAIN writings' :
           \/ w \in DOMAIN writings /\ writings'[w] = writings[w]
           \/ ~writings'[w].begun /\ writings'[w].of = r
    BY <1>1, <1>2, <1>3, <1>5, <2>4, AnnouncedTyped
  <2>6. ASSUME NEW w \in DOMAIN writings, writings[w].of = r, WritesAlone(w)
        PROVE  row = reports[r]
    <3>1. reports[r].status = "generating" /\ ~reports[r].error
      BY <1>5, <2>6 DEF WritesAlone
    <3>2. ~row.error
      BY <2>2, <2>3, <3>1, Zenon
    <3>3. row.error = reports[r].error
      BY <1>2, <2>3, <3>1, <3>2, FalseIsFalse
    <3> QED
      BY <1>2, <2>3, <3>1, <3>3, SameRow
  <2>7. (reports[r] = saw) => ~row.error
    BY <2>2, <2>3, Zenon
  <2>8. WorkedOnInv' /\ AloneInv'
    BY <1>2, <1>5, <2>3, <2>5, <2>6, <2>7, AnnounceStep
  <2>9. CopyInv'
    <3>1. \A q \in ReportIds : Lasts(q)
      BY <1>5, <2>1, <2>3, <2>4 DEF Lasts
    <3> QED
      BY <1>1, <1>3, <2>3, <2>4, <2>5, <3>1, CopyStep
  <2>10. LoopInv'
    <3>1. r \notin Unnoticed'
      BY <1>1, <2>1 DEF Unnoticed
    <3>2. Unnoticed' \subseteq Unnoticed
      BY <1>1, <2>4, <3>1 DEF Unnoticed
    <3>3. ASSUME reports'[r].by = "system" PROVE reports'[r].type \in AutoTypes
      BY <1>1, <1>2, <1>5, <2>1, <2>3, <2>4, <3>3 DEF LoopInv, SameReport
    <3> QED
      BY <1>1, <2>4, <3>2, <3>3, LoopStep
  <2>11. FinishedIsWhole'
    <3>1. writtenAlone' => writtenAlone
      BY <1>5 DEF Announce
    <3>2. \A q \in ReportIds : reports'[q].status = "done" =>
             reports[q].status = "done" /\ reports'[q] = reports[q]
      BY <2>3, <2>4
    <3> QED
      BY <1>1, <3>1, <3>2, Zenon DEF FinishedIsWhole, Whole
  <2>12. AskersKnow'
    BY <1>1, <2>3, <2>4 DEF AskersKnow, Concluded
  <2> QED
    BY <2>5, <2>8, <2>9, <2>10, <2>11, <2>12 DEF RowsInv
<1> QED
  BY <1>4, <1>5 DEF WriteAgain

LEMMA WantAgainStep ==
  ASSUME RowsInv, NEW c \in Readers, NEW r \in ReportIds, WantAgain(c, r)
  PROVE  RowsInv'
<1> DEFINE copy == [AtRest EXCEPT !.of = r, !.saw = reports[r]]
<1>1. /\ ReportTypes /\ CopyInv /\ WorkedOnInv /\ AloneInv /\ LoopInv
      /\ FinishedIsWhole /\ AskersKnow
      /\ reports[r].status \in Concluded /\ readers' = [readers EXCEPT ![c] = copy]
      /\ UNCHANGED <<reports, writings, loopCounted, unfinished, notices, writtenAlone>>
  BY DEF RowsInv, WantAgain
<1>2. copy \in Copies /\ copy.of = r /\ copy.saw = reports[r]
  <2>1. r \in 0..MaxReports /\ reports[r] \in RowsOfReports
    BY <1>1, ReportAssumption DEF ReportIds, ReportTypes
  <2> QED
    BY <2>1 DEF Copies, AtRest
<1> HIDE DEF copy
<1>3. /\ readers' \in [Readers -> Copies] /\ readers'[c] = copy
      /\ \A d \in Readers \ {c} : readers'[d] = readers[d]
  BY <1>1, <1>2 DEF ReportTypes
<1>4. ReportTypes'
  BY <1>1, <1>3 DEF ReportTypes
<1>5. CopyInv'
  <2>1. \A q \in ReportIds : Lasts(q)
    BY <1>1 DEF Lasts
  <2>2. <<r, reports[r].status>> \in notices /\ SameReport(reports[r], reports[r])
    BY <1>1 DEF AskersKnow, SameReport, Concluded
  <2> QED
    BY <1>1, <1>2, <1>3, <2>1, <2>2, CopyStep
<1> QED
  BY <1>1, <1>4, <1>5 DEF RowsInv, WorkedOnInv, AloneInv, WritesAlone, LoopInv, Unnoticed,
                          FinishedIsWhole, Whole, AskersKnow

LEMMA DeleteReportStep ==
  ASSUME RowsInv, NEW r \in ReportIds, DeleteReport(r)
  PROVE  RowsInv'
<1> DEFINE row == [NoReport EXCEPT !.status = "gone"]
<1>1. /\ ReportTypes /\ CopyInv /\ WorkedOnInv /\ AloneInv /\ LoopInv
      /\ FinishedIsWhole /\ AskersKnow
      /\ reports' = [reports EXCEPT ![r] = row]
      /\ UNCHANGED <<readers, writings, loopCounted, unfinished, notices, writtenAlone>>
  BY DEF RowsInv, DeleteReport
<1>2. row \in RowsOfReports /\ row.status = "gone"
  BY BlankReports DEF RowsOfReports
<1> HIDE DEF row
<1>3. /\ reports'[r] = row /\ \A q \in ReportIds \ {r} : reports'[q] = reports[q]
      /\ reports' \in [ReportIds -> RowsOfReports]
  BY <1>1, <1>2 DEF ReportTypes
<1>4. ReportTypes'
  BY <1>1, <1>3 DEF ReportTypes
<1>5. CopyInv'
  <2>1. \A q \in ReportIds : Lasts(q)
    BY <1>2, <1>3 DEF Lasts
  <2> QED
    BY <1>1, <2>1, CopyStep
<1>6. WorkedOnInv'
  BY <1>1, <1>2, <1>3 DEF WorkedOnInv
<1>7. AloneInv'
  <2> SUFFICES ASSUME writtenAlone, NEW w \in DOMAIN writings, writings[w].of # 0
               PROVE  WritesAlone(w)'
    BY <1>1 DEF AloneInv
  <2>1. WritesAlone(w) /\ writings[w].of \in ReportIds
    BY <1>1, CopiesTyped DEF AloneInv
  <2>2. CASE writings[w].of = r
    <3>1. \A v \in DOMAIN writings : writings[v].of = writings[w].of => v = w
      BY <2>1 DEF WritesAlone
    <3>2. reports'[writings'[w].of].status = "gone"
      BY <1>1, <1>2, <1>3, <2>2
    <3> QED
      BY <1>1, <3>1, <3>2, Zenon DEF WritesAlone
  <2>3. CASE writings[w].of # r
    <3>1. reports'[writings[w].of] = reports[writings[w].of]
      BY <1>3, <2>1, <2>3
    <3> QED
      BY <1>1, <2>1, <3>1, Zenon DEF WritesAlone
  <2> QED
    BY <2>2, <2>3
<1>8. LoopInv'
  <2>1. Unnoticed' \subseteq Unnoticed
    BY <1>1, <1>2, <1>3 DEF Unnoticed
  <2> QED
    BY <1>1, <1>2, <1>3, <2>1, LoopStep
<1>9. FinishedIsWhole'
  <2>1. \A q \in ReportIds : reports'[q].status = "done" =>
           reports[q].status = "done" /\ reports'[q] = reports[q]
    BY <1>2, <1>3
  <2> QED
    BY <1>1, <2>1, Zenon DEF FinishedIsWhole, Whole
<1>10. AskersKnow'
  BY <1>1, <1>2, <1>3 DEF AskersKnow, Concluded
<1> QED
  BY <1>4, <1>5, <1>6, <1>7, <1>8, <1>9, <1>10 DEF RowsInv

LEMMA LoopCountsStep ==
  ASSUME RowsInv, LoopCounts
  PROVE  RowsInv'
<1>1. /\ ReportTypes /\ CopyInv /\ WorkedOnInv /\ AloneInv /\ LoopInv
      /\ FinishedIsWhole /\ AskersKnow
      /\ \E t \in AutoTypes : ~InWork(t)
      /\ UNCHANGED <<reports, readers, writings, unfinished, notices, writtenAlone>>
  BY DEF RowsInv, LoopCounts
<1>2. Unnoticed = {}
  BY <1>1 DEF LoopInv, Unnoticed, InWork, AutoTypes
<1>3. LoopInv'
  BY <1>1, <1>2 DEF LoopInv, Unnoticed
<1> QED
  BY <1>1, <1>3 DEF RowsInv, ReportTypes, CopyInv, WorkedOnInv, AloneInv, WritesAlone,
                    FinishedIsWhole, Whole, AskersKnow

\* A writing that is over, whatever it has left.
LEMMA OverStep ==
  ASSUME ReportTypes, AloneInv, NEW w \in DOMAIN writings,
         writings' = [writings EXCEPT ![w] = AtRest], UNCHANGED writtenAlone,
         writtenAlone => \A q \in ReportIds :
            reports'[q] = reports[q] \/ q = writings[w].of
  PROVE  /\ writings' \in Seq(Copies) /\ DOMAIN writings' = DOMAIN writings
         /\ writings'[w] = AtRest
         /\ \A v \in DOMAIN writings \ {w} : writings'[v] = writings[v]
         /\ writings[w].of # 0 => AloneInv'
<1>1. /\ writings' \in Seq(Copies) /\ DOMAIN writings' = DOMAIN writings
      /\ writings'[w] = AtRest
      /\ \A v \in DOMAIN writings \ {w} : writings'[v] = writings[v]
  BY BlankReports DEF ReportTypes
<1>2. ASSUME writings[w].of # 0, writtenAlone, NEW v \in DOMAIN writings, writings'[v].of # 0
      PROVE  WritesAlone(v)'
  <2>1. v # w /\ writings'[v] = writings[v]
    BY <1>1, <1>2, BlankReports
  <2>2. WritesAlone(v) /\ writings[v].of \in ReportIds
    BY <1>2, <2>1, CopiesTyped DEF AloneInv
  <2>3. writings[w].of # writings[v].of
    BY <2>1, <2>2 DEF WritesAlone
  <2>4. reports'[writings[v].of] = reports[writings[v].of]
    BY <1>2, <2>2, <2>3
  <2>5. \A u \in DOMAIN writings' : writings'[u].of = writings'[v].of => u = v
    BY <1>1, <1>2, <2>1, <2>2, BlankReports DEF WritesAlone
  <2> QED
    BY <2>1, <2>2, <2>4, <2>5, Zenon DEF WritesAlone
<1> QED
  BY <1>1, <1>2 DEF AloneInv

LEMMA BeginReportStep ==
  ASSUME RowsInv, NEW w \in DOMAIN writings, BeginReport(w)
  PROVE  RowsInv'
<1> DEFINE r == writings[w].of
           copy == [writings[w] EXCEPT !.begun = TRUE, !.saw = reports[r]]
<1>1. /\ ReportTypes /\ CopyInv /\ WorkedOnInv /\ AloneInv /\ LoopInv
      /\ FinishedIsWhole /\ AskersKnow
      /\ r # 0 /\ ~writings[w].begun
      /\ UNCHANGED <<reports, readers, loopCounted, unfinished, notices, writtenAlone>>
  BY DEF RowsInv, BeginReport
<1>2. r \in ReportIds /\ reports[r] \in RowsOfReports /\ reports[r].status # "none"
  BY <1>1, CopiesTyped DEF CopyInv
<1>3. LoopInv' /\ FinishedIsWhole' /\ AskersKnow'
  BY <1>1 DEF LoopInv, Unnoticed, FinishedIsWhole, Whole, AskersKnow
<1>4. \A q \in ReportIds : Lasts(q)
  BY <1>1 DEF Lasts
<1>5. CASE reports[r].status = "gone" /\ writings' = [writings EXCEPT ![w] = AtRest]
  <2>1. /\ writings' \in Seq(Copies) /\ DOMAIN writings' = DOMAIN writings
        /\ writings'[w] = AtRest
        /\ \A v \in DOMAIN writings \ {w} : writings'[v] = writings[v]
        /\ AloneInv'
    BY <1>1, <1>5, OverStep
  <2>2. ReportTypes'
    BY <1>1, <2>1 DEF ReportTypes
  <2>3. CopyInv'
    BY <1>1, <1>4, <2>1, BlankReports, CopyStep
  <2>4. WorkedOnInv'
    BY <1>1, <1>5, <2>1 DEF WorkedOnInv
  <2> QED
    BY <1>3, <2>1, <2>2, <2>3, <2>4 DEF RowsInv
<1>6. CASE reports[r].status # "gone" /\ writings' = [writings EXCEPT ![w] = copy]
  <2>1. writings[w] \in Copies
    BY <1>1, CopiesTyped
  <2>2. copy \in Copies /\ copy.of = r /\ copy.begun /\ copy.saw = reports[r]
    BY <1>2, <2>1 DEF Copies
  <2> HIDE DEF copy
  <2>3. /\ writings' \in Seq(Copies) /\ DOMAIN writings' = DOMAIN writings
        /\ writings'[w] = copy
        /\ \A v \in DOMAIN writings \ {w} : writings'[v] = writings[v]
        /\ \A v \in DOMAIN writings : writings'[v].of = writings[v].of
    BY <1>1, <1>6, <2>2 DEF ReportTypes
  <2>4. ReportTypes'
    BY <1>1, <2>3 DEF ReportTypes
  <2>5. reports[r].status \in {"generating"} \cup Concluded /\ SameReport(reports[r], reports[r])
    BY <1>2, <1>6 DEF RowsOfReports, SameReport
  <2>6. CopyInv'
    BY <1>1, <1>2, <1>4, <2>2, <2>3, <2>5, CopyStep
  <2>7. WorkedOnInv'
    <3> SUFFICES ASSUME NEW q \in ReportIds, reports[q].status = "generating", q \notin unfinished
                 PROVE  \E v \in DOMAIN writings' :
                           /\ writings'[v].of = q
                           /\ writings'[v].begun => writings'[v].saw.status = "generating"
      BY <1>1 DEF WorkedOnInv
    <3>1. PICK v \in DOMAIN writings :
             /\ writings[v].of = q
             /\ writings[v].begun => writings[v].saw.status = "generating"
      BY <1>1 DEF WorkedOnInv
    <3>2. CASE v = w
      BY <2>2, <2>3, <3>1, <3>2
    <3>3. CASE v # w
      BY <2>3, <3>1, <3>3
    <3> QED
      BY <3>2, <3>3
  <2>8. AloneInv'
    <3> SUFFICES ASSUME writtenAlone, NEW v \in DOMAIN writings, writings[v].of # 0
                 PROVE  WritesAlone(v)'
      BY <1>1, <2>3 DEF AloneInv
    <3>1. WritesAlone(v)
      BY <1>1 DEF AloneInv
    <3>2. CASE v = w
      <4>1. writings'[v].saw = reports'[writings'[v].of]
        BY <1>1, <2>2, <2>3, <3>2
      <4> QED
        BY <1>1, <2>3, <3>1, <4>1, Zenon DEF WritesAlone
    <3>3. CASE v # w
      BY <1>1, <2>3, <3>1, <3>3, Zenon DEF WritesAlone
    <3> QED
      BY <3>2, <3>3
  <2> QED
    BY <1>3, <2>4, <2>6, <2>7, <2>8 DEF RowsInv
<1> QED
  BY <1>5, <1>6 DEF BeginReport

\* What a writing leaves: its parts where it was alone, the row of another elsewhere.
LEMMA WrittenRow ==
  ASSUME ReportTypes, NEW w \in DOMAIN writings, writings[w].of \in ReportIds,
         NEW sections \in {w, Template}, NEW status \in Concluded
  PROVE  LET now == reports[writings[w].of]
             saw == writings[w].saw
             row == WrittenBy(w, sections, status) IN
         /\ row \in RowsOfReports /\ row.type = now.type /\ row.by = now.by
         /\ row.status = IF status = saw.status THEN now.status ELSE status
         /\ now = saw /\ row.status = "done" /\ saw.status = "generating" =>
               row.sections \in {row.text, Template} /\ row.error = saw.error
<1> DEFINE now == reports[writings[w].of]
           saw == writings[w].saw
           done == [saw EXCEPT !.status = status, !.sections = sections, !.text = w]
           failed == [saw EXCEPT !.status = status, !.error = TRUE]
           new == IF status = "failed" THEN failed ELSE done
<1>1. now \in RowsOfReports /\ saw \in RowsOfReports
  BY CopiesTyped
<1>2. w \in Nat /\ sections \in Nat
  BY ReportAssumption DEF ReportTypes, Template
<1> HIDE DEF now, saw
<1>3. /\ done \in RowsOfReports /\ done.status = status /\ done.type = saw.type
      /\ done.by = saw.by /\ done.sections = sections /\ done.text = w /\ done.error = saw.error
  BY <1>1, <1>2 DEF RowsOfReports
<1>4. /\ failed \in RowsOfReports /\ failed.status = status /\ failed.type = saw.type
      /\ failed.by = saw.by
  BY <1>1 DEF RowsOfReports
<1> HIDE DEF done, failed
<1>5. /\ new \in RowsOfReports /\ new.status = status /\ new.type = saw.type
      /\ new.by = saw.by
  BY <1>3, <1>4
<1>6. WrittenBy(w, sections, status) = Flushed(now, saw, new)
  BY DEF WrittenBy, now, saw, done, failed
<1> DEFINE row == Flushed(now, saw, new)
<1> HIDE DEF new
<1>7. /\ row \in RowsOfReports /\ row.type = now.type /\ row.by = now.by
      /\ row.status = IF status = saw.status THEN now.status ELSE status
  BY <1>1, <1>5, FlushedReport
<1>8. ASSUME now = saw, row.status = "done", saw.status = "generating"
      PROVE  row.sections \in {row.text, Template} /\ row.error = saw.error
  <2>1. row = new
    BY <1>1, <1>5, <1>8, FlushedUnchanged
  <2>2. new = done
    BY <1>5, <1>8, <2>1 DEF new
  <2> QED
    BY <1>3, <2>1, <2>2
<1> HIDE DEF row
<1>9. WrittenBy(w, sections, status) = row
  BY <1>6 DEF row
<1> QED
  BY <1>7, <1>8, <1>9 DEF now, saw

LEMMA EndReportStep ==
  ASSUME RowsInv, NEW w \in DOMAIN writings, EndReport(w)
  PROVE  RowsInv'
<1> DEFINE r == writings[w].of
           saw == writings[w].saw
<1>1. /\ ReportTypes /\ CopyInv /\ WorkedOnInv /\ AloneInv /\ LoopInv
      /\ FinishedIsWhole /\ AskersKnow
      /\ writings[w].begun /\ writings' = [writings EXCEPT ![w] = AtRest]
      /\ UNCHANGED <<readers, loopCounted, writtenAlone>>
  BY DEF RowsInv, EndReport
<1>2. /\ r # 0 /\ r \in ReportIds /\ reports[r] \in RowsOfReports /\ reports[r].status # "none"
      /\ saw.status \in {"generating"} \cup Concluded
  BY <1>1, CopiesTyped DEF CopyInv, SameReport
<1>3. ASSUME UNCHANGED <<reports, notices>>,
             \/ reports[r].status = "gone" /\ unfinished' = unfinished
             \/ unfinished' = unfinished \cup {r}
      PROVE  RowsInv'
  <2>1. /\ writings' \in Seq(Copies) /\ DOMAIN writings' = DOMAIN writings
        /\ writings'[w] = AtRest
        /\ \A v \in DOMAIN writings \ {w} : writings'[v] = writings[v]
        /\ AloneInv'
    BY <1>1, <1>2, <1>3, OverStep
  <2>2. ReportTypes'
    BY <1>1, <1>3, <2>1 DEF ReportTypes
  <2>3. \A q \in ReportIds : Lasts(q)
    BY <1>3 DEF Lasts
  <2>4. CopyInv'
    BY <1>1, <1>3, <2>1, <2>3, BlankReports, CopyStep
  <2>5. WorkedOnInv'
    <3> SUFFICES ASSUME NEW q \in ReportIds, reports[q].status = "generating", q \notin unfinished'
                 PROVE  \E v \in DOMAIN writings' :
                           /\ writings'[v].of = q
                           /\ writings'[v].begun => writings'[v].saw.status = "generating"
      BY <1>3 DEF WorkedOnInv
    <3>1. q # r /\ q \notin unfinished
      BY <1>3
    <3>2. PICK v \in DOMAIN writings :
             /\ writings[v].of = q
             /\ writings[v].begun => writings[v].saw.status = "generating"
      BY <1>1, <3>1 DEF WorkedOnInv
    <3> QED
      BY <2>1, <3>1, <3>2
  <2>6. LoopInv' /\ FinishedIsWhole' /\ AskersKnow'
    BY <1>1, <1>3 DEF LoopInv, Unnoticed, FinishedIsWhole, Whole, AskersKnow
  <2> QED
    BY <2>1, <2>2, <2>4, <2>5, <2>6 DEF RowsInv
<1>4. ASSUME NEW sections \in {w, Template}, NEW status \in Concluded,
             reports[r].status # "gone", unfinished' = unfinished,
             reports' = [reports EXCEPT ![r] = WrittenBy(w, sections, status)],
             notices' = notices \cup {<<r, status>>}
      PROVE  RowsInv'
  <2> DEFINE row == WrittenBy(w, sections, status)
  <2>1. /\ row \in RowsOfReports /\ row.type = reports[r].type /\ row.by = reports[r].by
        /\ row.status = IF status = saw.status THEN reports[r].status ELSE status
        /\ reports[r] = saw /\ row.status = "done" /\ saw.status = "generating" =>
               row.sections \in {row.text, Template} /\ row.error = saw.error
    BY <1>1, <1>2, WrittenRow
  <2> HIDE DEF row, r, saw
  <2>2. /\ reports'[r] = row /\ \A q \in ReportIds \ {r} : reports'[q] = reports[q]
        /\ reports' \in [ReportIds -> RowsOfReports]
    BY <1>1, <1>2, <1>4, <2>1 DEF ReportTypes, row
  <2>3. /\ writings' \in Seq(Copies) /\ DOMAIN writings' = DOMAIN writings
        /\ writings'[w] = AtRest
        /\ \A v \in DOMAIN writings \ {w} : writings'[v] = writings[v]
        /\ AloneInv'
    BY <1>1, <1>2, <2>2, OverStep DEF r
  <2>4. ReportTypes'
    BY <1>1, <2>2, <2>3 DEF ReportTypes
  <2>5. row.status \in {"generating"} \cup Concluded
    BY <1>2, <1>4, <2>1 DEF RowsOfReports
  <2>6. \A q \in ReportIds : Lasts(q)
    BY <1>2, <1>4, <2>1, <2>2, <2>5 DEF Lasts, Concluded
  <2>7. CopyInv'
    BY <1>1, <1>4, <2>3, <2>6, BlankReports, CopyStep
  <2>8. WorkedOnInv'
    <3> SUFFICES ASSUME NEW q \in ReportIds, reports'[q].status = "generating", q \notin unfinished
                 PROVE  \E v \in DOMAIN writings' :
                           /\ writings'[v].of = q
                           /\ writings'[v].begun => writings'[v].saw.status = "generating"
      BY <1>4 DEF WorkedOnInv
    <3>1. reports[q].status = "generating" /\ (q = r => saw.status # "generating")
      BY <1>4, <2>1, <2>2 DEF Concluded
    <3>2. PICK v \in DOMAIN writings :
             /\ writings[v].of = q
             /\ writings[v].begun => writings[v].saw.status = "generating"
      BY <1>1, <3>1 DEF WorkedOnInv
    <3>3. v # w
      BY <1>1, <3>1, <3>2 DEF r, saw
    <3> QED
      BY <2>3, <3>2, <3>3
  <2>9. LoopInv'
    <3>1. Unnoticed' \subseteq Unnoticed
      BY <1>2, <1>4, <2>1, <2>2, <2>5 DEF Unnoticed, Concluded
    <3>2. reports'[r].by = "system" => reports'[r].type \in AutoTypes
      BY <1>1, <1>2, <1>4, <2>1, <2>2 DEF LoopInv
    <3> QED
      BY <1>1, <2>2, <3>1, <3>2, LoopStep
  <2>10. FinishedIsWhole'
    <3> SUFFICES ASSUME writtenAlone, NEW q \in ReportIds, reports'[q].status = "done"
                 PROVE  Whole(q)'
      BY <1>1 DEF FinishedIsWhole
    <3>1. CASE q # r
      BY <1>1, <2>2, <3>1, Zenon DEF FinishedIsWhole, Whole
    <3>2. CASE q = r
      <4>1. reports[r].status = "generating" /\ ~reports[r].error /\ saw = reports[r]
        BY <1>1, <1>2, <1>4 DEF AloneInv, WritesAlone, r, saw
      <4>2. row.sections \in {row.text, Template} /\ row.error = saw.error
        BY <2>1, <2>2, <3>2, <4>1
      <4> QED
        BY <2>2, <3>2, <4>1, <4>2, Zenon DEF Whole
    <3> QED
      BY <3>1, <3>2
  <2>11. AskersKnow'
    BY <1>1, <1>2, <1>4, <2>1, <2>2 DEF AskersKnow, Concluded
  <2> QED
    BY <2>3, <2>4, <2>7, <2>8, <2>9, <2>10, <2>11 DEF RowsInv
<1>5. \/ /\ UNCHANGED <<reports, notices>>
         /\ \/ reports[r].status = "gone" /\ unfinished' = unfinished
            \/ unfinished' = unfinished \cup {r}
      \/ \E sections \in {w, Template}, status \in Concluded :
            /\ reports[r].status # "gone" /\ unfinished' = unfinished
            /\ reports' = [reports EXCEPT ![r] = WrittenBy(w, sections, status)]
            /\ notices' = notices \cup {<<r, status>>}
  BY DEF EndReport, Concluded
<1> QED
  BY <1>3, <1>4, <1>5

LEMMA StopReportsStep ==
  ASSUME RowsInv, StopReports
  PROVE  RowsInv'
<1>1. /\ ReportTypes /\ CopyInv /\ WorkedOnInv /\ AloneInv /\ LoopInv
      /\ FinishedIsWhole /\ AskersKnow
      /\ unfinished' = unfinished \cup ({writings[w].of : w \in DOMAIN writings} \ {0})
      /\ writings' = [w \in DOMAIN writings |-> AtRest]
      /\ readers' = [c \in Readers |-> AtRest] /\ loopCounted' = FALSE
      /\ UNCHANGED <<reports, notices, writtenAlone>>
  BY DEF RowsInv, StopReports
<1>2. ReportTypes'
  <2>1. DOMAIN writings = 1..Len(writings) /\ Len(writings) \in Nat
    BY <1>1 DEF ReportTypes
  <2>2. writings' \in Seq(Copies)
    BY <1>1, <2>1, BlankReports
  <2> QED
    BY <1>1, <2>2, BlankReports DEF ReportTypes
<1>3. CopyInv' /\ AloneInv'
  BY <1>1, BlankReports DEF CopyInv, AloneInv
<1>4. WorkedOnInv'
  <2>1. \A r \in ReportIds : r # 0
    BY ReportAssumption DEF ReportIds
  <2> QED
    BY <1>1, <2>1 DEF WorkedOnInv
<1> QED
  BY <1>1, <1>2, <1>3, <1>4 DEF RowsInv, LoopInv, Unnoticed, FinishedIsWhole, Whole, AskersKnow

-----------------------------------------------------------------------------
(* The matrix of settings.                                                 *)

IsMatrix(m) ==
    /\ DOMAIN m = {"active", "error", "notice", "left"}
    /\ m.active \in BOOLEAN /\ m.error \in BOOLEAN /\ m.notice \in {"none", "done", "system"}

MatrixInv ==
    /\ IsMatrix(matrix)
    /\ "mine" \in compared => matrix.active
    /\ ~matrix.active /\ matrix.notice = "system" => matrix.error
    /\ ~matrix.active /\ matrix.notice = "done" => ~matrix.error

LEMMA MatrixStep ==
  ASSUME MatrixInv, StartMatrix \/ SpawnMatrix \/ EndMatrix \/ StopMatrix \/ OrphanEnds
  PROVE  MatrixInv'
<1>1. /\ DOMAIN matrix = {"active", "error", "notice", "left"} /\ matrix.active \in BOOLEAN
      /\ matrix.error \in BOOLEAN /\ matrix.notice \in {"none", "done", "system"}
      /\ "mine" \in compared => matrix.active
      /\ ~matrix.active /\ matrix.notice = "system" => matrix.error
      /\ ~matrix.active /\ matrix.notice = "done" => ~matrix.error
  BY DEF MatrixInv, IsMatrix
<1>2. CASE StartMatrix
  <2>1. /\ DOMAIN matrix' = DOMAIN matrix /\ matrix'.active = TRUE /\ matrix'.error = FALSE
        /\ matrix'.notice = matrix.notice
    BY <1>1, <1>2 DEF StartMatrix
  <2> QED
    BY <1>1, <2>1 DEF MatrixInv, IsMatrix
<1>3. CASE SpawnMatrix
  <2>1. CASE compared' = compared \cup {"mine"} /\ UNCHANGED matrix
    BY <1>1, <1>3, <2>1 DEF SpawnMatrix, MatrixInv, IsMatrix
  <2>2. CASE matrix' = [matrix EXCEPT !.error = TRUE] /\ UNCHANGED compared
    <3>1. /\ DOMAIN matrix' = DOMAIN matrix /\ matrix'.active = matrix.active
          /\ matrix'.error = TRUE /\ matrix'.notice = matrix.notice
      BY <1>1, <2>2
    <3>2. matrix.active
      BY <1>3 DEF SpawnMatrix
    <3> QED
      BY <1>1, <2>2, <3>1, <3>2 DEF MatrixInv, IsMatrix
  <2> QED
    BY <1>3, <2>1, <2>2 DEF SpawnMatrix
<1>4. CASE EndMatrix
  <2>1. PICK well \in BOOLEAN, names \in SUBSET {"baseline", "variant"} :
          \E probes \in [names -> Scores] :
             LET error == matrix.error \/ ~well IN
             matrix' = [active |-> FALSE, error |-> error,
                        notice |-> IF error THEN "system" ELSE "done",
                        left |-> IF error THEN matrix.left ELSE MatrixOf(probes)]
    BY <1>4 DEF EndMatrix
  <2>2. "mine" \notin compared'
    BY <1>4 DEF EndMatrix
  <2> DEFINE failed == matrix.error \/ ~well
  <2>3. \E left : matrix' = [active |-> FALSE, error |-> failed,
                             notice |-> IF failed THEN "system" ELSE "done", left |-> left]
    BY <2>1
  <2>4. failed \in BOOLEAN
    OBVIOUS
  <2> HIDE DEF failed
  <2>5. /\ DOMAIN matrix' = {"active", "error", "notice", "left"} /\ matrix'.active = FALSE
        /\ matrix'.error = failed /\ matrix'.notice = IF failed THEN "system" ELSE "done"
    BY <2>3
  <2>6. CASE failed = TRUE
    <3>1. matrix'.error = TRUE /\ matrix'.notice = "system"
      BY <2>5, <2>6
    <3> QED
      BY <2>2, <2>5, <3>1 DEF MatrixInv, IsMatrix
  <2>7. CASE failed = FALSE
    <3>1. matrix'.error = FALSE /\ matrix'.notice = "done"
      BY <2>5, <2>7
    <3> QED
      BY <2>2, <2>5, <3>1 DEF MatrixInv, IsMatrix
  <2> QED
    BY <2>4, <2>6, <2>7
<1>5. CASE StopMatrix
  <2>1. /\ DOMAIN matrix' = {"active", "error", "notice", "left"} /\ matrix'.active = FALSE
        /\ matrix'.error = FALSE /\ matrix'.notice = "none"
    BY <1>5 DEF StopMatrix, NoMatrix
  <2>2. "mine" \notin compared'
    BY <1>5 DEF StopMatrix
  <2> QED
    BY <2>1, <2>2 DEF MatrixInv, IsMatrix
<1>6. CASE OrphanEnds
  <2>1. /\ DOMAIN matrix' = DOMAIN matrix /\ matrix'.active = matrix.active
        /\ matrix'.error = matrix.error /\ matrix'.notice = matrix.notice
    BY <1>1, <1>6 DEF OrphanEnds
  <2>2. "mine" \in compared' <=> "mine" \in compared
    BY <1>6 DEF OrphanEnds
  <2> QED
    BY <1>1, <2>1, <2>2 DEF MatrixInv, IsMatrix
<1> QED
  BY <1>2, <1>3, <1>4, <1>5, <1>6

\* The judgement of a setting: what is adopted for what it finds is missed for the same.
LEMMA VerdictsOppose ==
  ASSUME NEW a \in Scores, NEW b \in Scores, Verdict(a, b) = "adopt"
  PROVE  Verdict(b, a) = "withdraw"
<1>1. a.recall \in Int /\ b.recall \in Int
  BY ReportAssumption
<1>2. b.recall - a.recall >= 100
  BY DEF Verdict, AdoptGain
<1>3. a.recall - b.recall < -50
  BY <1>1, <1>2
<1> QED
  BY <1>3 DEF Verdict, RegressEps

\* For any readers, reports and bounds: a report in work has somebody at it unless that was lost
\* in a fault, a report one alone has written is of one piece, whoever asked is told how it
\* ended, the loop waits for what it began, and the matrix is marked while it is computed.
THEOREM ReportsStayKept == ReportsSpec => []ReportsKept
<1> DEFINE Inv == RowsInv /\ MatrixInv
<1>1. ReportsInit => Inv
  <2> SUFFICES ASSUME ReportsInit PROVE Inv
    OBVIOUS
  <2>1. /\ \A r \in ReportIds : reports[r] = NoReport
        /\ \A c \in Readers : readers[c] = AtRest
        /\ writings = <<>> /\ DOMAIN writings = {} /\ notices = {} /\ loopCounted = FALSE
    BY DEF ReportsInit
  <2>2. ReportTypes
    BY BlankReports DEF ReportsInit, ReportTypes
  <2>3. CopyInv /\ WorkedOnInv /\ AloneInv /\ LoopInv /\ FinishedIsWhole /\ AskersKnow
    BY <2>1, BlankReports DEF CopyInv, WorkedOnInv, AloneInv, LoopInv, Unnoticed,
                               FinishedIsWhole, AskersKnow, Concluded
  <2>4. MatrixInv
    BY DEF ReportsInit, NoMatrix, MatrixInv, IsMatrix
  <2> QED
    BY <2>2, <2>3, <2>4 DEF RowsInv
<1>2. Inv /\ [ReportsNext \/ MatrixNext]_allReportVars => Inv'
  <2> SUFFICES ASSUME Inv, [ReportsNext \/ MatrixNext]_allReportVars PROVE Inv'
    OBVIOUS
  <2>1. CASE ReportsNext
    <3>1. MatrixInv'
      BY <2>1 DEF ReportsNext, matrixVars, MatrixInv, IsMatrix
    <3>2. CASE \E t \in Types : AskForReport(t)
      <4>1. PICK t \in Types, r \in ReportIds : Create(r, t, "person") /\ UNCHANGED loopCounted
        BY <3>2 DEF AskForReport
      <4> QED
        BY <3>1, <4>1, CreateStep DEF Creators
    <3>3. CASE \E c \in Readers : WriteAgain(c)
      BY <3>1, <3>3, WriteAgainStep
    <3>4. CASE \E c \in Readers, r \in ReportIds : WantAgain(c, r)
      BY <3>1, <3>4, WantAgainStep
    <3>5. CASE \E r \in ReportIds : DeleteReport(r)
      BY <3>1, <3>5, DeleteReportStep
    <3>6. CASE LoopCounts
      BY <3>1, <3>6, LoopCountsStep
    <3>7. CASE LoopCreates
      <4>1. loopCounted /\ loopCounted' = FALSE
        BY <3>7 DEF LoopCreates
      <4>2. PICK r \in ReportIds, t \in AutoTypes : Create(r, t, "system")
        BY <3>7 DEF LoopCreates
      <4>3. t \in Types
        BY DEF AutoTypes, Types
      <4> QED
        BY <3>1, <4>1, <4>2, <4>3, CreateStep DEF Creators
    <3>8. CASE \E w \in DOMAIN writings : BeginReport(w)
      BY <3>1, <3>8, BeginReportStep
    <3>9. CASE \E w \in DOMAIN writings : EndReport(w)
      BY <3>1, <3>9, EndReportStep
    <3>10. CASE StopReports
      BY <3>1, <3>10, StopReportsStep
    <3> QED
      BY <2>1, <3>2, <3>3, <3>4, <3>5, <3>6, <3>7, <3>8, <3>9, <3>10 DEF ReportsNext
  <2>2. ASSUME UNCHANGED <<reports, readers, writings, loopCounted, unfinished, notices,
                           writtenAlone>>
        PROVE  RowsInv'
    BY <2>2 DEF RowsInv, ReportTypes, CopyInv, WorkedOnInv, AloneInv, WritesAlone, LoopInv,
                Unnoticed, FinishedIsWhole, Whole, AskersKnow
  <2>3. CASE MatrixNext
    BY <2>2, <2>3, MatrixStep DEF MatrixNext
  <2>4. CASE UNCHANGED allReportVars
    BY <2>2, <2>4 DEF allReportVars, reportVars, matrixVars, MatrixInv, IsMatrix
  <2> QED
    BY <2>1, <2>3, <2>4
<1>3. Inv => ReportsKept
  <2> SUFFICES ASSUME Inv PROVE ReportsKept
    OBVIOUS
  <2>1. InWorkIsWorkedOn
    BY DEF RowsInv, WorkedOnInv, InWorkIsWorkedOn
  <2>2. LoopWaits
    BY DEF RowsInv, LoopInv, Unnoticed, LoopWaits
  <2>3. ~matrix.active /\ matrix.notice # "none" => (matrix.notice = "system") = matrix.error
    <3>1. matrix.error \in BOOLEAN /\ matrix.notice \in {"none", "done", "system"}
      BY DEF MatrixInv, IsMatrix
    <3>2. /\ ~matrix.active /\ matrix.notice = "system" => matrix.error = TRUE
          /\ ~matrix.active /\ matrix.notice = "done" => matrix.error = FALSE
      BY <3>1, Zenon DEF MatrixInv
    <3>3. "done" # "system"
      OBVIOUS
    <3> QED
      BY <3>1, <3>2, <3>3, SMT
  <2>4. MatrixIsSound
    BY <2>3, VerdictsOppose DEF MatrixInv, MatrixIsSound
  <2> QED
    BY <2>1, <2>2, <2>4 DEF ReportsKept, RowsInv
<1> QED
  BY <1>1, <1>2, <1>3, PTL DEF ReportsSpec
=============================================================================
